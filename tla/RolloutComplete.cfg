\* One rollback of a Deployment of one pod, undisturbed.
SPECIFICATION Spec
CONSTANTS
    first = first
    second = second
    third = third
    deploy = deploy
    back = back
    NoTemplate = NoTemplate
    Templates = {first, second, third}
    GoalOf <- NoGoals
    RevisionOf <- MCRevisionOf
    History <- MCHistory
    Deploys = {}
    Flaky = {}
    Jobs = {back}
    Sizes = {1}
    MaxTries = 2
    MaxScales = 0
CHECK_DEADLOCK FALSE
PROPERTY SuccessMeansComplete
