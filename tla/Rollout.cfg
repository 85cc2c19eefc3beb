\* A deploy races a rollback and a change of size; pods come up, fail, or never come up.
SPECIFICATION FairSpec
CONSTANTS
    first = first
    second = second
    third = third
    deploy = deploy
    back = back
    NoTemplate = NoTemplate
    Templates = {first, second, third}
    GoalOf <- MCGoalOf
    RevisionOf <- MCRevisionOf
    History <- MCHistory
    Deploys = {deploy}
    Flaky = {first, second}
    Jobs = {deploy, back}
    Sizes = {0, 1, 2}
    MaxTries = 2
    MaxScales = 1
CHECK_DEADLOCK FALSE
INVARIANTS
    ScalePreserved
    RevisionKeepsMeaning
    CompletionIsSeen
PROPERTIES
    ForeignSuccessExplained
    SuccessWasCounted
    EveryRolloutEnds
