\* Two replicas, two configurations, one stop, one edit.
SPECIFICATION FairSpec
CONSTANTS
    r1 = r1
    r2 = r2
    web = web
    feishu = feishu
    old = old
    new = new
    NoSecret = NoSecret
    NoUser = NoUser
    NoProvider = NoProvider
    Replicas = {r1, r2}
    Migrations <- MCMigrations
    Configurations <- MCConfigurations
    Providers = {web, feishu}
    Secrets = {old, new}
    Members = {ann}
    Spare = {d1, d2}
    MaxFaults = 1
    MaxEdits = 1
CHECK_DEADLOCK FALSE
INVARIANTS
    MigratesAlone
    TokensExplained
    ServingIsReady
PROPERTIES
    FailedStartsExplained
    EventuallyServes
