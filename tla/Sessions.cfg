SPECIFICATION FairSpec
CONSTANTS
    ann = ann
    rev = rev
    t1 = t1
    t2 = t2
    Accounts = {ann, rev}
    Seeds <- MCSeeds
    SeedRole <- MCSeedRole
    Roles = {"analyst", "reviewer"}
    None = None
    AutoMigrate = TRUE
    MaxFaults = 1
    Tabs = {t1, t2}
    Operations = {"review"}
    AllowedRoles <- MCAllowedRoles
    MaxTokens = 2
INVARIANTS
    ServingSeeded
    AuthorityCurrent
PROPERTIES
    LostSessionEnds
