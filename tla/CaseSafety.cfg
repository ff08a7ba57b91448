SPECIFICATION Spec
CONSTANTS
    a1 = a1
    a2 = a2
    r1 = r1
    boss = boss
    Procs = {a1, a2, r1}
    RoleOf <- MCRoleOf
    CaseIds = {101}
    NoCase = 0
    Traces = {1, 2, 3}
    Routes = {1, 2}
    RouteOf <- MCRouteOf
    None = None
    MaxVersion = 6
    MaxFaults = 1
SYMMETRY Analysts
INVARIANTS
    TypeOK
    AuditComplete
    TrailLegal
    LeaseUnique
    RunReportsOnce
    BeforeImageAccurate
    ResultFromTrail
    ErrorMatchesStatus
PROPERTIES
    ReviewedIsFrozen
    ImplementsWorkflow
