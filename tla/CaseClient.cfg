SPECIFICATION FairSpec
CONSTANTS
    t1 = t1
    t2 = t2
    c1 = c1
    None = None
    CaseIds = {c1}
    Tabs = {t1, t2}
    Analysts = {t1}
    Reviewers = {t2}
    MaxCalls = 2
    MaxFaults = 1
PROPERTIES
    BusyEnds
    CasesGetThrough
