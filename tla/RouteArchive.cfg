SPECIFICATION Spec
CONSTANTS
    p1 = p1
    p2 = p2
    p3 = p3
    c1 = c1
    c2 = c2
    v1 = v1
    v2 = v2
    name = name
    Procs = {p1, p2, p3}
    Codes = {c1, c2}
    Fields = {name}
    Values = {v1, v2}
    None = None
    MaxRoutes = 2
    MaxTraces = 2
    MaxTrail = 2
SYMMETRY Interchangeable
INVARIANTS
    TypeOK
    CodesUnique
    RowAsLogged
    BaselineBelongs
\* The archive rests once the bounds are used up.
CHECK_DEADLOCK FALSE
