CONSTANTS
    Types = {t1, t2, t3}
    Keys = {k1, k2, k3}
    Values = {v1, v2}
    IllFormed = IllFormed
    NotFound = NotFound
    MaxLength = 3
    MaxPuts = 3
SPECIFICATION ListSpec
INVARIANTS
    PositionsAgree
    EditsKeepTheRest
    DictIsMap
