CONSTANTS
    u1 = u1  u2 = u2  u3 = u3
    g1 = g1
    c1 = c1  c2 = c2
    None = None
    Users = {u1, u2, u3}
    Groups = {g1}
    Blockers = {u1, u2, u3}
    Calls = {c1, c2}
    MayFail = TRUE
SPECIFICATION Spec
SYMMETRY UserSymmetry
CHECK_DEADLOCK FALSE
INVARIANTS CreatorBelongs
PROPERTY NobodyJoinsUninvited
