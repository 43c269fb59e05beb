CONSTANTS
    Wallets = {w1, w2}
    Handles = {h1, h2}
    Users = {u1, u2}
    Challenges = {n1, n2, n3}
    Sessions = {s1, s2}
    Calls = {c1, c2}
    MaxVersion = 2
    None = None
SPECIFICATION Spec
INVARIANTS OneSignInPerChallenge RevokedStayOut
SYMMETRY Symmetric
CHECK_DEADLOCK FALSE
