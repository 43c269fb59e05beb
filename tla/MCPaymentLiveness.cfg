CONSTANTS
    a1 = a1  a2 = a2
    o1 = o1  o2 = o2  o3 = o3
    t1 = t1  t2 = t2
    p1 = p1  p2 = p2
    s1 = s1  s2 = s2
    None = None
    Accounts = {a1}
    Payments = {p1, p2}
    Opaque = {p2}
    Payee <- OneListed
    Ops = {o1}
    Txs = {t1}
    Slots = {s1}
    MaxWatched = 1
    SharedBundles = FALSE
    LeaveMidway = TRUE
    MaxCrashes = 1
SPECIFICATION FairSpec
PROPERTIES  LandedIsRecorded
