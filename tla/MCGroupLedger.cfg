CONSTANTS
    u1 = u1  u2 = u2  u3 = u3
    g1 = g1
    c1 = c1
    e1 = e1  e2 = e2  q1 = q1  q2 = q2
    t1 = t1  t2 = t2  r1 = r1  h1 = h1  h2 = h2
    None = None
    Users = {u1, u2}
    Groups = {g1}
    Blockers = {}
    Calls = {}
    MayFail = TRUE
    Expenses = {e1}
    Quotes = {q1, q2}
    Payments = {t1, t2}
    Requests = {r1}
    Amounts = {1}
    Handlers = {h1, h2}
    Leavers = {}
    QuoteLife = 1
    RequestLife = 1
    MaxTime = 2
SPECIFICATION LedgerSpec
SYMMETRY LedgerSymmetry
CHECK_DEADLOCK FALSE
INVARIANTS MembersOwe ClosedIsSquare QuotesStand SettledMeansPaid OneReceiptOneDebt
