CONSTANTS
    Members = {1, 2, 3}
    Payer = 1
    Totals = {5}
    Modes = {"custom", "percent"}
    Typed = {0, 2, 3, 5, Wrong}
    Excluded = {{}, {2}}
    Whole = 10
    Joiners = {3}
    Quarrels = {{1, 2}}
    MaxTries = 3
    Forms <- MCForms
    LaterForms <- MCLaterForms
    None = None
    Nothing = Nothing
    Wrong = Wrong
    u1 = u1  u2 = u2
    k1 = k1  k2 = k2
    e1 = e1  e2 = e2  e3 = e3
    Google = Google
    Social = {u2}
    Accounts = {u1, u2}
    Passkeys = {k1, k2}
    Owner <- PasskeyOwner
    Keys = {e1, e2, e3}
    MaxProfiles = 1
    MaxStarts = 2
    MaxWaiting = 1
    Slow = FALSE
    Lost = FALSE
    o1 = o1  o2 = o2
    a1 = a1  a2 = a2
    p1 = p1  p2 = p2
    Nil = Nil
    Native = Native
    Unread = Unread
    Ops = {o1, o2}
    Ours = o1
    Wallets = {a1, a2}
    Account = a1
    Payments = {p1, p2}
    Receipts <- Bundles
    Ages = {Nil, 0, 2}
    Behind = 1
    MaxHead = 5
    UnknownAge = 4
    MaxLookback = 5
    Margin = 1
    Floor = 1
    MaxRequests = 5
SPECIFICATION FormsSpec
SYMMETRY EntrySymmetry
CHECK_DEADLOCK FALSE
INVARIANTS SharesAreFair StoredAsReviewed FormsBecomeExpenses   LandingIsTold AnswerIsTrue
