CONSTANTS
    None = None  Unread = Unread
    ana = ana  ben = ben  usdc = usdc  eth = eth  shop = shop  x = x  y = y
    nick = nick  trip = trip  words = words
    Areas = {"send", "wallet", "history", "groups", "people", "contact", "buy", "link", "receive", "activity", "group", "identity"}
    Recipients = {shop}
    Tokens = {usdc, eth}
    FeeToken = usdc
    Amounts = {5}
    TooFine = TooFine
    Fees = {4, 6}
    NoFee = NoFee
    Cent = 3
    Wallets <- ReadWallets
    Payments = {p1}
    Runs = {r1, r2}
    People = {ana, ben}
    Parties = {x, y}
    Members = {y}
    Entries <- SomeEntries
    Nicknames = {nick}
    Groups = {trip}
    Queries = {words}
    Found <- FoundHere
    Readings = {0, 13}
    Grain = 10
    Histories <- SomeHistories
    MaxResets = 2
    MaxRequests = 5
    Calls = {c1, c2}
    Kept <- SomeBooks
    Sites <- SomeSites
    Connections = {home, nat}
    Private = {nat}
    Sessions = {s1, s2}
    Signers = {w1}
    Tries = {t1, t2}
    Holders = {ana}
    Addresses = {"a1", "a2", "a3"}
    Own <- TwoTypes
    Services = {f1, f2}
    Operations = {o1, o2}
    Aging = {o1}
    Debtor = ana
    Others = {ben}
    Settlements = {q1}
    Starts <- SomeStarts
    Newcomers = {ana, ben}
    Handles = {h1}
    Lookups = {k1}
SPECIFICATION ScreensSpec
INVARIANTS NothingAboveShown   OnlyOwnData OnlySandboxOpens NobodySlipsIn 
PROPERTY KeptStands
CHECK_DEADLOCK FALSE
