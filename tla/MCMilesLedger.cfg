CONSTANTS
    Users = {u1}
    Events = {e1, e2}
    Purchases = {p1}
    Redemptions = {r1}
    Spends = {250}
    Rates = {1, 2}
    Prices = {2}
    Calls = {c1, c2}
    InOrder = TRUE
    MayFail = TRUE
    None = None
SPECIFICATION FairSpec
PROPERTY PurchaseIsCredited
CHECK_DEADLOCK FALSE
  
