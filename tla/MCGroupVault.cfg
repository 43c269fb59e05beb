CONSTANTS
    m1 = m1  m2 = m2  m3 = m3  x1 = x1
    d1 = d1  d2 = d2
    None = None
    Vault = Vault  Token = Token  Zero = Zero
    Members = {m1, m2, m3}
    Strangers = {x1}
    Purses <- Purse
    Fees = {0}
    DepositIds = {d1, d2}
    Amount <- TwoDeposits
    Amounts = {1, 3}
    UnlockAt = 1
    Cap = 2
    Lifetime = 2
    MaxTime = 3
    MaxProposals = 2
SPECIFICATION Spec
SYMMETRY MemberSymmetry
CHECK_DEADLOCK FALSE
PROPERTIES PaidOnlyWhenAllAgree KeepsPromise
INVARIANTS BooksAreTrue
