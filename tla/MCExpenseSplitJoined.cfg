CONSTANTS
    Members = {1, 2, 3}
    Payer = 1
    Totals = {2, 5}
    Modes = {"percent"}
    Typed = {0, 5}
    Excluded = {{}, {2}}
    Whole = 10
    Joiners = {3}
    Quarrels = {}
    MaxTries = 3
    Forms <- MCForms
    LaterForms <- NoLaterForms
    None = None
    Wrong = Wrong
SPECIFICATION Spec
INVARIANT OneExpensePerForm
CHECK_DEADLOCK FALSE
