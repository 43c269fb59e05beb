CONSTANTS
    ann = ann  bob = bob  s1 = s1  s2 = s2  x1 = x1
    People = {ann, bob}
    Registered = {ann}
    Attempts = {s1, s2}
    Exits = {x1}
    MaxTokens = 2
    MaxCrashes = 1
    Absent = Absent
SPECIFICATION SessionFairSpec
PROPERTIES SpinnerStops
INVARIANTS SignedOutStaysOut ListIsOfShown
CHECK_DEADLOCK FALSE
