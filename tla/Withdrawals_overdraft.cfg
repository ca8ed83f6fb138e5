CONSTANTS
    c1 = c1
    c2 = c2
    c3 = c3
    alice = alice
    k1 = k1
    None = None
    Calls = {c1, c2}
    KeyOf <- DistinctKeys
    UserOf <- OneUser
    AmountOf <- UnitAmounts
    Funds <- OneUnit
    Faults = {}
SPECIFICATION Spec
INVARIANTS
    BalanceIsSafe
