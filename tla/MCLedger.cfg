\* Two requests at a time for two users, one name and one order.
SPECIFICATION Spec
CONSTANTS
    Users = {u1, u2}
    Names = {s1}
    Orders = {o1}
    Procs = {p1, p2}
    Prices <- SomePrices
    Amounts <- SomeAmounts
    Reward = 1
    Days = 2
    MaxBalance = 3
    MaxClaims = 2
    MaxRequests = 4
    MaxFaults = 1
    NoUser = NoUser
SYMMETRY Symmetry
INVARIANTS LedgerExplainsBalance GrantedOnce ClaimsPaid RefundsWhatWasPaid
CHECK_DEADLOCK FALSE
