\* Two payment-ID payees in one interval.
CONSTANTS
    Logins = {p, q}
    PidLogins = {p, q}
    Integrated = {}
    Invalid = {}
    MaxAddresses = 2
    Threshold = 1
    CreditAmounts = {2}
    MaxCredit = 2
    Faults = {}
    MaxFaults = 0
SPECIFICATION Spec
INVARIANTS PaymentIDOneAtATime
