\* Rejected transactions and an empty wallet; a plain, two integrated, a payment-ID and an invalid payee.
CONSTANTS
    Logins = {a, i, j, p, x}
    PidLogins = {p}
    Integrated = {i, j}
    Invalid = {x}
    MaxAddresses = 2
    Threshold = 1
    CreditAmounts = {2}
    MaxCredit = 2
    Faults = {"reject", "balance"}
    MaxFaults = 1
SPECIFICATION Spec
INVARIANTS NeverOverpay BatchIsSendable
PROPERTIES EventuallyPaid
