\* A credit committed between the scan and the debit of another payee.
CONSTANTS
    Logins = {a, b}
    PidLogins = {}
    Integrated = {}
    Invalid = {}
    MaxAddresses = 2
    Threshold = 1
    CreditAmounts = {1, 2}
    MaxCredit = 3
    Faults = {}
    MaxFaults = 0
SPECIFICATION Spec
PROPERTIES OverwriteDeletesOnlyPaid
