\* Every kind of fault, one plain and one payment-ID payee.
CONSTANTS
    Logins = {a, p}
    PidLogins = {p}
    Integrated = {}
    Invalid = {}
    MaxAddresses = 2
    Threshold = 1
    CreditAmounts = {0, 1, 2}
    MaxCredit = 3
    Faults = {"reject", "balance", "noanswer", "crash", "overlap"}
    MaxFaults = 2
SPECIFICATION Spec
INVARIANTS TypeOK ExcessAccounted WalletMatchesRecords
PROPERTIES OverwriteNeverAdds
