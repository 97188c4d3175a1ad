CONSTANTS
    r1 = r1  r2 = r2  r3 = r3
    Requests = {r1, r2}
    LockoutThreshold = 2
    BackupCodeCount = 2
    Steps = {1, 2}
    TOTP = TOTP
    None = None
    Policies = {TRUE, FALSE}
    Accounts <- MCAccounts
SPECIFICATION Spec
INVARIANTS SecondFactorAsked
PROPERTIES FactorsPaid TicketsHold
SYMMETRY Symmetry
CHECK_DEADLOCK FALSE
