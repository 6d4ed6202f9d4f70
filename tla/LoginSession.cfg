CONSTANTS
    Requests = {r1, r2}
    Providers = {entra}
    Half = 1
    TxTTL = 2
    KeysTTL = 2
    MaxClock = 3
    MaxSends = 3
    MaxEvents = 1
SPECIFICATION Spec
SYMMETRY Interchangeable
INVARIANTS StaysSignedIn LogoutHolds OnlyExcusedLoginsFail
CHECK_DEADLOCK FALSE
