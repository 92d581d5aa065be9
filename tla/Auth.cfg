CONSTANTS
    Requests <- MCRequests
    Names <- MCNames
    Passwords <- MCPasswords
    Configs <- MCConfigs
    Credentials <- MCCredentials
    BcryptSlots = 1
    TTL = 1
    MaxClock = 1
    MaxGenerations = 2
SPECIFICATION FairSpec
INVARIANTS
    TypeOK
    SlotsAccounted
    HitBacked
    AdmittedByConfigInEffect
    RefusedForCause
PROPERTIES
    ImplementsPolicy
    EveryRequestAnswered
