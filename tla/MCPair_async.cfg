SPECIFICATION Spec
CONSTANTS
    a = a
    b = b
    addrA = addrA
    addrB = addrB
    addrN = addrN
    Node = {a, b}
    Addr = {addrA, addrB, addrN, Unspecified}
    Config <- PairConfig
    HomeAddr <- PairHome
    Roaming = {}
    None = None
    Absent = Absent
    Unspecified = Unspecified
    Ephemeral = {1, 2, 3, 4, 5, 6}
    INIT_RETRY_INTERVAL = 1
    KEEPALIVE = 1
    REKEY_AFTER = 1
    REJECT_AFTER = 1
    REPLAY_WINDOW = 1
    RATE_WINDOW = 1
    COOKIE_INIT_RATE_LIMIT = 2
    MaxNonce = 4
    MaxInFlight = 2
    Budget <- AsyncBudget
    EndlessTime = FALSE
    Prompt = {}
INVARIANTS
    TypeOK
    NoncesFresh
    ReplaysRejected
    SilenceMeansOldKey
PROPERTIES
    StaleDropsData
CHECK_DEADLOCK FALSE
