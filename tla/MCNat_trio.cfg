SPECIFICATION JoinSpec
CONSTANTS
    h = h
    r = r
    c = c
    addrH = addrH
    addrR = addrR
    addrC = addrC
    addrN = addrN
    Node = {h, r, c}
    Addr = {addrH, addrR, addrC, Unspecified}
    Config <- WildcardConfig
    HomeAddr <- NatHome
    Roaming = {}
    None = None
    Absent = Absent
    Unspecified = Unspecified
    Ephemeral = {1, 2, 3, 4, 5, 6, 7}
    INIT_RETRY_INTERVAL = 1
    KEEPALIVE = 1
    REKEY_AFTER = 2
    REJECT_AFTER = 3
    REPLAY_WINDOW = 3
    RATE_WINDOW = 1
    COOKIE_INIT_RATE_LIMIT = 2
    MaxNonce = 4
    MaxInFlight = 3
    Budget <- OnePacket
    EndlessTime = FALSE
    Prompt = {"nodes", "network", "daemons"}
INVARIANTS
    SessionsAttributed
    LearnedIsOwnAddress
    NeverStuckInInit
PROPERTIES
    TrioReconnects
CHECK_DEADLOCK FALSE
