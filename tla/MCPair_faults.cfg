SPECIFICATION FairSpec
CONSTANTS
    a = a
    b = b
    addrA = addrA
    addrB = addrB
    addrN = addrN
    Node = {a, b}
    Addr = {addrA, addrB, addrN, Unspecified}
    Config <- PairConfig
    HomeAddr <- PairHome
    Roaming = {}
    None = None
    Absent = Absent
    Unspecified = Unspecified
    Ephemeral = {1, 2, 3, 4, 5, 6}
    INIT_RETRY_INTERVAL = 1
    KEEPALIVE = 1
    REKEY_AFTER = 2
    REJECT_AFTER = 4
    REPLAY_WINDOW = 5
    RATE_WINDOW = 1
    COOKIE_INIT_RATE_LIMIT = 2
    MaxNonce = 5
    MaxInFlight = 3
    Budget <- Faults
    EndlessTime = TRUE
    Prompt = {"nodes", "network", "daemons"}
INVARIANTS
    NeverStale
    QuietMeansAgreed
PROPERTIES
    ReadyIsKept
    DaemonKeepsRunning
    AlwaysReconnects
    RekeyEnds
CHECK_DEADLOCK FALSE
