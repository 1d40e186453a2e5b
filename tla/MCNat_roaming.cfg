SPECIFICATION RoamSpec
CONSTANTS
    h = h
    r = r
    c = c
    addrH = addrH
    addrR = addrR
    addrC = addrC
    addrN = addrN
    Node = {h, r, c}
    Addr = {addrH, addrR, addrC, addrN, Unspecified}
    Config <- ReadmeConfig
    HomeAddr <- NatHome
    Roaming = {h, r, c}
    None = None
    Absent = Absent
    Unspecified = Unspecified
    Ephemeral = {1, 2, 3, 4, 5, 6, 7}
    INIT_RETRY_INTERVAL = 1
    KEEPALIVE = 1
    REKEY_AFTER = 2
    REJECT_AFTER = 3
    REPLAY_WINDOW = 3
    RATE_WINDOW = 1
    COOKIE_INIT_RATE_LIMIT = 2
    MaxNonce = 0
    MaxInFlight = 3
    Budget <- Moves
    EndlessTime = FALSE
    Prompt = {"network"}
INVARIANTS
    EndpointsCoherent
CHECK_DEADLOCK FALSE
