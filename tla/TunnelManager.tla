---------------------------- MODULE TunnelManager ----------------------------
(***************************************************************************)
(* naboscale-tunnel's TunnelManager, one per node, and the UDP network     *)
(* between the nodes.                                                      *)
(*                                                                         *)
(* step() is split into its parts: one action per received datagram, one   *)
(* per due INIT, one per TUN packet and one per peer visited by            *)
(* maintenance().  The parts of one step() do not depend on each other     *)
(* except through the peer they touch, so any order the code can produce   *)
(* is an order of these actions.  The 500 ms throttle of maintenance() is  *)
(* below the model's unit of time and left out.                            *)
(*                                                                         *)
(* Instants are kept as ages: a `_at` field that the code sets to now()    *)
(* is 0 and grows with Tick until it passes the limit it is compared with; *)
(* a deadline counts down to 0.                                            *)
(*                                                                         *)
(* No COOKIE message exists: generate_cookie copies the four octets of the *)
(* source address into the six-byte tail of key_material with              *)
(* copy_from_slice, which panics on slices of different lengths, before    *)
(* anything is sent.  So cookie_required, sent_cookie and received_cookie  *)
(* keep their initial values and mac2 is never attached; the branches on   *)
(* them are dead and not modelled, the panic is (CheckInitCookie).         *)
(***************************************************************************)
EXTENDS Noise, Bags

CONSTANTS
    Addr,           \* socket addresses
    Unspecified,    \* 0.0.0.0:0, the placeholder of a peer behind a relay
    None,           \* Option::None
    Absent,         \* a peer the manager has not been given
    Config,         \* Config[n][p] : n's PeerConfig for p, None if skipped
    HomeAddr,       \* HomeAddr[n] : the source address of n's datagrams
    Roaming,        \* the nodes whose NAT may change that address
    INIT_RETRY_INTERVAL, KEEPALIVE, REKEY_AFTER, REJECT_AFTER,
    RATE_WINDOW,            \* the one-second window of check_init_cookie
    COOKIE_INIT_RATE_LIMIT,
    MaxNonce,       \* bound: messages encrypted under one key and side
    MaxInFlight,    \* bound: time passes only below this many datagrams
    Budget,         \* bounds: how often each environment event may happen
    EndlessTime,    \* TRUE: Tick is not bounded by Budget.ticks
    Prompt          \* which parties act within a time unit, see Tick

PeerConfig ==
    [is_initiator : BOOLEAN, endpoint : Addr, via_relay : Addr \cup {None}]

Budgets == [ticks : Nat, loss : Nat, dup : Nat, errors : Nat,
            stops : Nat, rebinds : Nat, data : Nat]

ASSUME ConfigAssumption ==
    /\ Unspecified \in Addr
    /\ Config \in [Node -> [Node -> PeerConfig \cup {None}]]
    /\ HomeAddr \in [Node -> Addr \ {Unspecified}]
    /\ Roaming \subseteq Node

ASSUME TimingAssumption ==
    /\ {INIT_RETRY_INTERVAL, KEEPALIVE, REKEY_AFTER, REJECT_AFTER,
        RATE_WINDOW, COOKIE_INIT_RATE_LIMIT, MaxNonce, MaxInFlight} \subseteq Nat
    /\ Budget \in Budgets
    /\ EndlessTime \in BOOLEAN
    /\ Prompt \subseteq {"nodes", "network", "daemons"}

(* ManagerTimings::default: 120 s against 180 s. *)
ASSUME RekeyBeforeReject == REKEY_AFTER <= REJECT_AFTER

VARIABLES
    up,                 \* the nodes whose daemon is running
    addr,               \* source address of each node's datagrams (its NAT's)
    peers,              \* peers[n][p] : n's PeerSession for p, or Absent
    endpoint_to_peer,   \* endpoint_to_peer[n][a] : a peer of n, or None
    learned_endpoints,  \* learned_endpoints[n][p] : an address, or None
    age,                \* age[e] : age of the timestamp in Initiator e
    net,                \* the bag of datagrams in flight
    left                \* what is left of Budget

vars == <<up, addr, peers, endpoint_to_peer, learned_endpoints, age, net, left>>
tables == <<endpoint_to_peer, learned_endpoints>>
world == <<up, addr, age>>

-----------------------------------------------------------------------------
(* PeerState and PeerSession *)

Rehandshake == [initiator : Ephemeral, next_retry_at : Nat]

InitState == [tag : {"Init"}]
InitiatorState == [tag : {"HandshakingAsInitiator"}, initiator : Ephemeral]
ResponderState == [tag : {"HandshakingAsResponder"}, spent : BOOLEAN]
ReadyState == [tag : {"Ready"}, transport : Transport,
               rehandshake : Rehandshake \cup {None}]
PeerState == InitState \cup InitiatorState \cup ResponderState \cup ReadyState

PeerSession ==
    [endpoint : Addr, state : PeerState, stale : BOOLEAN,
     next_init_at : Nat \cup {None}, last_rx_at : Nat \cup {None},
     last_tx_at : Nat \cup {None}, last_handshake_at : Nat \cup {None},
     init_rx_count : Nat, init_rx_window_start : Nat]

ASSUME NoneAssumption ==
    /\ None \notin Nat /\ None \notin Addr /\ None \notin Node
    /\ None \notin Rehandshake
    /\ Absent \notin PeerSession

(* A Responder that has answered an INIT is spent: snow refuses another. *)
FreshResponder == [tag |-> "HandshakingAsResponder", spent |-> FALSE]

Established(t) == [tag |-> "Ready", transport |-> t, rehandshake |-> None]

IsReady(s) == s.state.tag = "Ready"
IsRekeying(s) == IsReady(s) /\ s.state.rehandshake # None
IsInitiating(s) == s.state.tag = "HandshakingAsInitiator"
IsResponding(s) == s.state.tag = "HandshakingAsResponder"

Known(n) == {p \in Node : peers[n][p] # Absent}
Configured(n) == {p \in Node \ {n} : Config[n][p] # None}

(* The PeerSession of add_peer and TunnelManager::new. *)
NewSession(n, p, e) ==
    LET cfg == Config[n][p] IN
    [endpoint |-> cfg.endpoint,
     state |-> IF cfg.is_initiator
               THEN [tag |-> "HandshakingAsInitiator", initiator |-> e]
               ELSE FreshResponder,
     stale |-> FALSE,
     next_init_at |-> IF cfg.is_initiator THEN 0 ELSE None,
     last_rx_at |-> None, last_tx_at |-> None, last_handshake_at |-> None,
     init_rx_count |-> 0, init_rx_window_start |-> 0]

-----------------------------------------------------------------------------
(* Ephemerals in use, and the choice of an unused one *)

SessionEphemerals(s) ==
    CASE IsInitiating(s) -> {s.state.initiator}
      [] IsRekeying(s) -> {s.state.transport.key, s.state.rehandshake.initiator}
      [] IsReady(s) /\ ~IsRekeying(s) -> {s.state.transport.key}
      [] OTHER -> {}

Inner(m) == IF m.type = "RELAY" THEN m.inner ELSE m

InFlight == BagToSet(net)

LiveEphemerals ==
    (UNION {EphemeralsOf(Inner(d.msg)) : d \in InFlight})
    \cup (UNION {UNION {SessionEphemerals(peers[n][p]) : p \in Known(n)} : n \in Node})

Unused == Ephemeral \ LiveEphemerals
Fresh == CHOOSE e \in Unused : TRUE

-----------------------------------------------------------------------------
(* The network *)

Datagram == [src : Addr, dst : Addr, msg : Message \cup RelayMessage]

(* A datagram to an address nobody holds is gone at once. *)
Delivered(S) == SetToBag({d \in S : \E n \in Node : addr[n] = d.dst})

Consume(d) == net (-) SetToBag({d})

(* UdpTransport::send_to: it may fail while the budget of errors lasts. *)
SendOutcomes == IF left.errors > 0 THEN BOOLEAN ELSE {TRUE}
ChargeError(ok) == left' = IF ok THEN left ELSE [left EXCEPT !.errors = @ - 1]

(* send_maybe_relay: the datagram that carries m from n to its peer p. *)
SendMaybeRelay(n, p, endpoint, m) ==
    LET relay == Config[n][p].via_relay IN
    IF relay = None
    THEN [src |-> addr[n], dst |-> endpoint, msg |-> m]
    ELSE [src |-> addr[n], dst |-> relay,
          msg |-> [type |-> "RELAY", from |-> n, dest |-> p, inner |-> m]]

Install(n, p, s) == peers' = [peers EXCEPT ![n][p] = s]

Arrives(n, d) == n \in up /\ d \in InFlight /\ d.dst = addr[n]

-----------------------------------------------------------------------------
(* Sessions: what each handler does to the PeerSession it works on *)

(* check_init_cookie, up to the comparison with the limit: the INITs of
   the current window are counted, and a window that is over restarts; the
   mutant counts for ever. *)
CountInitForever(s) == [s EXCEPT !.init_rx_count = @ + 1]
CountInit(s) ==
    [s EXCEPT !.init_rx_count =
                  IF s.init_rx_window_start >= RATE_WINDOW THEN 1 ELSE @ + 1,
              !.init_rx_window_start =
                  IF @ >= RATE_WINDOW THEN 0 ELSE @]

OverLimit(s) == s.init_rx_count > COOKIE_INIT_RATE_LIMIT

(* handle_init and handle_init_via_relay once the RESPONSE is sent. *)
BecomeReady(s, t) ==
    [s EXCEPT !.state = Established(t), !.last_handshake_at = 0,
              !.last_rx_at = 0]

(* handle_init in Ready: the transport is swapped, a rekey of our own that
   is in flight stays, and this is the one place that clears `stale`.  The
   mutant forgets the swap. *)
AnswerWithoutSwap(s, t) == [s EXCEPT !.last_handshake_at = 0, !.stale = FALSE]
RekeyAsResponder(s, t) ==
    [s EXCEPT !.state.transport = t, !.last_handshake_at = 0, !.stale = FALSE]

(* handle_response: path A while a rekey is in flight, else path B, which
   replaces the state by Init before it looks at what the state was. *)
Initiated(m) == NewTransport(m.key, "initiator", m.from)

FirstResponse(s, m) ==
    IF IsInitiating(s) /\ ConsumesResponse(s.state.initiator, m)
    THEN [s EXCEPT !.state = Established(Initiated(m)), !.last_handshake_at = 0]
    ELSE [s EXCEPT !.state = [tag |-> "Init"]]

RekeyResponse(s, m) ==
    IF ConsumesResponse(s.state.rehandshake.initiator, m)
    THEN [s EXCEPT !.state = Established(Initiated(m)), !.last_handshake_at = 0]
    ELSE [s EXCEPT !.state.rehandshake = None]

HandleResponse(s, m) ==
    IF IsRekeying(s) THEN RekeyResponse(s, m) ELSE FirstResponse(s, m)

(* The TRANSPORT branch of handle_relay: the one that ignores `stale`. *)
HandleRelayedTransport(s, m) ==
    IF IsReady(s) /\ Decrypts(s.state.transport, m)
    THEN [s EXCEPT !.state.transport = AfterDecrypt(@)]
    ELSE s

HandleTransport(s, m) == IF s.stale THEN s ELSE HandleRelayedTransport(s, m)

-----------------------------------------------------------------------------
(* handle_incoming: a datagram that is not RELAY *)

(* The peer a datagram is attributed to: the owner of its source address
   or, for an INIT from an unknown one, the peer whose key its mac1 is
   computed with (identify_initiator_by_mac1). *)
Sender(n, src, m) ==
    IF endpoint_to_peer[n][src] # None
    THEN endpoint_to_peer[n][src]
    ELSE IF m.type = "INIT" /\ m.to \in Known(n) THEN m.to ELSE None

(* The session after the endpoint refresh, and the index after it.  One
   mutant does not count the datagram as traffic, the other leaves the
   address that the peer had in the index. *)
HeardUncounted(n, p, src) == [peers[n][p] EXCEPT !.endpoint = src]
Heard(n, p, src) == [peers[n][p] EXCEPT !.endpoint = src, !.last_rx_at = 0]
RehomeKeepsOld(n, p, src) ==
    endpoint_to_peer' = [endpoint_to_peer EXCEPT ![n][src] = p]
Rehome(n, p, src) ==
    endpoint_to_peer' =
        IF peers[n][p].endpoint = src
        THEN endpoint_to_peer
        ELSE [endpoint_to_peer EXCEPT ![n] =
                [@ EXCEPT ![peers[n][p].endpoint] = None, ![src] = p]]

(* The daemon of n is gone, and every session with it. *)
Down(n) ==
    /\ up' = up \ {n}
    /\ peers' = [peers EXCEPT ![n] = [p \in Node |-> Absent]]
    /\ endpoint_to_peer' = [endpoint_to_peer EXCEPT ![n] = [a \in Addr |-> None]]
    /\ learned_endpoints' =
           [learned_endpoints EXCEPT ![n] = [p \in Node |-> None]]

(* handle_init and handle_init_via_relay on session s of n with p: the
   second answers only an untouched Responder and wraps its RESPONSE.  A
   RESPONSE that cannot be sent leaves a Ready session alone and a Responder
   spent; a spent one, like an INIT that does not decrypt or is too old,
   only makes the manager build a new Responder. *)
AnswerInit(n, p, s, d, m, relayed) ==
    LET answers == IsResponding(s) \/ (IsReady(s) /\ ~relayed)
        accepts == /\ ConsumesInit(n, m, age[m.eph])
                   /\ IsResponding(s) => ~s.state.spent
        t == NewTransport(Fresh, "responder", m.from)
        response == WriteResponse(n, m, Fresh)
        reply == [src |-> addr[n], dst |-> d.src,
                  msg |-> IF relayed
                          THEN [type |-> "RELAY", from |-> n, dest |-> p,
                                inner |-> response]
                          ELSE response]
    IN
    \/ /\ answers /\ accepts /\ Unused # {}
       /\ \E ok \in SendOutcomes :
            /\ net' = Consume(d) (+)
                      (IF ok THEN Delivered({reply}) ELSE EmptyBag)
            /\ ChargeError(ok)
            /\ Install(n, p,
                 CASE IsReady(s) /\ ok -> RekeyAsResponder(s, t)
                   [] IsReady(s) /\ ~ok -> s
                   [] ~IsReady(s) /\ ok -> BecomeReady(s, t)
                   [] OTHER -> [s EXCEPT !.state.spent = TRUE])
    \/ /\ ~(answers /\ accepts)
       /\ net' = Consume(d)
       /\ Install(n, p, IF IsResponding(s)
                        THEN [s EXCEPT !.state = FreshResponder] ELSE s)
       /\ UNCHANGED left

(* An INIT: counted against the rate limit first.  Over it the answer would
   be a COOKIE, and generate_cookie panics. *)
ReceiveInit(n, d) ==
    /\ Arrives(n, d) /\ d.msg.type = "INIT"
    /\ LET p == Sender(n, d.src, d.msg) IN
       /\ p # None
       /\ LET s == CountInit(Heard(n, p, d.src)) IN
          \/ /\ OverLimit(s)
             /\ Down(n)
             /\ net' = Consume(d)
             /\ UNCHANGED <<addr, age, left>>
          \/ /\ ~OverLimit(s)
             /\ Rehome(n, p, d.src)
             /\ AnswerInit(n, p, s, d, d.msg, FALSE)
             /\ UNCHANGED <<world, learned_endpoints>>

ReceiveResponse(n, d) ==
    /\ Arrives(n, d) /\ d.msg.type = "RESPONSE"
    /\ LET p == Sender(n, d.src, d.msg) IN
       /\ p # None
       /\ Rehome(n, p, d.src)
       /\ Install(n, p, HandleResponse(Heard(n, p, d.src), d.msg))
    /\ net' = Consume(d)
    /\ UNCHANGED <<world, learned_endpoints, left>>

ReceiveTransport(n, d) ==
    /\ Arrives(n, d) /\ d.msg.type = "TRANSPORT"
    /\ LET p == Sender(n, d.src, d.msg) IN
       /\ p # None
       /\ Rehome(n, p, d.src)
       /\ Install(n, p, HandleTransport(Heard(n, p, d.src), d.msg))
    /\ net' = Consume(d)
    /\ UNCHANGED <<world, learned_endpoints, left>>

IgnoreUnknownSource(n, d) ==
    /\ Arrives(n, d) /\ d.msg.type # "RELAY"
    /\ Sender(n, d.src, d.msg) = None
    /\ net' = Consume(d)
    /\ UNCHANGED <<world, peers, tables, left>>

-----------------------------------------------------------------------------
(* handle_incoming and handle_relay: a RELAY datagram *)

(* A RELAY from a known peer, whatever address it comes from: an address
   no peer is configured with is learnt as the sender's. *)
ArrivesRelayed(n, d) ==
    Arrives(n, d) /\ d.msg.type = "RELAY" /\ d.msg.from \in Known(n)

HeardRelayed(n, p) == [peers[n][p] EXCEPT !.last_rx_at = 0]

(* The session of a RELAY for us is the one of the key in its header; the
   mutant takes the owner of the address it came from. *)
SourceOwner(n, d) ==
    IF endpoint_to_peer[n][d.src] # None THEN endpoint_to_peer[n][d.src] ELSE d.msg.from
OriginalSender(n, d) == d.msg.from

LearnAlways(n, d) ==   \* mutant
    learned_endpoints' = [learned_endpoints EXCEPT ![n][d.msg.from] = d.src]
Learn(n, d) ==
    learned_endpoints' =
        IF endpoint_to_peer[n][d.src] = None
        THEN [learned_endpoints EXCEPT ![n][d.msg.from] = d.src]
        ELSE learned_endpoints

ReceiveRelayedInit(n, d) ==
    /\ ArrivesRelayed(n, d) /\ d.msg.dest = n /\ d.msg.inner.type = "INIT"
    /\ Learn(n, d)
    /\ LET p == OriginalSender(n, d) IN
       AnswerInit(n, p, HeardRelayed(n, p), d, d.msg.inner, TRUE)
    /\ UNCHANGED <<world, endpoint_to_peer>>

ReceiveRelayedResponse(n, d) ==
    /\ ArrivesRelayed(n, d) /\ d.msg.dest = n /\ d.msg.inner.type = "RESPONSE"
    /\ Learn(n, d)
    /\ LET p == OriginalSender(n, d) IN
       Install(n, p, HandleResponse(HeardRelayed(n, p), d.msg.inner))
    /\ net' = Consume(d)
    /\ UNCHANGED <<world, endpoint_to_peer, left>>

ReceiveRelayedTransport(n, d) ==
    /\ ArrivesRelayed(n, d) /\ d.msg.dest = n /\ d.msg.inner.type = "TRANSPORT"
    /\ Learn(n, d)
    /\ LET p == OriginalSender(n, d) IN
       Install(n, p, HandleRelayedTransport(HeardRelayed(n, p), d.msg.inner))
    /\ net' = Consume(d)
    /\ UNCHANGED <<world, endpoint_to_peer, left>>

(* The address a relay forwards to: the learnt one before the configured. *)
ConfiguredAddress(n, p) == peers[n][p].endpoint   \* mutant
ForwardAddress(n, p) ==
    IF learned_endpoints'[n][p] # None
    THEN learned_endpoints'[n][p] ELSE peers[n][p].endpoint

(* Somebody else's RELAY: forwarded verbatim, unless its destination is not
   a peer, which is an error of step() that changes nothing more. *)
ForwardRelay(n, d) ==
    /\ ArrivesRelayed(n, d) /\ d.msg.dest # n
    /\ Learn(n, d)
    /\ Install(n, d.msg.from, HeardRelayed(n, d.msg.from))
    /\ \/ /\ d.msg.dest \in Known(n)
          /\ \E ok \in SendOutcomes :
               /\ net' = Consume(d) (+)
                    (IF ok
                     THEN Delivered({[src |-> addr[n], msg |-> d.msg,
                                      dst |-> ForwardAddress(n, d.msg.dest)]})
                     ELSE EmptyBag)
               /\ ChargeError(ok)
       \/ /\ d.msg.dest \notin Known(n)
          /\ net' = Consume(d)
          /\ UNCHANGED left
    /\ UNCHANGED <<world, endpoint_to_peer>>

DropStrangersRelay(n, d) ==
    /\ Arrives(n, d) /\ d.msg.type = "RELAY" /\ d.msg.from \notin Known(n)
    /\ net' = Consume(d)
    /\ UNCHANGED <<world, peers, tables, left>>

Receive(n, d) ==
    \/ ReceiveInit(n, d)
    \/ ReceiveResponse(n, d)
    \/ ReceiveTransport(n, d)
    \/ IgnoreUnknownSource(n, d)
    \/ ReceiveRelayedInit(n, d)
    \/ ReceiveRelayedResponse(n, d)
    \/ ReceiveRelayedTransport(n, d)
    \/ ForwardRelay(n, d)
    \/ DropStrangersRelay(n, d)

-----------------------------------------------------------------------------
(* The daemon: start, stop, peers from the coordinator *)

(* With "network" in Prompt a restart and a change of the NAT mapping take
   longer than a datagram is in flight, on every hop if it is relayed. *)
Undisturbed(n) ==
    "network" \in Prompt =>
        \A d \in InFlight :
            /\ addr[n] \notin {d.src, d.dst}
            /\ d.msg.type = "RELAY" => n \notin {d.msg.from, d.msg.dest}

Start(n) ==
    /\ n \notin up
    /\ Undisturbed(n)
    /\ up' = up \cup {n}
    /\ UNCHANGED <<addr, age, peers, tables, net, left>>

Stop(n) ==
    /\ n \in up /\ left.stops > 0
    /\ Down(n)
    /\ left' = [left EXCEPT !.stops = @ - 1]
    /\ UNCHANGED <<addr, age, net>>

(* TunnelManager::new adds the peers the coordinator lists at start, and
   add_peer those that discovery finds later, in the same way; the last
   peer added with an endpoint owns it. *)
AddPeer(n, p) ==
    /\ n \in up /\ p # n /\ p \notin Known(n) /\ Config[n][p] # None
    /\ Config[n][p].is_initiator => Unused # {}
    /\ Install(n, p, NewSession(n, p, Fresh))
    /\ age' = IF Config[n][p].is_initiator THEN [age EXCEPT ![Fresh] = 0] ELSE age
    /\ endpoint_to_peer' =
           [endpoint_to_peer EXCEPT ![n][Config[n][p].endpoint] = p]
    /\ UNCHANGED <<up, addr, learned_endpoints, net, left>>

-----------------------------------------------------------------------------
(* step: the due INITs and the TUN device *)

InitDue(s) == s.next_init_at = 0
InitDone(s) == [s EXCEPT !.next_init_at = None]
InitSent(s) == [s EXCEPT !.next_init_at = INIT_RETRY_INTERVAL]

(* The INIT is written once and its bytes are sent again every time. *)
SendInit(n, p) ==
    /\ n \in up /\ p \in Known(n)
    /\ LET s == peers[n][p] IN
       /\ InitDue(s) /\ IsInitiating(s)
       /\ \E ok \in SendOutcomes :
            /\ Install(n, p, IF ok THEN InitSent(s) ELSE s)
            /\ net' = net (+)
                 (IF ok
                  THEN Delivered({SendMaybeRelay(n, p, s.endpoint,
                                    WriteInit(n, p, s.state.initiator))})
                  ELSE EmptyBag)
            /\ ChargeError(ok)
    /\ UNCHANGED <<world, tables>>

ClearInitTimer(n, p) ==
    /\ n \in up /\ p \in Known(n)
    /\ InitDue(peers[n][p]) /\ ~IsInitiating(peers[n][p])
    /\ Install(n, p, InitDone(peers[n][p]))
    /\ UNCHANGED <<world, tables, net, left>>

(* dispatch_tun_packet for a packet to p's mesh IP.  The nonce is spent
   even when the datagram cannot be sent. *)
DispatchTunPacket(n, p) ==
    /\ n \in up /\ p \in Known(n) /\ left.data > 0
    /\ LET s == peers[n][p] IN
       /\ IsReady(s) /\ s.state.transport.send < MaxNonce
       /\ \E ok \in SendOutcomes :
            /\ Install(n, p,
                 [s EXCEPT !.state.transport = AfterEncrypt(@),
                           !.last_tx_at = IF ok THEN 0 ELSE @])
            /\ net' = net (+)
                 (IF ok
                  THEN Delivered({SendMaybeRelay(n, p, s.endpoint,
                                    Encrypt(s.state.transport))})
                  ELSE EmptyBag)
            /\ left' = [left EXCEPT !.data = @ - 1,
                                    !.errors = IF ok THEN @ ELSE @ - 1]
    /\ UNCHANGED <<world, tables>>

-----------------------------------------------------------------------------
(* maintenance, for one peer *)

Passed(t, limit) == t # None /\ t > limit

SilentTooLong(s) == Passed(s.last_rx_at, REJECT_AFTER)

KeepaliveDue(s) ==
    /\ s.last_tx_at = None \/ Passed(s.last_tx_at, KEEPALIVE)
    /\ s.state.transport.send < MaxNonce

RekeyDue(n, p, s) ==
    /\ Config[n][p].is_initiator
    /\ Passed(s.last_handshake_at, REKEY_AFTER)
    /\ s.endpoint # Unspecified

NeverRetried(s) == FALSE   \* mutant
RetryDue(s) == s.state.rehandshake.next_retry_at = 0

Maintained(n, p) == n \in up /\ p \in Known(n) /\ ~peers[n][p].stale /\ IsReady(peers[n][p])

RetryRekey(n, p) ==
    /\ Maintained(n, p)
    /\ LET s == peers[n][p] IN
       /\ IsRekeying(s) /\ RetryDue(s)
       /\ \E ok \in SendOutcomes :
            /\ Install(n, p,
                 IF ok THEN [s EXCEPT !.state.rehandshake.next_retry_at =
                                          INIT_RETRY_INTERVAL]
                       ELSE s)
            /\ net' = net (+)
                 (IF ok
                  THEN Delivered({SendMaybeRelay(n, p, s.endpoint,
                                    WriteInit(n, p, s.state.rehandshake.initiator))})
                  ELSE EmptyBag)
            /\ ChargeError(ok)
    /\ UNCHANGED <<world, tables>>

MarkStale(n, p) ==
    /\ Maintained(n, p)
    /\ ~IsRekeying(peers[n][p]) /\ SilentTooLong(peers[n][p])
    /\ Install(n, p, [peers[n][p] EXCEPT !.stale = TRUE])
    /\ UNCHANGED <<world, tables, net, left>>

(* SendKeepalive and StartRekey may both be decided in one pass; they run
   in this order and a failed send ends the pass.  sent counts the sends
   that succeed.  The keepalive's nonce is spent before its send. *)
KeepaliveOrRekey(n, p) ==
    /\ Maintained(n, p)
    /\ LET s == peers[n][p]
           keepalive == KeepaliveDue(s)
           rekey == RekeyDue(n, p, s)
           probe == IF keepalive
                    THEN {SendMaybeRelay(n, p, s.endpoint, Encrypt(s.state.transport))}
                    ELSE {}
           init == IF rekey
                   THEN {SendMaybeRelay(n, p, s.endpoint, WriteInit(n, p, Fresh))}
                   ELSE {}
       IN
       /\ ~IsRekeying(s) /\ ~SilentTooLong(s) /\ (keepalive \/ rekey)
       /\ rekey => Unused # {}
       /\ \E probed, started \in BOOLEAN :
            /\ started => (rekey /\ (keepalive => probed))
            /\ probed => keepalive
            /\ LET ok == (keepalive => probed) /\ (rekey => started) IN
               /\ ok \in SendOutcomes
               /\ ChargeError(ok)
            /\ net' = net (+) Delivered((IF probed THEN probe ELSE {})
                                        \cup (IF started THEN init ELSE {}))
            /\ Install(n, p,
                 [s EXCEPT !.last_tx_at = IF probed THEN 0 ELSE @,
                           !.state =
                     [tag |-> "Ready",
                      transport |-> IF keepalive THEN AfterEncrypt(s.state.transport)
                                                 ELSE s.state.transport,
                      rehandshake |->
                          IF started
                          THEN [initiator |-> Fresh,
                                next_retry_at |-> INIT_RETRY_INTERVAL]
                          ELSE None]])
            /\ age' = IF started THEN [age EXCEPT ![Fresh] = 0] ELSE age
    /\ UNCHANGED <<up, addr, tables>>

Maintenance(n, p) ==
    \/ RetryRekey(n, p)
    \/ MarkStale(n, p)
    \/ KeepaliveOrRekey(n, p)

MaintenanceDue(n, p) ==
    /\ Maintained(n, p)
    /\ LET s == peers[n][p] IN
       IF IsRekeying(s) THEN RetryDue(s)
       ELSE SilentTooLong(s) \/ KeepaliveDue(s) \/ RekeyDue(n, p, s)

-----------------------------------------------------------------------------
(* Time *)

Older(t, limit) == IF t = None \/ t > limit THEN t ELSE t + 1
SoonerUnfloored(t) == IF t = None THEN t ELSE t - 1   \* mutant
Sooner(t) == IF t = None \/ t = 0 THEN t ELSE t - 1

AgedState(s) ==
    IF IsRekeying(s)
    THEN [s.state EXCEPT !.rehandshake.next_retry_at = Sooner(@)]
    ELSE s.state

Aged(s) ==
    [s EXCEPT !.next_init_at = Sooner(@),
              !.last_rx_at = Older(@, REJECT_AFTER),
              !.last_tx_at = Older(@, KEEPALIVE),
              !.last_handshake_at = Older(@, REKEY_AFTER),
              !.init_rx_window_start = IF @ < RATE_WINDOW THEN @ + 1 ELSE @,
              !.state = AgedState(s)]

(* The ephemerals whose age still matters; the others are kept at 0. *)
Timestamped ==
    {Inner(d.msg).eph : d \in {f \in InFlight : Inner(f.msg).type = "INIT"}}
    \cup {e \in Ephemeral : \E n \in Node : \E p \in Known(n) :
             LET s == peers[n][p] IN
             \/ IsInitiating(s) /\ s.state.initiator = e
             \/ IsRekeying(s) /\ s.state.rehandshake.initiator = e}

TimerDue(n, p) ==
    n \in up /\ p \in Known(n) /\ (InitDue(peers[n][p]) \/ MaintenanceDue(n, p))

(* With "nodes" in Prompt no time unit passes while a running node has a
   timer to serve (its loop is not blocked); with "network" in Prompt none
   passes while a datagram is in flight (the latency is below one unit); with
   "daemons" in Prompt none passes while a daemon is down or unaware of a
   peer. *)
Tick ==
    /\ EndlessTime \/ left.ticks > 0
    /\ BagCardinality(net) < MaxInFlight
    /\ "nodes" \in Prompt => \A n, p \in Node : ~TimerDue(n, p)
    /\ "network" \in Prompt => InFlight = {}
    /\ "daemons" \in Prompt => \A n \in Node : Known(n) = Configured(n)
    /\ peers' = [n \in Node |-> [p \in Node |->
                   IF p \in Known(n) THEN Aged(peers[n][p]) ELSE Absent]]
    /\ age' = [e \in Ephemeral |->
                 IF e \in Timestamped THEN Older(age[e], REPLAY_WINDOW) ELSE 0]
    /\ left' = IF EndlessTime THEN left ELSE [left EXCEPT !.ticks = @ - 1]
    /\ UNCHANGED <<up, addr, tables, net>>

-----------------------------------------------------------------------------
(* The network's own steps *)

Lose(d) ==
    /\ d \in InFlight /\ left.loss > 0
    /\ net' = Consume(d)
    /\ left' = [left EXCEPT !.loss = @ - 1]
    /\ UNCHANGED <<world, peers, tables>>

Duplicate(d) ==
    /\ d \in InFlight /\ left.dup > 0
    /\ net' = net (+) SetToBag({d})
    /\ left' = [left EXCEPT !.dup = @ - 1]
    /\ UNCHANGED <<world, peers, tables>>

(* Nobody listens at the destination. *)
Vanish(d) ==
    /\ d \in InFlight /\ \A n \in up : addr[n] # d.dst
    /\ net' = Consume(d)
    /\ UNCHANGED <<world, peers, tables, left>>

(* The NAT in front of n maps its socket to another address. *)
Rebind(n, a) ==
    /\ n \in Roaming /\ left.rebinds > 0 /\ Undisturbed(n)
    /\ a # Unspecified /\ \A q \in Node : addr[q] # a
    /\ addr' = [addr EXCEPT ![n] = a]
    /\ left' = [left EXCEPT !.rebinds = @ - 1]
    /\ UNCHANGED <<up, age, peers, tables, net>>

-----------------------------------------------------------------------------

Init ==
    /\ up = {}
    /\ addr = HomeAddr
    /\ peers = [n \in Node |-> [p \in Node |-> Absent]]
    /\ endpoint_to_peer = [n \in Node |-> [a \in Addr |-> None]]
    /\ learned_endpoints = [n \in Node |-> [p \in Node |-> None]]
    /\ age = [e \in Ephemeral |-> 0]
    /\ net = EmptyBag
    /\ left = Budget

PeerStep(n, p) ==
    \/ AddPeer(n, p)
    \/ SendInit(n, p)
    \/ ClearInitTimer(n, p)
    \/ DispatchTunPacket(n, p)
    \/ Maintenance(n, p)

Next ==
    \/ \E n \in Node : Start(n) \/ Stop(n)
    \/ \E n, p \in Node : PeerStep(n, p)
    \/ \E n \in Node, d \in InFlight : Receive(n, d)
    \/ \E d \in InFlight : Lose(d) \/ Duplicate(d) \/ Vanish(d)
    \/ \E n \in Node, a \in Addr : Rebind(n, a)
    \/ Tick

Spec == Init /\ [][Next]_vars

(* Daemons get started, learn every peer from discovery and run their loop;
   the network delivers what it does not lose, from every address; time
   passes.  Losses, stops and TUN traffic are never required. *)
Fairness ==
    /\ WF_vars(Tick)
    /\ \A n \in Node : WF_vars(Start(n))
    /\ \A n, p \in Node : WF_vars(AddPeer(n, p))
    /\ \A n, p \in Node : WF_vars(SendInit(n, p))
    /\ \A n, p \in Node : WF_vars(ClearInitTimer(n, p))
    /\ \A n, p \in Node : WF_vars(Maintenance(n, p))
    /\ \A n \in Node, a \in Addr :
           WF_vars(\E d \in InFlight : d.src = a /\ Receive(n, d))
    /\ WF_vars(\E d \in InFlight : Vanish(d))

FairSpec == Spec /\ Fairness

-----------------------------------------------------------------------------

(* Every variable holds values of its type; the peer table, the two address
   tables and the network of TunnelManager in particular. *)
TypeOK ==
    /\ up \subseteq Node
    /\ addr \in [Node -> Addr]
    /\ peers \in [Node -> [Node -> PeerSession \cup {Absent}]]
    /\ endpoint_to_peer \in [Node -> [Addr -> Node \cup {None}]]
    /\ learned_endpoints \in [Node -> [Node -> Addr \cup {None}]]
    /\ age \in [Ephemeral -> Nat]
    /\ IsABag(net) /\ InFlight \subseteq Datagram
    /\ left \in Budgets
=============================================================================
