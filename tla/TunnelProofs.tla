---------------------------- MODULE TunnelProofs ----------------------------
(***************************************************************************)
(* Invariants of TunnelManager for every set of nodes, configuration,      *)
(* timing and budget.                                                      *)
(*                                                                         *)
(* The inductive invariant IInv has two parts: TablesOK, about the peer    *)
(* table and the address index, and WorldOK, the types of the rest.        *)
(* SilenceMeansOldKey is not inductive: it says nothing of a peer that is  *)
(* not silent yet.  HeardSinceHandshake strengthens it to an order between *)
(* two ages.  A session that meets it is called legal; the first section   *)
(* shows that every handler makes legal sessions out of legal ones, the    *)
(* second that putting a legal session into the peer table keeps TablesOK  *)
(* if the index follows its endpoint, and the rest is one lemma per action *)
(* of Next.                                                                *)
(***************************************************************************)
EXTENDS TunnelProperties, Integers, TLAPS

(* Bags: taking a set out of a bag leaves a bag of what was in it. *)
LEMMA BagDifference ==
    ASSUME NEW B, IsABag(B), NEW S
    PROVE  /\ IsABag(B (-) SetToBag(S))
           /\ BagToSet(B (-) SetToBag(S)) \subseteq BagToSet(B)
<1> DEFINE D == B (-) SetToBag(S)
           f == [e \in DOMAIN B |-> IF e \in DOMAIN SetToBag(S)
                                    THEN B[e] - SetToBag(S)[e] ELSE B[e]]
<1>1. D = [e \in {d \in DOMAIN f : f[d] > 0} |-> f[e]]
  BY DEF (-)
<1>2. \A e \in DOMAIN B : B[e] \in Nat /\ f[e] \in Int
  BY DEF IsABag, SetToBag
<1>3. D \in [DOMAIN D -> {k \in Nat : k > 0}]
  BY <1>1, <1>2
<1> QED
  BY <1>1, <1>3 DEF IsABag, BagToSet

(* Bags: the sum of two bags holds what either holds. *)
LEMMA BagSum ==
    ASSUME NEW B, NEW C, IsABag(B), IsABag(C)
    PROVE  /\ IsABag(B (+) C)
           /\ BagToSet(B (+) C) = BagToSet(B) \cup BagToSet(C)
  BY DEF IsABag, BagToSet, (+)

(* Bags: a set as a bag. *)
LEMMA BagOfSet ==
    ASSUME NEW S
    PROVE  IsABag(SetToBag(S)) /\ BagToSet(SetToBag(S)) = S
  BY DEF IsABag, BagToSet, SetToBag

(* Bags: the empty bag. *)
LEMMA BagEmpty == IsABag(EmptyBag) /\ BagToSet(EmptyBag) = {}
  BY BagOfSet DEF EmptyBag

-----------------------------------------------------------------------------

(* Every handshake is also heard: a Ready session has heard its peer no
   longer ago than its key is old, as far as ages are told apart. *)
HeardSinceHandshake(s) ==
    IsReady(s) =>
        /\ s.last_rx_at \in Nat /\ s.last_handshake_at \in Nat
        /\ \/ s.last_rx_at <= s.last_handshake_at
           \/ s.last_handshake_at > REKEY_AFTER

(* A session of its type that meets it. *)
Legal(s) == s \in PeerSession /\ HeardSinceHandshake(s)

(* One that a datagram has just been counted on. *)
LegalHeard(s) == Legal(s) /\ s.last_rx_at = 0

(* The tag of a state says which kind of PeerState it is. *)
LEMMA ReadyStates ==
    ASSUME NEW s \in PeerSession
    PROVE  /\ IsReady(s) => s.state \in ReadyState
           /\ IsRekeying(s) => s.state.rehandshake \in Rehandshake
           /\ IsInitiating(s) => s.state \in InitiatorState
           /\ IsResponding(s) => s.state \in ResponderState
  BY DEF PeerSession, PeerState, ReadyState, InitState, InitiatorState,
         ResponderState, IsReady, IsRekeying, IsInitiating, IsResponding

(* check_init_cookie touches nothing but its counters. *)
LEMMA CountInitLegal ==
    ASSUME NEW s, LegalHeard(s)
    PROVE  /\ LegalHeard(CountInit(s))
           /\ CountInit(s).endpoint = s.endpoint
           /\ CountInit(s).state = s.state
<1> DEFINE c == CountInit(s)
           count == IF s.init_rx_window_start >= RATE_WINDOW
                    THEN 1 ELSE s.init_rx_count + 1
           start == IF s.init_rx_window_start >= RATE_WINDOW
                    THEN 0 ELSE s.init_rx_window_start
<1>1. s \in PeerSession
  BY DEF LegalHeard, Legal
<1>2. count \in Nat /\ start \in Nat
  BY <1>1 DEF PeerSession
<1>3. c = [s EXCEPT !.init_rx_count = count, !.init_rx_window_start = start]
  BY DEF CountInit
<1> HIDE DEF c, count, start
<1>4. /\ c \in PeerSession
      /\ c.state = s.state /\ c.endpoint = s.endpoint
      /\ c.last_rx_at = s.last_rx_at
      /\ c.last_handshake_at = s.last_handshake_at
  BY <1>1, <1>2, <1>3 DEF PeerSession
<1> QED
  BY <1>4 DEF c, LegalHeard, Legal, HeardSinceHandshake, IsReady

(* A first handshake that this node answered. *)
LEMMA BecomeReadyLegal ==
    ASSUME NEW s \in PeerSession, NEW t \in Transport
    PROVE  Legal(BecomeReady(s, t)) /\ BecomeReady(s, t).endpoint = s.endpoint
<1> DEFINE r == BecomeReady(s, t)
           ready == Established(t)
<1>1. ready \in PeerState
  BY DEF Established, PeerState, ReadyState
<1>2. r = [s EXCEPT !.state = ready, !.last_handshake_at = 0, !.last_rx_at = 0]
  BY DEF BecomeReady
<1> HIDE DEF ready, r
<1>3. /\ r \in PeerSession /\ r.endpoint = s.endpoint
      /\ r.last_handshake_at = 0 /\ r.last_rx_at = 0
  BY <1>1, <1>2 DEF PeerSession
<1> QED
  BY <1>3 DEF r, Legal, HeardSinceHandshake

(* A rekey that this node answered. *)
LEMMA RekeyAsResponderLegal ==
    ASSUME NEW s, LegalHeard(s), IsReady(s), NEW t \in Transport
    PROVE  Legal(RekeyAsResponder(s, t)) /\ RekeyAsResponder(s, t).endpoint = s.endpoint
<1> DEFINE r == RekeyAsResponder(s, t)
           ready == [s.state EXCEPT !.transport = t]
<1>1. s \in PeerSession /\ s.state \in ReadyState
  BY ReadyStates DEF LegalHeard, Legal
<1>2. ready \in PeerState
  BY <1>1 DEF PeerState, ReadyState
<1>3. r = [s EXCEPT !.state = ready, !.last_handshake_at = 0, !.stale = FALSE]
  BY DEF RekeyAsResponder
<1> HIDE DEF ready, r
<1>4. /\ r \in PeerSession /\ r.endpoint = s.endpoint
      /\ r.last_handshake_at = 0 /\ r.last_rx_at = s.last_rx_at
  BY <1>1, <1>2, <1>3 DEF PeerSession
<1> QED
  BY <1>4 DEF r, LegalHeard, Legal, HeardSinceHandshake

(* The transport that a RESPONSE yields. *)
LEMMA InitiatedTyped ==
    ASSUME NEW m \in ResponseMessage
    PROVE  Initiated(m) \in Transport
  BY DEF Initiated, NewTransport, ResponseMessage, Transport, Side

(* The session once a handshake that it had started is over: answered. *)
LEMMA EstablishedLegal ==
    ASSUME NEW s, LegalHeard(s), NEW t \in Transport
    PROVE  LET r == [s EXCEPT !.state = Established(t), !.last_handshake_at = 0]
           IN  Legal(r) /\ r.endpoint = s.endpoint
<1> DEFINE ready == Established(t)
           r == [s EXCEPT !.state = ready, !.last_handshake_at = 0]
<1>1. ready \in PeerState
  BY DEF Established, PeerState, ReadyState
<1>2. s \in PeerSession
  BY DEF LegalHeard, Legal
<1> HIDE DEF ready
<1>3. /\ r \in PeerSession /\ r.endpoint = s.endpoint
      /\ r.last_handshake_at = 0 /\ r.last_rx_at = s.last_rx_at
  BY <1>1, <1>2 DEF PeerSession
<1>4. Legal(r)
  BY <1>3 DEF LegalHeard, Legal, HeardSinceHandshake
<1> QED
  BY <1>3, <1>4 DEF ready

(* handle_response, whatever the state and the message. *)
LEMMA HandleResponseLegal ==
    ASSUME NEW s, LegalHeard(s), NEW m \in ResponseMessage
    PROVE  /\ Legal(HandleResponse(s, m))
           /\ HandleResponse(s, m).endpoint = s.endpoint
<1> DEFINE r == HandleResponse(s, m)
           init == [s EXCEPT !.state = [tag |-> "Init"]]
           aborted == [s EXCEPT !.state.rehandshake = None]
<1>1. s \in PeerSession
  BY DEF LegalHeard, Legal
<1>2. Legal(init) /\ init.endpoint = s.endpoint
  <2>1. [tag |-> "Init"] \in PeerState
    BY DEF PeerState, InitState
  <2>2. /\ init \in PeerSession /\ init.endpoint = s.endpoint
        /\ init.state = [tag |-> "Init"]
    BY <1>1, <2>1 DEF PeerSession
  <2>3. ~IsReady(init)
    BY <2>2 DEF IsReady
  <2> QED
    BY <2>2, <2>3 DEF Legal, HeardSinceHandshake
<1>3. ASSUME IsRekeying(s)
      PROVE  Legal(aborted) /\ aborted.endpoint = s.endpoint
  <2> DEFINE ready == [s.state EXCEPT !.rehandshake = None]
  <2>1. IsReady(s) /\ s.state \in ReadyState
    BY <1>1, <1>3, ReadyStates DEF IsRekeying
  <2>2. ready \in PeerState
    BY <2>1 DEF PeerState, ReadyState
  <2>3. aborted = [s EXCEPT !.state = ready]
    OBVIOUS
  <2> HIDE DEF ready
  <2>4. /\ aborted \in PeerSession /\ aborted.endpoint = s.endpoint
        /\ aborted.last_handshake_at = s.last_handshake_at
        /\ aborted.last_rx_at = s.last_rx_at
    BY <1>1, <2>2, <2>3 DEF PeerSession
  <2> QED
    BY <2>1, <2>4 DEF LegalHeard, Legal, HeardSinceHandshake
<1> DEFINE done == [s EXCEPT !.state = Established(Initiated(m)), !.last_handshake_at = 0]
<1>4. Legal(done) /\ done.endpoint = s.endpoint
  BY InitiatedTyped, EstablishedLegal
<1>5. r \in {done, init} \/ (IsRekeying(s) /\ r \in {done, aborted})
  BY DEF HandleResponse, FirstResponse, RekeyResponse
<1> QED
  BY <1>2, <1>3, <1>4, <1>5

(* A TRANSPORT that came through a relay. *)
LEMMA HandleRelayedTransportLegal ==
    ASSUME NEW s, LegalHeard(s), NEW m
    PROVE  /\ Legal(HandleRelayedTransport(s, m))
           /\ HandleRelayedTransport(s, m).endpoint = s.endpoint
<1> DEFINE t == AfterDecrypt(s.state.transport)
           ready == [s.state EXCEPT !.transport = t]
           r == [s EXCEPT !.state = ready]
<1>1. s \in PeerSession
  BY DEF LegalHeard, Legal
<1>2. ASSUME IsReady(s)
      PROVE  Legal(r) /\ r.endpoint = s.endpoint
  <2>1. s.state \in ReadyState
    BY <1>1, <1>2, ReadyStates
  <2>2. t \in Transport
    BY <2>1 DEF ReadyState, Transport, AfterDecrypt
  <2>3. ready \in PeerState
    <3> HIDE DEF t
    <3> QED BY <2>1, <2>2 DEF PeerState, ReadyState
  <2> HIDE DEF ready
  <2>4. /\ r \in PeerSession /\ r.endpoint = s.endpoint
        /\ r.last_handshake_at = s.last_handshake_at
        /\ r.last_rx_at = s.last_rx_at
    BY <1>1, <2>3 DEF PeerSession
  <2> QED
    BY <1>2, <2>4 DEF LegalHeard, Legal, HeardSinceHandshake
<1>3. HandleRelayedTransport(s, m) = s \/ (IsReady(s) /\ HandleRelayedTransport(s, m) = r)
  BY DEF HandleRelayedTransport
<1> QED
  BY <1>2, <1>3 DEF LegalHeard

(* A TRANSPORT that came directly. *)
LEMMA HandleTransportLegal ==
    ASSUME NEW s, LegalHeard(s), NEW m
    PROVE  /\ Legal(HandleTransport(s, m))
           /\ HandleTransport(s, m).endpoint = s.endpoint
  BY HandleRelayedTransportLegal DEF HandleTransport, LegalHeard

(* Ages and deadlines after a tick. *)
LEMMA OlderTyped ==
    ASSUME NEW t \in Nat \cup {None}, NEW limit \in Nat
    PROVE  /\ Older(t, limit) \in Nat \cup {None}
           /\ Sooner(t) \in Nat \cup {None}
           /\ t \in Nat => /\ Sooner(t) \in Nat /\ Older(t, limit) \in Nat
                           /\ t > limit => Older(t, limit) = t
                           /\ t <= limit => Older(t, limit) = t + 1
  BY NoneAssumption DEF Older, Sooner

(* Time keeps a session legal: the older age stays the older one. *)
LEMMA AgedLegal ==
    ASSUME NEW s, Legal(s)
    PROVE  Legal(Aged(s)) /\ Aged(s).endpoint = s.endpoint
<1> DEFINE r == Aged(s)
           init == Sooner(s.next_init_at)
           rx == Older(s.last_rx_at, REJECT_AFTER)
           tx == Older(s.last_tx_at, KEEPALIVE)
           hs == Older(s.last_handshake_at, REKEY_AFTER)
           start == IF s.init_rx_window_start < RATE_WINDOW
                    THEN s.init_rx_window_start + 1 ELSE s.init_rx_window_start
           retry == Sooner(s.state.rehandshake.next_retry_at)
           state == AgedState(s)
<1>1. s \in PeerSession
  BY DEF Legal
<1>2. /\ init \in Nat \cup {None} /\ rx \in Nat \cup {None}
      /\ tx \in Nat \cup {None} /\ hs \in Nat \cup {None}
  BY <1>1, OlderTyped, TimingAssumption DEF PeerSession
<1>3. start \in Nat
  BY <1>1 DEF PeerSession
<1>4. state \in PeerState /\ state.tag = s.state.tag
  <2>1. CASE IsRekeying(s)
    <3>1. s.state \in ReadyState /\ s.state.rehandshake \in Rehandshake
      BY <1>1, <2>1, ReadyStates DEF IsRekeying
    <3>2. retry \in Nat
      <4>1. s.state.rehandshake.next_retry_at \in Nat
        BY <3>1 DEF Rehandshake
      <4> QED BY <4>1, OlderTyped
    <3> DEFINE rekey == [s.state.rehandshake EXCEPT !.next_retry_at = retry]
    <3>3. rekey \in Rehandshake
      <4> HIDE DEF retry
      <4> QED BY <3>1, <3>2 DEF Rehandshake
    <3>4. state = [s.state EXCEPT !.rehandshake = rekey]
      BY <2>1 DEF AgedState
    <3> HIDE DEF rekey, state
    <3> QED
      BY <3>1, <3>3, <3>4 DEF PeerState, ReadyState
  <2>2. CASE ~IsRekeying(s)
    BY <1>1, <2>2 DEF PeerSession, AgedState
  <2> QED
    BY <2>1, <2>2
<1>5. r = [s EXCEPT !.next_init_at = init, !.last_rx_at = rx, !.last_tx_at = tx,
                    !.last_handshake_at = hs, !.init_rx_window_start = start,
                    !.state = state]
  BY DEF Aged
<1> HIDE DEF r, init, rx, tx, hs, start, state
<1>6. /\ r \in PeerSession /\ r.endpoint = s.endpoint
      /\ r.last_rx_at = rx /\ r.last_handshake_at = hs /\ r.state.tag = s.state.tag
  BY <1>1, <1>2, <1>3, <1>4, <1>5 DEF PeerSession
<1>7. ASSUME IsReady(r)
      PROVE  rx \in Nat /\ hs \in Nat /\ (rx <= hs \/ hs > REKEY_AFTER)
  <2>1. IsReady(s)
    BY <1>6, <1>7 DEF IsReady
  <2>2. /\ s.last_rx_at \in Nat /\ s.last_handshake_at \in Nat
        /\ \/ s.last_rx_at <= s.last_handshake_at
           \/ s.last_handshake_at > REKEY_AFTER
    BY <2>1 DEF Legal, HeardSinceHandshake
  <2>3. REKEY_AFTER \in Nat /\ REJECT_AFTER \in Nat
    BY TimingAssumption
  <2>4. rx \in Nat /\ rx <= s.last_rx_at + 1
    <3>1. rx = s.last_rx_at \/ rx = s.last_rx_at + 1
      BY DEF rx, Older
    <3> QED BY <2>2, <3>1
  <2>5. /\ hs \in Nat
        /\ s.last_handshake_at > REKEY_AFTER => hs = s.last_handshake_at
        /\ s.last_handshake_at <= REKEY_AFTER => hs = s.last_handshake_at + 1
    BY <2>2, <2>3, OlderTyped DEF hs
  <2> QED
    BY <2>2, <2>3, <2>4, <2>5
<1> QED
  BY <1>6, <1>7 DEF r, Legal, HeardSinceHandshake

(* The session that add_peer makes. *)
LEMMA NewSessionLegal ==
    ASSUME NEW n \in Node, NEW p \in Node, Config[n][p] # None,
           NEW e, Config[n][p].is_initiator => e \in Ephemeral
    PROVE  /\ Legal(NewSession(n, p, e))
           /\ NewSession(n, p, e).endpoint = Config[n][p].endpoint
<1> DEFINE r == NewSession(n, p, e)
           state == IF Config[n][p].is_initiator
                    THEN [tag |-> "HandshakingAsInitiator", initiator |-> e]
                    ELSE FreshResponder
           init == IF Config[n][p].is_initiator THEN 0 ELSE None
<1>1. Config[n][p] \in PeerConfig
  BY ConfigAssumption
<1>2. state \in PeerState /\ state.tag # "Ready" /\ init \in Nat \cup {None}
  BY DEF PeerState, InitiatorState, ResponderState, FreshResponder
<1>3. r = [endpoint |-> Config[n][p].endpoint, state |-> state, stale |-> FALSE,
           next_init_at |-> init, last_rx_at |-> None, last_tx_at |-> None,
           last_handshake_at |-> None, init_rx_count |-> 0,
           init_rx_window_start |-> 0]
  BY DEF NewSession
<1> HIDE DEF state, init
<1>4. r \in PeerSession
  BY <1>1, <1>2, <1>3 DEF PeerSession, PeerConfig
<1> QED
  BY <1>2, <1>3, <1>4 DEF Legal, HeardSinceHandshake, IsReady

-----------------------------------------------------------------------------

(* Every peer of a manager is another node that it was configured with. *)
SessionsOK ==
    \A n \in Node : \A p \in Known(n) :
        p # n /\ Config[n][p] # None /\ HeardSinceHandshake(peers[n][p])

(* The peer table and the address index. *)
TablesOK ==
    /\ peers \in [Node -> [Node -> PeerSession \cup {Absent}]]
    /\ endpoint_to_peer \in [Node -> [Addr -> Node \cup {None}]]
    /\ SessionsOK
    /\ EndpointsCoherent

(* Everything else is of its type. *)
WorldOK ==
    /\ up \subseteq Node
    /\ addr \in [Node -> Addr]
    /\ learned_endpoints \in [Node -> [Node -> Addr \cup {None}]]
    /\ age \in [Ephemeral -> Nat]
    /\ IsABag(net) /\ InFlight \subseteq Datagram
    /\ left \in Budgets

(* The inductive invariant. *)
IInv == TablesOK /\ WorldOK

(* The two parts of IInv say all that TypeOK does. *)
LEMMA IInvTypeOK == IInv => TypeOK
  BY DEF IInv, TablesOK, WorldOK, TypeOK

(* What TablesOK says of one peer. *)
LEMMA KnownSession ==
    ASSUME TablesOK, NEW n \in Node, NEW p \in Known(n)
    PROVE  /\ p \in Node /\ p # n /\ Config[n][p] \in PeerConfig
           /\ Legal(peers[n][p])
<1>1. /\ p \in Node /\ peers[n][p] # Absent
      /\ peers[n][p] \in PeerSession \cup {Absent}
  BY DEF TablesOK, Known
<1>2. p # n /\ Config[n][p] # None /\ HeardSinceHandshake(peers[n][p])
  BY DEF TablesOK, SessionsOK
<1>3. Config[n][p] \in PeerConfig \cup {None}
  BY <1>1, ConfigAssumption
<1> QED
  BY <1>1, <1>2, <1>3 DEF Legal

(* A legal session in the place of another: everything but the index. *)
LEMMA InstallSession ==
    ASSUME TablesOK, NEW n \in Node, NEW p \in Known(n),
           NEW s, Legal(s), Install(n, p, s)
    PROVE  /\ p \in Node
           /\ peers' \in [Node -> [Node -> PeerSession \cup {Absent}]]
           /\ peers'[n][p] = s
           /\ \A m, q \in Node : <<m, q>> # <<n, p>> => peers'[m][q] = peers[m][q]
           /\ \A m \in Node : Known(m)' = Known(m)
           /\ SessionsOK'
<1>1. p \in Node
  BY DEF Known
<1>2. s \in PeerSession /\ s # Absent /\ HeardSinceHandshake(s)
  BY NoneAssumption DEF Legal
<1>3. peers' \in [Node -> [Node -> PeerSession \cup {Absent}]]
  BY <1>1, <1>2 DEF TablesOK, Install
<1>4. /\ peers'[n][p] = s
      /\ \A m, q \in Node : <<m, q>> # <<n, p>> => peers'[m][q] = peers[m][q]
  BY <1>1 DEF TablesOK, Install
<1>5. \A m \in Node : Known(m)' = Known(m)
  BY <1>1, <1>2, <1>4 DEF Known
<1>6. SessionsOK'
  <2> SUFFICES ASSUME NEW m \in Node, NEW q \in Known(m)
               PROVE  q # m /\ Config[m][q] # None /\ HeardSinceHandshake(peers'[m][q])
    BY <1>5 DEF SessionsOK, HeardSinceHandshake, IsReady
  <2>1. q \in Node
    BY DEF Known
  <2>2. q # m /\ Config[m][q] # None /\ HeardSinceHandshake(peers[m][q])
    BY DEF TablesOK, SessionsOK
  <2>3. CASE <<m, q>> = <<n, p>>
    BY <1>2, <1>4, <2>2, <2>3
  <2>4. CASE <<m, q>> # <<n, p>>
    BY <1>4, <2>1, <2>2, <2>4
  <2> QED
    BY <2>3, <2>4
<1> QED
  BY <1>1, <1>3, <1>4, <1>5, <1>6

(* A handler that changes no endpoint keeps TablesOK. *)
LEMMA KeepEndpoint ==
    ASSUME TablesOK, NEW n \in Node, NEW p \in Known(n),
           NEW s, Legal(s), s.endpoint = peers[n][p].endpoint,
           Install(n, p, s), UNCHANGED endpoint_to_peer
    PROVE  TablesOK'
<1>1. EndpointsCoherent'
  <2> SUFFICES ASSUME NEW m \in Node, NEW x \in Addr,
                      endpoint_to_peer[m][x] # None
               PROVE  /\ endpoint_to_peer[m][x] \in Known(m)
                      /\ peers'[m][endpoint_to_peer[m][x]].endpoint = x
    BY InstallSession DEF EndpointsCoherent
  <2>1. /\ endpoint_to_peer[m][x] \in Known(m)
        /\ peers[m][endpoint_to_peer[m][x]].endpoint = x
    BY DEF TablesOK, EndpointsCoherent
  <2> QED
    BY <2>1, InstallSession DEF Known
<1> QED
  BY <1>1, InstallSession DEF TablesOK

(* The endpoint refresh of handle_incoming keeps TablesOK. *)
LEMMA MoveEndpoint ==
    ASSUME TablesOK, NEW n \in Node, NEW p \in Known(n), NEW src \in Addr,
           NEW s, Legal(s), s.endpoint = src,
           Install(n, p, s), Rehome(n, p, src)
    PROVE  TablesOK'
<1> DEFINE old == peers[n][p].endpoint
<1>1. /\ endpoint_to_peer' \in [Node -> [Addr -> Node \cup {None}]]
      /\ \A m \in Node, x \in Addr :
            \/ endpoint_to_peer'[m][x] = None
            \/ m = n /\ x = src /\ endpoint_to_peer'[m][x] = p
            \/ /\ endpoint_to_peer'[m][x] = endpoint_to_peer[m][x]
               /\ m = n => x # old \/ old = src
  BY InstallSession DEF TablesOK, Rehome
<1>2. EndpointsCoherent'
  <2> SUFFICES ASSUME NEW m \in Node, NEW x \in Addr,
                      endpoint_to_peer'[m][x] # None
               PROVE  /\ endpoint_to_peer'[m][x] \in Known(m)
                      /\ peers'[m][endpoint_to_peer'[m][x]].endpoint = x
    BY InstallSession DEF EndpointsCoherent
  <2>1. CASE m = n /\ x = src /\ endpoint_to_peer'[m][x] = p
    BY <2>1, InstallSession
  <2>2. CASE /\ endpoint_to_peer'[m][x] = endpoint_to_peer[m][x]
             /\ m = n => x # old \/ old = src
    <3> DEFINE q == endpoint_to_peer[m][x]
    <3>1. q \in Known(m) /\ q \in Node /\ peers[m][q].endpoint = x
      BY <2>2 DEF TablesOK, EndpointsCoherent, Known
    <3>2. CASE <<m, q>> = <<n, p>>
      BY <2>2, <3>1, <3>2, InstallSession
    <3>3. CASE <<m, q>> # <<n, p>>
      BY <2>2, <3>1, <3>3, InstallSession
    <3> QED
      BY <3>2, <3>3
  <2> QED
    BY <1>1, <2>1, <2>2
<1> QED
  BY <1>1, <1>2, InstallSession DEF TablesOK

(* The end of a daemon empties its tables. *)
LEMMA DownTables ==
    ASSUME IInv, NEW n \in Node, Down(n)
    PROVE  /\ TablesOK'
           /\ up' \subseteq Node
           /\ learned_endpoints' \in [Node -> [Node -> Addr \cup {None}]]
<1>1. /\ peers' \in [Node -> [Node -> PeerSession \cup {Absent}]]
      /\ endpoint_to_peer' \in [Node -> [Addr -> Node \cup {None}]]
      /\ learned_endpoints' \in [Node -> [Node -> Addr \cup {None}]]
      /\ up' \subseteq Node
  BY DEF IInv, TablesOK, WorldOK, Down
<1>2. \A m, q \in Node : peers'[m][q] # Absent => m # n /\ peers'[m][q] = peers[m][q]
  BY DEF IInv, TablesOK, Down
<1>3. SessionsOK'
  <2> SUFFICES ASSUME NEW m \in Node, NEW q \in Known(m)'
               PROVE  q # m /\ Config[m][q] # None /\ HeardSinceHandshake(peers'[m][q])
    BY DEF SessionsOK, HeardSinceHandshake, IsReady
  <2>1. q \in Known(m) /\ peers'[m][q] = peers[m][q]
    BY <1>2 DEF Known
  <2>2. q # m /\ Config[m][q] # None /\ HeardSinceHandshake(peers[m][q])
    BY <2>1 DEF IInv, TablesOK, SessionsOK
  <2> QED
    BY <2>1, <2>2
<1>4. EndpointsCoherent'
  <2> SUFFICES ASSUME NEW m \in Node, NEW x \in Addr,
                      endpoint_to_peer'[m][x] # None
               PROVE  /\ endpoint_to_peer'[m][x] \in Known(m)'
                      /\ peers'[m][endpoint_to_peer'[m][x]].endpoint = x
    BY DEF EndpointsCoherent
  <2>1. m # n /\ endpoint_to_peer'[m][x] = endpoint_to_peer[m][x]
    BY DEF IInv, TablesOK, Down
  <2>2. /\ endpoint_to_peer[m][x] \in Known(m)
        /\ peers[m][endpoint_to_peer[m][x]].endpoint = x
    BY <2>1 DEF IInv, TablesOK, EndpointsCoherent
  <2>3. peers'[m] = peers[m]
    BY <2>1 DEF IInv, TablesOK, Down
  <2> QED
    BY <2>1, <2>2, <2>3 DEF Known
<1> QED
  BY <1>1, <1>3, <1>4 DEF TablesOK

-----------------------------------------------------------------------------

(* A bag of datagrams. *)
NetOK(B) == IsABag(B) /\ BagToSet(B) \subseteq Datagram

(* Receiving a datagram leaves typed ones in flight. *)
LEMMA ConsumeOK ==
    ASSUME WorldOK, NEW d
    PROVE  NetOK(Consume(d))
  BY BagDifference DEF WorldOK, NetOK, Consume, InFlight

(* So does sending, whether it succeeds or not. *)
LEMMA SendOK ==
    ASSUME NEW B, NetOK(B), NEW S \in SUBSET Datagram, NEW ok \in BOOLEAN
    PROVE  /\ NetOK(B (+) Delivered(S))
           /\ NetOK(B (+) (IF ok THEN Delivered(S) ELSE EmptyBag))
<1> DEFINE D == {d \in S : \E n \in Node : addr[n] = d.dst}
<1>1. IsABag(Delivered(S)) /\ BagToSet(Delivered(S)) = D
  BY BagOfSet DEF Delivered
<1>2. NetOK(B (+) Delivered(S))
  BY <1>1, BagSum DEF NetOK
<1>3. NetOK(B (+) EmptyBag)
  BY BagEmpty, BagSum DEF NetOK
<1> QED
  BY <1>2, <1>3

(* A failed send is paid from the budget. *)
LEMMA ChargeErrorOK ==
    ASSUME WorldOK, NEW ok \in SendOutcomes, ChargeError(ok)
    PROVE  ok \in BOOLEAN /\ left' \in Budgets
<1>1. left \in Budgets
  BY DEF WorldOK
<1>2. CASE ok
  BY <1>1, <1>2 DEF ChargeError, SendOutcomes
<1>3. CASE ~ok
  <2>1. left.errors \in Nat /\ left.errors > 0 /\ ok \in BOOLEAN
    BY <1>1, <1>3 DEF SendOutcomes, Budgets
  <2> DEFINE e == left.errors - 1
  <2>2. e \in Nat /\ left' = [left EXCEPT !.errors = e]
    BY <1>3, <2>1 DEF ChargeError
  <2> HIDE DEF e
  <2> QED
    BY <1>1, <2>1, <2>2 DEF Budgets
<1> QED
  BY <1>2, <1>3

(* send_maybe_relay makes a datagram, for every peer that is known. *)
LEMMA SendMaybeRelayOK ==
    ASSUME IInv, NEW n \in Node, NEW p \in Known(n), NEW x \in Addr,
           NEW m \in Message
    PROVE  SendMaybeRelay(n, p, x, m) \in Datagram
<1>1. p \in Node /\ Config[n][p].via_relay \in Addr \cup {None} /\ addr[n] \in Addr
  BY KnownSession DEF IInv, WorldOK, PeerConfig
<1> QED
  BY <1>1 DEF SendMaybeRelay, Datagram, RelayMessage

(* There is an unused ephemeral to draw. *)
LEMMA FreshOK ==
    ASSUME Unused # {}
    PROVE  Fresh \in Ephemeral
  BY DEF Fresh, Unused

(* The type of a message decides its other fields. *)
LEMMA DatagramTypes ==
    ASSUME WorldOK, NEW d \in InFlight
    PROVE  /\ d.src \in Addr /\ d.dst \in Addr
           /\ d.msg.type = "INIT" => d.msg \in InitMessage
           /\ d.msg.type = "RESPONSE" => d.msg \in ResponseMessage
           /\ d.msg.type = "TRANSPORT" => d.msg \in TransportMessage
           /\ d.msg.type = "RELAY" => d.msg \in RelayMessage
<1>1. d \in Datagram
  BY DEF WorldOK
<1> QED
  BY <1>1 DEF Datagram, Message, InitMessage, ResponseMessage,
              TransportMessage, RelayMessage

(* The same of what a RELAY carries. *)
LEMMA InnerTypes ==
    ASSUME NEW m \in RelayMessage
    PROVE  /\ m.from \in Node /\ m.dest \in Node
           /\ m.inner.type = "INIT" => m.inner \in InitMessage
           /\ m.inner.type = "RESPONSE" => m.inner \in ResponseMessage
           /\ m.inner.type = "TRANSPORT" => m.inner \in TransportMessage
  BY DEF Message, InitMessage, ResponseMessage, TransportMessage, RelayMessage

(* The session after a datagram has been counted as traffic. *)
LEMMA HeardLegal ==
    ASSUME TablesOK, NEW n \in Node, NEW p \in Known(n), NEW src \in Addr
    PROVE  /\ LegalHeard(Heard(n, p, src)) /\ Heard(n, p, src).endpoint = src
           /\ LegalHeard(HeardRelayed(n, p))
           /\ HeardRelayed(n, p).endpoint = peers[n][p].endpoint
<1> DEFINE s == peers[n][p]
           h == Heard(n, p, src)
           r == HeardRelayed(n, p)
<1>1. s \in PeerSession /\ HeardSinceHandshake(s)
  BY KnownSession DEF Legal
<1>2. /\ h \in PeerSession /\ h.endpoint = src /\ h.last_rx_at = 0
      /\ h.state = s.state /\ h.last_handshake_at = s.last_handshake_at
  <2> HIDE DEF s
  <2>1. h = [s EXCEPT !.endpoint = src, !.last_rx_at = 0]
    BY DEF Heard, s
  <2> HIDE DEF h
  <2> QED
    BY <1>1, <2>1 DEF PeerSession
<1>3. /\ r \in PeerSession /\ r.endpoint = s.endpoint /\ r.last_rx_at = 0
      /\ r.state = s.state /\ r.last_handshake_at = s.last_handshake_at
  <2> HIDE DEF s
  <2>1. r = [s EXCEPT !.last_rx_at = 0]
    BY DEF HeardRelayed, s
  <2> HIDE DEF r
  <2> QED
    BY <1>1, <2>1 DEF PeerSession
<1> HIDE DEF s, h, r
<1>4. /\ IsReady(s) => s.last_handshake_at \in Nat
      /\ IsReady(h) => IsReady(s)
      /\ IsReady(r) => IsReady(s)
  BY <1>1, <1>2, <1>3 DEF HeardSinceHandshake, IsReady
<1>5. LegalHeard(h) /\ LegalHeard(r)
  BY <1>1, <1>2, <1>3, <1>4 DEF LegalHeard, Legal, HeardSinceHandshake
<1> QED
  BY <1>2, <1>3, <1>5 DEF s, h, r

(* A Responder that has been used up, or rebuilt. *)
LEMMA ResponderLegal ==
    ASSUME NEW s \in PeerSession, IsResponding(s)
    PROVE  /\ Legal([s EXCEPT !.state.spent = TRUE])
           /\ [s EXCEPT !.state.spent = TRUE].endpoint = s.endpoint
           /\ Legal([s EXCEPT !.state = FreshResponder])
           /\ [s EXCEPT !.state = FreshResponder].endpoint = s.endpoint
<1>1. s.state \in ResponderState
  BY ReadyStates
<1> DEFINE spent == [s.state EXCEPT !.spent = TRUE]
<1>2. [s EXCEPT !.state.spent = TRUE] = [s EXCEPT !.state = spent]
  OBVIOUS
<1>3. spent \in ResponderState /\ FreshResponder \in ResponderState
  BY <1>1 DEF ResponderState, FreshResponder
<1> HIDE DEF spent
<1>4. ASSUME NEW x \in ResponderState
      PROVE  Legal([s EXCEPT !.state = x]) /\ [s EXCEPT !.state = x].endpoint = s.endpoint
  <2> DEFINE r == [s EXCEPT !.state = x]
  <2>1. x \in PeerState /\ x.tag # "Ready"
    BY DEF PeerState, ResponderState
  <2>2. r \in PeerSession /\ r.endpoint = s.endpoint /\ r.state = x
    BY <2>1 DEF PeerSession
  <2> QED
    BY <2>1, <2>2 DEF Legal, HeardSinceHandshake, IsReady
<1> QED
  BY <1>2, <1>3, <1>4

(* handle_init and handle_init_via_relay, in every case. *)
LEMMA AnswerInitOK ==
    ASSUME IInv, NEW n \in Node, NEW p \in Known(n), NEW s, LegalHeard(s),
           NEW d \in InFlight, NEW m \in InitMessage, NEW relayed \in BOOLEAN,
           AnswerInit(n, p, s, d, m, relayed)
    PROVE  /\ NetOK(net') /\ left' \in Budgets
           /\ \E r : Legal(r) /\ r.endpoint = s.endpoint /\ Install(n, p, r)
<1> DEFINE answers == IsResponding(s) \/ (IsReady(s) /\ ~relayed)
           accepts == /\ ConsumesInit(n, m, age[m.eph])
                      /\ IsResponding(s) => ~s.state.spent
           t == NewTransport(Fresh, "responder", m.from)
           response == WriteResponse(n, m, Fresh)
           reply == [src |-> addr[n], dst |-> d.src,
                     msg |-> IF relayed
                             THEN [type |-> "RELAY", from |-> n, dest |-> p,
                                   inner |-> response]
                             ELSE response]
           session(ok) == CASE IsReady(s) /\ ok -> RekeyAsResponder(s, t)
                            [] IsReady(s) /\ ~ok -> s
                            [] ~IsReady(s) /\ ok -> BecomeReady(s, t)
                            [] OTHER -> [s EXCEPT !.state.spent = TRUE]
<1>1. s \in PeerSession /\ Legal(s) /\ p \in Node /\ WorldOK
  BY DEF LegalHeard, Legal, Known, IInv
<1>2. CASE ~(answers /\ accepts)
  <2>1. net' = Consume(d) /\ left' = left
    BY <1>2 DEF AnswerInit
  <2>2. Install(n, p, IF IsResponding(s)
                      THEN [s EXCEPT !.state = FreshResponder] ELSE s)
    BY <1>2 DEF AnswerInit
  <2>3. left' \in Budgets
    BY <1>1, <2>1 DEF WorldOK
  <2> QED
    BY <1>1, <2>1, <2>2, <2>3, ConsumeOK, ResponderLegal
<1>3. CASE answers /\ accepts
  <2>1. PICK ok \in SendOutcomes :
            /\ net' = Consume(d) (+)
                      (IF ok THEN Delivered({reply}) ELSE EmptyBag)
            /\ ChargeError(ok)
            /\ Install(n, p, session(ok))
    BY <1>3 DEF AnswerInit
  <2>2. Fresh \in Ephemeral
    BY <1>3, FreshOK DEF AnswerInit
  <2>3. ok \in BOOLEAN /\ left' \in Budgets
    BY <1>1, <2>1, ChargeErrorOK
  <2>4. t \in Transport
    BY <2>2 DEF NewTransport, Transport, Side, InitMessage
  <2>5. response \in Message
    BY <2>2 DEF WriteResponse, Message, ResponseMessage, InitMessage
  <2>6. reply \in Datagram
    <3> HIDE DEF response
    <3> QED
      BY <1>1, <2>5, DatagramTypes DEF Datagram, RelayMessage, WorldOK
  <2>7. NetOK(net')
    <3> HIDE DEF reply
    <3> QED
      BY <1>1, <2>1, <2>3, <2>6, ConsumeOK, SendOK
  <2>8. Legal(session(ok)) /\ session(ok).endpoint = s.endpoint
    <3> HIDE DEF t
    <3>1. CASE IsReady(s) /\ ok
      BY <2>4, <3>1, RekeyAsResponderLegal
    <3>2. CASE IsReady(s) /\ ~ok
      BY <1>1, <3>2
    <3>3. CASE ~IsReady(s) /\ ok
      BY <1>1, <2>4, <3>3, BecomeReadyLegal
    <3>4. CASE ~IsReady(s) /\ ~ok
      BY <1>1, <1>3, <3>4, ResponderLegal
    <3> QED
      BY <3>1, <3>2, <3>3, <3>4
  <2> QED
    BY <2>1, <2>3, <2>7, <2>8
<1> QED
  BY <1>2, <1>3

-----------------------------------------------------------------------------

(* A datagram is attributed to a peer the manager has. *)
LEMMA SenderKnown ==
    ASSUME IInv, NEW n \in Node, NEW d \in InFlight,
           Sender(n, d.src, d.msg) # None
    PROVE  Sender(n, d.src, d.msg) \in Known(n)
<1>1. d.src \in Addr
  BY DatagramTypes DEF IInv
<1>2. endpoint_to_peer[n][d.src] # None => endpoint_to_peer[n][d.src] \in Known(n)
  BY <1>1 DEF IInv, TablesOK, EndpointsCoherent
<1> QED
  BY <1>2 DEF Sender

(* ReceiveInit keeps IInv, also when the daemon ends. *)
LEMMA ReceiveInitStep ==
    ASSUME IInv, NEW n \in Node, NEW d \in InFlight, ReceiveInit(n, d)
    PROVE  IInv'
<1> DEFINE p == Sender(n, d.src, d.msg)
           h == Heard(n, p, d.src)
           s == CountInit(h)
<1>1. p \in Known(n) /\ d.src \in Addr /\ d.msg \in InitMessage
  BY SenderKnown, DatagramTypes DEF ReceiveInit, IInv
<1>2. LegalHeard(s) /\ s.endpoint = d.src
  <2>1. LegalHeard(h) /\ h.endpoint = d.src
    BY <1>1, HeardLegal DEF IInv
  <2> HIDE DEF h
  <2> QED
    BY <2>1, CountInitLegal
<1>3. CASE OverLimit(s)
  <2>1. Down(n) /\ net' = Consume(d) /\ UNCHANGED <<addr, age, left>>
    BY <1>3 DEF ReceiveInit
  <2> QED
    BY <2>1, DownTables, ConsumeOK DEF IInv, WorldOK, NetOK, InFlight
<1>4. CASE ~OverLimit(s)
  <2>1. /\ Rehome(n, p, d.src) /\ AnswerInit(n, p, s, d, d.msg, FALSE)
        /\ UNCHANGED <<world, learned_endpoints>>
    BY <1>4 DEF ReceiveInit
  <2> HIDE DEF s, p
  <2>2. /\ NetOK(net') /\ left' \in Budgets
        /\ \E r : Legal(r) /\ r.endpoint = d.src /\ Install(n, p, r)
    BY <1>1, <1>2, <2>1, AnswerInitOK
  <2>3. TablesOK'
    BY <1>1, <2>1, <2>2, MoveEndpoint DEF IInv
  <2> QED
    BY <2>1, <2>2, <2>3 DEF IInv, WorldOK, NetOK, InFlight, world
<1> QED
  BY <1>3, <1>4

(* ReceiveResponse keeps IInv. *)
LEMMA ReceiveResponseStep ==
    ASSUME IInv, NEW n \in Node, NEW d \in InFlight, ReceiveResponse(n, d)
    PROVE  IInv'
<1> DEFINE p == Sender(n, d.src, d.msg)
           h == Heard(n, p, d.src)
           s == HandleResponse(h, d.msg)
<1>1. p \in Known(n) /\ d.src \in Addr /\ d.msg \in ResponseMessage
  BY SenderKnown, DatagramTypes DEF ReceiveResponse, IInv
<1>2. LegalHeard(h) /\ h.endpoint = d.src
  BY <1>1, HeardLegal DEF IInv
<1>3. Legal(s) /\ s.endpoint = d.src
  <2> HIDE DEF h
  <2> QED BY <1>1, <1>2, HandleResponseLegal
<1>4. /\ Rehome(n, p, d.src) /\ Install(n, p, s) /\ net' = Consume(d)
      /\ UNCHANGED <<world, learned_endpoints, left>>
  BY DEF ReceiveResponse
<1> HIDE DEF s, p
<1>5. TablesOK'
  BY <1>1, <1>3, <1>4, MoveEndpoint DEF IInv
<1> QED
  BY <1>4, <1>5, ConsumeOK DEF IInv, WorldOK, NetOK, InFlight, world

(* ReceiveTransport keeps IInv. *)
LEMMA ReceiveTransportStep ==
    ASSUME IInv, NEW n \in Node, NEW d \in InFlight, ReceiveTransport(n, d)
    PROVE  IInv'
<1> DEFINE p == Sender(n, d.src, d.msg)
           h == Heard(n, p, d.src)
           s == HandleTransport(h, d.msg)
<1>1. p \in Known(n) /\ d.src \in Addr
  BY SenderKnown, DatagramTypes DEF ReceiveTransport, IInv
<1>2. LegalHeard(h) /\ h.endpoint = d.src
  BY <1>1, HeardLegal DEF IInv
<1>3. Legal(s) /\ s.endpoint = d.src
  <2> HIDE DEF h
  <2> QED BY <1>2, HandleTransportLegal
<1>4. /\ Rehome(n, p, d.src) /\ Install(n, p, s) /\ net' = Consume(d)
      /\ UNCHANGED <<world, learned_endpoints, left>>
  BY DEF ReceiveTransport
<1> HIDE DEF s, p
<1>5. TablesOK'
  BY <1>1, <1>3, <1>4, MoveEndpoint DEF IInv
<1> QED
  BY <1>4, <1>5, ConsumeOK DEF IInv, WorldOK, NetOK, InFlight, world

(* TablesOK depends on two variables. *)
LEMMA UnchangedTables ==
    ASSUME TablesOK, UNCHANGED <<peers, endpoint_to_peer>>
    PROVE  TablesOK'
  BY DEF TablesOK, SessionsOK, EndpointsCoherent, Known, HeardSinceHandshake, IsReady

(* What a relay learns is an address. *)
LEMMA LearnOK ==
    ASSUME IInv, NEW n \in Node, NEW d \in InFlight, d.msg.type = "RELAY",
           Learn(n, d)
    PROVE  learned_endpoints' \in [Node -> [Node -> Addr \cup {None}]]
<1>1. d.src \in Addr /\ d.msg.from \in Node
  BY DatagramTypes, InnerTypes DEF IInv
<1> QED
  BY <1>1 DEF Learn, IInv, WorldOK

(* ReceiveRelayedInit keeps IInv. *)
LEMMA ReceiveRelayedInitStep ==
    ASSUME IInv, NEW n \in Node, NEW d \in InFlight, ReceiveRelayedInit(n, d)
    PROVE  IInv'
<1> DEFINE p == OriginalSender(n, d)
           h == HeardRelayed(n, p)
<1>1. /\ d.msg.type = "RELAY" /\ d.msg \in RelayMessage /\ d.src \in Addr
      /\ p \in Known(n)
  BY DatagramTypes DEF ReceiveRelayedInit, ArrivesRelayed, OriginalSender, IInv
<1>2. d.msg.inner \in InitMessage
  BY <1>1, InnerTypes DEF ReceiveRelayedInit
<1>3. LegalHeard(h) /\ h.endpoint = peers[n][p].endpoint
  BY <1>1, HeardLegal DEF IInv
<1>4. /\ Learn(n, d) /\ AnswerInit(n, p, h, d, d.msg.inner, TRUE)
      /\ UNCHANGED <<world, endpoint_to_peer>>
  BY DEF ReceiveRelayedInit
<1> HIDE DEF h, p
<1>5. /\ NetOK(net') /\ left' \in Budgets
      /\ \E r : Legal(r) /\ r.endpoint = peers[n][p].endpoint /\ Install(n, p, r)
  BY <1>1, <1>2, <1>3, <1>4, AnswerInitOK
<1>6. TablesOK'
  BY <1>1, <1>4, <1>5, KeepEndpoint DEF IInv
<1> QED
  BY <1>1, <1>4, <1>5, <1>6, LearnOK DEF IInv, WorldOK, NetOK, InFlight, world

(* ReceiveRelayedResponse keeps IInv. *)
LEMMA ReceiveRelayedResponseStep ==
    ASSUME IInv, NEW n \in Node, NEW d \in InFlight, ReceiveRelayedResponse(n, d)
    PROVE  IInv'
<1> DEFINE p == OriginalSender(n, d)
           h == HeardRelayed(n, p)
           s == HandleResponse(h, d.msg.inner)
<1>1. d.msg.type = "RELAY" /\ d.msg \in RelayMessage /\ p \in Known(n)
  BY DatagramTypes DEF ReceiveRelayedResponse, ArrivesRelayed, OriginalSender, IInv
<1>2. d.msg.inner \in ResponseMessage
  BY <1>1, InnerTypes DEF ReceiveRelayedResponse
<1>3. LegalHeard(h) /\ h.endpoint = peers[n][p].endpoint
  BY <1>1, DatagramTypes, HeardLegal DEF IInv
<1>4. Legal(s) /\ s.endpoint = peers[n][p].endpoint
  <2> HIDE DEF h
  <2> QED BY <1>2, <1>3, HandleResponseLegal
<1>5. /\ Learn(n, d) /\ Install(n, p, s) /\ net' = Consume(d)
      /\ UNCHANGED <<world, endpoint_to_peer, left>>
  BY DEF ReceiveRelayedResponse
<1> HIDE DEF s, p
<1>6. TablesOK'
  BY <1>1, <1>4, <1>5, KeepEndpoint DEF IInv
<1> QED
  BY <1>1, <1>5, <1>6, LearnOK, ConsumeOK DEF IInv, WorldOK, NetOK, InFlight, world

(* ReceiveRelayedTransport keeps IInv. *)
LEMMA ReceiveRelayedTransportStep ==
    ASSUME IInv, NEW n \in Node, NEW d \in InFlight, ReceiveRelayedTransport(n, d)
    PROVE  IInv'
<1> DEFINE p == OriginalSender(n, d)
           h == HeardRelayed(n, p)
           s == HandleRelayedTransport(h, d.msg.inner)
<1>1. d.msg.type = "RELAY" /\ p \in Known(n) /\ d.src \in Addr
  BY DatagramTypes DEF ReceiveRelayedTransport, ArrivesRelayed, OriginalSender, IInv
<1>2. LegalHeard(h) /\ h.endpoint = peers[n][p].endpoint
  BY <1>1, HeardLegal DEF IInv
<1>3. Legal(s) /\ s.endpoint = peers[n][p].endpoint
  <2> HIDE DEF h
  <2> QED BY <1>2, HandleRelayedTransportLegal
<1>4. /\ Learn(n, d) /\ Install(n, p, s) /\ net' = Consume(d)
      /\ UNCHANGED <<world, endpoint_to_peer, left>>
  BY DEF ReceiveRelayedTransport
<1> HIDE DEF s, p
<1>5. TablesOK'
  BY <1>1, <1>3, <1>4, KeepEndpoint DEF IInv
<1> QED
  BY <1>1, <1>4, <1>5, LearnOK, ConsumeOK DEF IInv, WorldOK, NetOK, InFlight, world

(* ForwardRelay keeps IInv. *)
LEMMA ForwardRelayStep ==
    ASSUME IInv, NEW n \in Node, NEW d \in InFlight, ForwardRelay(n, d)
    PROVE  IInv'
<1> DEFINE p == d.msg.from
           q == d.msg.dest
           h == HeardRelayed(n, p)
           copy == [src |-> addr[n], msg |-> d.msg, dst |-> ForwardAddress(n, q)]
<1>1. /\ d.msg.type = "RELAY" /\ d.msg \in RelayMessage /\ p \in Known(n)
      /\ d.src \in Addr /\ q \in Node
  BY DatagramTypes, InnerTypes DEF ForwardRelay, ArrivesRelayed, IInv
<1>2. Legal(h) /\ h.endpoint = peers[n][p].endpoint
  BY <1>1, HeardLegal DEF IInv, LegalHeard
<1>3. /\ Learn(n, d) /\ Install(n, p, h)
      /\ UNCHANGED <<world, endpoint_to_peer>>
  BY DEF ForwardRelay
<1>4. TablesOK'
  <2> HIDE DEF h
  <2> QED BY <1>1, <1>2, <1>3, KeepEndpoint DEF IInv
<1>5. learned_endpoints' \in [Node -> [Node -> Addr \cup {None}]]
  BY <1>1, <1>3, LearnOK
<1>6. NetOK(net') /\ left' \in Budgets
  <2>1. CASE q \in Known(n)
    <3>1. PICK ok \in SendOutcomes :
              /\ net' = Consume(d) (+) (IF ok THEN Delivered({copy}) ELSE EmptyBag)
              /\ ChargeError(ok)
      BY <2>1 DEF ForwardRelay
    <3>2. ok \in BOOLEAN /\ left' \in Budgets
      BY <3>1, ChargeErrorOK DEF IInv
    <3>3. copy \in Datagram
      <4>1. peers[n][q].endpoint \in Addr
        BY <2>1, KnownSession DEF IInv, Legal, PeerSession
      <4>2. ForwardAddress(n, q) \in Addr
        BY <1>1, <1>5, <4>1 DEF ForwardAddress
      <4> QED
        BY <1>1, <4>2 DEF Datagram, IInv, WorldOK
    <3> HIDE DEF copy
    <3> QED
      BY <3>1, <3>2, <3>3, ConsumeOK, SendOK DEF IInv
  <2>2. CASE q \notin Known(n)
    <3>1. net' = Consume(d) /\ left' = left
      BY <2>2 DEF ForwardRelay
    <3> QED
      BY <3>1, ConsumeOK DEF IInv, WorldOK
  <2> QED
    BY <2>1, <2>2
<1> QED
  BY <1>3, <1>4, <1>5, <1>6 DEF IInv, WorldOK, NetOK, InFlight, world

(* Every datagram a manager receives keeps IInv. *)
LEMMA ReceiveStep ==
    ASSUME IInv, NEW n \in Node, NEW d \in InFlight, Receive(n, d)
    PROVE  IInv'
<1>1. ASSUME net' = Consume(d), UNCHANGED <<world, peers, tables, left>>
      PROVE  IInv'
  BY <1>1, UnchangedTables, ConsumeOK DEF IInv, WorldOK, NetOK, InFlight, world, tables
<1>2. CASE IgnoreUnknownSource(n, d) \/ DropStrangersRelay(n, d)
  BY <1>1, <1>2 DEF IgnoreUnknownSource, DropStrangersRelay
<1> QED
  BY <1>2, ReceiveInitStep, ReceiveResponseStep, ReceiveTransportStep,
     ReceiveRelayedInitStep, ReceiveRelayedResponseStep,
     ReceiveRelayedTransportStep, ForwardRelayStep DEF Receive

-----------------------------------------------------------------------------

(* Start keeps IInv. *)
LEMMA StartStep ==
    ASSUME IInv, NEW n \in Node, Start(n)
    PROVE  IInv'
  BY UnchangedTables DEF Start, IInv, WorldOK, InFlight, tables

(* Stop keeps IInv. *)
LEMMA StopStep ==
    ASSUME IInv, NEW n \in Node, Stop(n)
    PROVE  IInv'
<1> DEFINE k == left.stops - 1
<1>1. k \in Nat /\ left' = [left EXCEPT !.stops = k]
  BY DEF Stop, IInv, WorldOK, Budgets
<1> HIDE DEF k
<1>2. left' \in Budgets
  BY <1>1 DEF IInv, WorldOK, Budgets
<1> QED
  BY <1>2, DownTables DEF Stop, IInv, WorldOK, InFlight

(* AddPeer keeps IInv: the endpoint is written to both tables. *)
LEMMA AddPeerStep ==
    ASSUME IInv, NEW n \in Node, NEW p \in Node, AddPeer(n, p)
    PROVE  IInv'
<1> DEFINE s == NewSession(n, p, Fresh)
           x == Config[n][p].endpoint
<1>1. /\ p # n /\ Config[n][p] # None /\ peers[n][p] = Absent
      /\ Config[n][p] \in PeerConfig
  BY ConfigAssumption DEF AddPeer, Known
<1>2. Config[n][p].is_initiator => Fresh \in Ephemeral
  BY FreshOK DEF AddPeer
<1>3. Legal(s) /\ s.endpoint = x /\ x \in Addr
  BY <1>1, <1>2, NewSessionLegal DEF PeerConfig
<1>4. /\ peers' = [peers EXCEPT ![n][p] = s]
      /\ endpoint_to_peer' = [endpoint_to_peer EXCEPT ![n][x] = p]
      /\ age' = IF Config[n][p].is_initiator THEN [age EXCEPT ![Fresh] = 0] ELSE age
      /\ UNCHANGED <<up, addr, learned_endpoints, net, left>>
  BY DEF AddPeer, Install
<1> HIDE DEF s, x
<1>5. /\ peers' \in [Node -> [Node -> PeerSession \cup {Absent}]]
      /\ peers'[n][p] = s /\ s # Absent
      /\ \A m, q \in Node : <<m, q>> # <<n, p>> => peers'[m][q] = peers[m][q]
  BY <1>3, <1>4, NoneAssumption DEF IInv, TablesOK, Legal
<1>6. \A m \in Node : Known(m)' = IF m = n THEN Known(m) \cup {p} ELSE Known(m)
  BY <1>5 DEF Known
<1>7. SessionsOK'
  <2> SUFFICES ASSUME NEW m \in Node, NEW q \in Known(m)'
               PROVE  q # m /\ Config[m][q] # None /\ HeardSinceHandshake(peers'[m][q])
    BY DEF SessionsOK, HeardSinceHandshake, IsReady
  <2>1. CASE <<m, q>> = <<n, p>>
    BY <1>1, <1>3, <1>5, <2>1 DEF Legal
  <2>2. CASE <<m, q>> # <<n, p>>
    <3>1. q \in Known(m) /\ q \in Node /\ peers'[m][q] = peers[m][q]
      BY <1>5, <2>2 DEF Known
    <3> QED
      BY <3>1 DEF IInv, TablesOK, SessionsOK
  <2> QED
    BY <2>1, <2>2
<1>8. /\ endpoint_to_peer' \in [Node -> [Addr -> Node \cup {None}]]
      /\ endpoint_to_peer'[n][x] = p
      /\ \A m \in Node, y \in Addr :
            <<m, y>> # <<n, x>> => endpoint_to_peer'[m][y] = endpoint_to_peer[m][y]
  BY <1>3, <1>4 DEF IInv, TablesOK
<1>9. EndpointsCoherent'
  <2> SUFFICES ASSUME NEW m \in Node, NEW y \in Addr,
                      endpoint_to_peer'[m][y] # None
               PROVE  /\ endpoint_to_peer'[m][y] \in Known(m)'
                      /\ peers'[m][endpoint_to_peer'[m][y]].endpoint = y
    BY DEF EndpointsCoherent
  <2>1. CASE <<m, y>> = <<n, x>>
    BY <1>3, <1>5, <1>6, <1>8, <2>1
  <2>2. CASE <<m, y>> # <<n, x>>
    <3> DEFINE q == endpoint_to_peer[m][y]
    <3>1. endpoint_to_peer'[m][y] = q
      BY <1>8, <2>2
    <3>2. q \in Known(m) /\ peers[m][q].endpoint = y
      BY <3>1 DEF IInv, TablesOK, EndpointsCoherent
    <3>3. q \in Node /\ <<m, q>> # <<n, p>>
      BY <1>1, <3>2 DEF Known
    <3> QED
      BY <1>5, <1>6, <3>1, <3>2, <3>3
  <2> QED
    BY <2>1, <2>2
<1>10. age' \in [Ephemeral -> Nat]
  BY <1>2, <1>4 DEF IInv, WorldOK
<1> QED
  BY <1>4, <1>5, <1>7, <1>8, <1>9, <1>10 DEF IInv, TablesOK, WorldOK, InFlight

-----------------------------------------------------------------------------

(* What a step that sends leaves alone keeps a session legal. *)
LEMMA SameTrafficLegal ==
    ASSUME NEW s, Legal(s), NEW r \in PeerSession, r.state.tag = s.state.tag,
           r.last_rx_at = s.last_rx_at, r.last_handshake_at = s.last_handshake_at
    PROVE  Legal(r)
  BY DEF Legal, HeardSinceHandshake, IsReady

(* A step of one peer that may send and changes no endpoint. *)
LEMMA PeerSends ==
    ASSUME IInv, NEW n \in Node, NEW p \in Known(n), NEW r, Legal(r),
           r.endpoint = peers[n][p].endpoint, Install(n, p, r),
           NetOK(net'), left' \in Budgets, UNCHANGED <<world, tables>>
    PROVE  IInv'
<1>1. TablesOK'
  BY KeepEndpoint DEF IInv, tables
<1> QED
  BY <1>1 DEF IInv, WorldOK, NetOK, InFlight, world, tables

(* The network of WorldOK. *)
LEMMA NetNow == ASSUME WorldOK PROVE NetOK(net)
  BY DEF WorldOK, NetOK, InFlight

(* SendInit keeps IInv. *)
LEMMA SendInitStep ==
    ASSUME IInv, NEW n \in Node, NEW p \in Node, SendInit(n, p)
    PROVE  IInv'
<1> DEFINE s == peers[n][p]
           m == WriteInit(n, p, s.state.initiator)
           copy == SendMaybeRelay(n, p, s.endpoint, m)
           r(ok) == IF ok THEN InitSent(s) ELSE s
<1>1. p \in Known(n) /\ IsInitiating(s) /\ UNCHANGED <<world, tables>>
  BY DEF SendInit
<1>2. PICK ok \in SendOutcomes :
          /\ Install(n, p, r(ok))
          /\ net' = net (+) (IF ok THEN Delivered({copy}) ELSE EmptyBag)
          /\ ChargeError(ok)
  BY DEF SendInit
<1>3. ok \in BOOLEAN /\ left' \in Budgets
  BY <1>2, ChargeErrorOK DEF IInv
<1>4. Legal(s) /\ s \in PeerSession
  BY <1>1, KnownSession DEF IInv, Legal
<1>5. m \in Message
  BY <1>1, <1>4, ReadyStates DEF InitiatorState, WriteInit, Message, InitMessage
<1>6. copy \in Datagram
  <2>1. s.endpoint \in Addr
    BY <1>4 DEF PeerSession
  <2> HIDE DEF m
  <2> QED BY <1>1, <1>5, <2>1, SendMaybeRelayOK
<1>7. NetOK(net')
  <2> HIDE DEF copy
  <2> QED BY <1>2, <1>3, <1>6, SendOK, NetNow DEF IInv
<1>8. Legal(InitSent(s)) /\ InitSent(s).endpoint = s.endpoint
  <2> HIDE DEF s
  <2>1. /\ InitSent(s) \in PeerSession /\ InitSent(s).endpoint = s.endpoint
        /\ InitSent(s).state = s.state
        /\ InitSent(s).last_rx_at = s.last_rx_at
        /\ InitSent(s).last_handshake_at = s.last_handshake_at
    BY <1>4, TimingAssumption DEF InitSent, PeerSession
  <2> QED BY <1>4, <2>1, SameTrafficLegal
<1> QED
  BY <1>1, <1>2, <1>3, <1>4, <1>7, <1>8, PeerSends

(* ClearInitTimer keeps IInv. *)
LEMMA ClearInitTimerStep ==
    ASSUME IInv, NEW n \in Node, NEW p \in Node, ClearInitTimer(n, p)
    PROVE  IInv'
<1> DEFINE s == peers[n][p]
           r == InitDone(s)
<1>1. /\ p \in Known(n) /\ Install(n, p, r)
      /\ UNCHANGED <<world, tables, net, left>>
  BY DEF ClearInitTimer
<1>2. Legal(s) /\ s \in PeerSession
  BY <1>1, KnownSession DEF IInv, Legal
<1>3. Legal(r) /\ r.endpoint = s.endpoint
  <2> HIDE DEF s
  <2>1. /\ r \in PeerSession /\ r.endpoint = s.endpoint
        /\ r.state = s.state
        /\ r.last_rx_at = s.last_rx_at
        /\ r.last_handshake_at = s.last_handshake_at
    BY <1>2 DEF InitDone, PeerSession
  <2> QED BY <1>2, <2>1, SameTrafficLegal
<1>4. NetOK(net') /\ left' \in Budgets
  BY <1>1, NetNow DEF IInv, WorldOK
<1> HIDE DEF r
<1> QED
  BY <1>1, <1>3, <1>4, PeerSends

(* DispatchTunPacket keeps IInv. *)
LEMMA DispatchTunPacketStep ==
    ASSUME IInv, NEW n \in Node, NEW p \in Node, DispatchTunPacket(n, p)
    PROVE  IInv'
<1> DEFINE s == peers[n][p]
           m == Encrypt(s.state.transport)
           copy == SendMaybeRelay(n, p, s.endpoint, m)
           ready == [s.state EXCEPT !.transport = AfterEncrypt(@)]
           tx(ok) == IF ok THEN 0 ELSE s.last_tx_at
           r(ok) == [s EXCEPT !.state = ready, !.last_tx_at = tx(ok)]
<1>1. p \in Known(n) /\ IsReady(s) /\ UNCHANGED <<world, tables>> /\ left.data > 0
  BY DEF DispatchTunPacket
<1>2. PICK ok \in SendOutcomes :
          /\ Install(n, p, r(ok))
          /\ net' = net (+) (IF ok THEN Delivered({copy}) ELSE EmptyBag)
          /\ left' = [left EXCEPT !.data = @ - 1,
                                  !.errors = IF ok THEN @ ELSE @ - 1]
  BY DEF DispatchTunPacket
<1>3. ok \in BOOLEAN /\ left' \in Budgets
  <2> DEFINE data == left.data - 1
             errors == IF ok THEN left.errors ELSE left.errors - 1
  <2>1. left \in Budgets
    BY DEF IInv, WorldOK
  <2>2. data \in Nat
    BY <1>1, <2>1 DEF Budgets
  <2>3. errors \in Nat /\ ok \in BOOLEAN
    <3>1. left.errors \in Nat
      BY <2>1 DEF Budgets
    <3>2. ok \in BOOLEAN /\ (ok \/ left.errors > 0)
      BY DEF SendOutcomes
    <3> QED
      BY <3>1, <3>2
  <2>4. left' = [left EXCEPT !.data = data, !.errors = errors]
    BY <1>2
  <2> HIDE DEF data, errors
  <2> QED
    BY <2>1, <2>2, <2>3, <2>4 DEF Budgets
<1>4. Legal(s) /\ s \in PeerSession /\ s.state \in ReadyState
  BY <1>1, KnownSession, ReadyStates DEF IInv, Legal
<1>5. m \in Message /\ AfterEncrypt(s.state.transport) \in Transport
  BY <1>4 DEF ReadyState, Transport, Encrypt, AfterEncrypt, Message, TransportMessage
<1>6. copy \in Datagram
  <2>1. s.endpoint \in Addr
    BY <1>4 DEF PeerSession
  <2> HIDE DEF m
  <2> QED BY <1>1, <1>5, <2>1, SendMaybeRelayOK
<1>7. NetOK(net')
  <2> HIDE DEF copy
  <2> QED BY <1>2, <1>3, <1>6, SendOK, NetNow DEF IInv
<1>8. Legal(r(ok)) /\ r(ok).endpoint = s.endpoint
  <2>1. ready \in PeerState /\ ready.tag = s.state.tag
    BY <1>4, <1>5 DEF ReadyState, PeerState
  <2>2. tx(ok) \in Nat \cup {None}
    BY <1>4 DEF PeerSession
  <2> DEFINE x == r(ok)
             u == tx(ok)
  <2>3. x = [s EXCEPT !.state = ready, !.last_tx_at = u]
    OBVIOUS
  <2> HIDE DEF s, ready, u, x
  <2>4. /\ x \in PeerSession /\ x.endpoint = s.endpoint
        /\ x.state.tag = s.state.tag
        /\ x.last_rx_at = s.last_rx_at
        /\ x.last_handshake_at = s.last_handshake_at
    BY <1>4, <2>1, <2>2, <2>3 DEF u, PeerSession
  <2>5. Legal(x)
    BY <1>4, <2>4, SameTrafficLegal
  <2> QED BY <2>4, <2>5 DEF x
<1> HIDE DEF r
<1> QED
  BY <1>1, <1>2, <1>3, <1>7, <1>8, PeerSends

(* RetryRekey keeps IInv. *)
LEMMA RetryRekeyStep ==
    ASSUME IInv, NEW n \in Node, NEW p \in Node, RetryRekey(n, p)
    PROVE  IInv'
<1> DEFINE s == peers[n][p]
           m == WriteInit(n, p, s.state.rehandshake.initiator)
           copy == SendMaybeRelay(n, p, s.endpoint, m)
           sent == [s EXCEPT !.state.rehandshake.next_retry_at = INIT_RETRY_INTERVAL]
<1>1. p \in Known(n) /\ IsRekeying(s) /\ UNCHANGED <<world, tables>>
  BY DEF RetryRekey, Maintained
<1>2. PICK ok \in SendOutcomes :
          /\ Install(n, p, IF ok THEN sent ELSE s)
          /\ net' = net (+) (IF ok THEN Delivered({copy}) ELSE EmptyBag)
          /\ ChargeError(ok)
  BY DEF RetryRekey
<1>3. ok \in BOOLEAN /\ left' \in Budgets
  BY <1>2, ChargeErrorOK DEF IInv
<1>4. /\ Legal(s) /\ s \in PeerSession /\ s.state \in ReadyState
      /\ s.state.rehandshake \in Rehandshake
  BY <1>1, KnownSession, ReadyStates DEF IInv, Legal, IsRekeying
<1>5. m \in Message
  BY <1>4 DEF Rehandshake, WriteInit, Message, InitMessage
<1>6. copy \in Datagram
  <2>1. s.endpoint \in Addr
    BY <1>4 DEF PeerSession
  <2> HIDE DEF m
  <2> QED BY <1>1, <1>5, <2>1, SendMaybeRelayOK
<1>7. NetOK(net')
  <2> HIDE DEF copy
  <2> QED BY <1>2, <1>3, <1>6, SendOK, NetNow DEF IInv
<1>8. Legal(sent) /\ sent.endpoint = s.endpoint
  <2> DEFINE rekey == [s.state.rehandshake EXCEPT !.next_retry_at = INIT_RETRY_INTERVAL]
             ready == [s.state EXCEPT !.rehandshake = rekey]
  <2>1. sent = [s EXCEPT !.state = ready]
    OBVIOUS
  <2>2. rekey \in Rehandshake
    BY <1>4, TimingAssumption DEF Rehandshake
  <2>3. ready \in PeerState /\ ready.tag = s.state.tag
    <3> HIDE DEF rekey
    <3> QED BY <1>4, <2>2 DEF ReadyState, PeerState
  <2> HIDE DEF s, ready, sent
  <2>4. /\ sent \in PeerSession /\ sent.endpoint = s.endpoint
        /\ sent.state.tag = s.state.tag
        /\ sent.last_rx_at = s.last_rx_at
        /\ sent.last_handshake_at = s.last_handshake_at
    BY <1>4, <2>1, <2>3 DEF PeerSession
  <2> QED BY <1>4, <2>4, SameTrafficLegal
<1> HIDE DEF sent
<1> QED
  BY <1>1, <1>2, <1>3, <1>4, <1>7, <1>8, PeerSends

(* MarkStale keeps IInv. *)
LEMMA MarkStaleStep ==
    ASSUME IInv, NEW n \in Node, NEW p \in Node, MarkStale(n, p)
    PROVE  IInv'
<1> DEFINE s == peers[n][p]
           r == [s EXCEPT !.stale = TRUE]
<1>1. /\ p \in Known(n) /\ Install(n, p, r)
      /\ UNCHANGED <<world, tables, net, left>>
  BY DEF MarkStale, Maintained
<1>2. Legal(s) /\ s \in PeerSession
  BY <1>1, KnownSession DEF IInv, Legal
<1>3. Legal(r) /\ r.endpoint = s.endpoint
  <2> HIDE DEF s
  <2>1. /\ r \in PeerSession /\ r.endpoint = s.endpoint
        /\ r.state = s.state
        /\ r.last_rx_at = s.last_rx_at
        /\ r.last_handshake_at = s.last_handshake_at
    BY <1>2 DEF PeerSession
  <2> QED BY <1>2, <2>1, SameTrafficLegal
<1>4. NetOK(net') /\ left' \in Budgets
  BY <1>1, NetNow DEF IInv, WorldOK
<1> HIDE DEF r
<1> QED
  BY <1>1, <1>3, <1>4, PeerSends

(* KeepaliveOrRekey keeps IInv, whichever of its sends fail. *)
LEMMA KeepaliveOrRekeyStep ==
    ASSUME IInv, NEW n \in Node, NEW p \in Node, KeepaliveOrRekey(n, p)
    PROVE  IInv'
<1> DEFINE s == peers[n][p]
           keepalive == KeepaliveDue(s)
           rekey == RekeyDue(n, p, s)
           probeMsg == Encrypt(s.state.transport)
           initMsg == WriteInit(n, p, Fresh)
           probe == IF keepalive
                    THEN {SendMaybeRelay(n, p, s.endpoint, probeMsg)} ELSE {}
           init == IF rekey
                   THEN {SendMaybeRelay(n, p, s.endpoint, initMsg)} ELSE {}
           transport == IF keepalive THEN AfterEncrypt(s.state.transport)
                        ELSE s.state.transport
           rehandshake(started) ==
               IF started THEN [initiator |-> Fresh, next_retry_at |-> INIT_RETRY_INTERVAL]
               ELSE None
           ready(started) == [tag |-> "Ready", transport |-> transport,
                              rehandshake |-> rehandshake(started)]
           r(probed, started) ==
               [s EXCEPT !.last_tx_at = IF probed THEN 0 ELSE @,
                         !.state = ready(started)]
<1>1. /\ p \in Known(n) /\ IsReady(s) /\ UNCHANGED <<up, addr, tables>>
      /\ rekey => Unused # {}
  BY DEF KeepaliveOrRekey, Maintained
<1>2. PICK probed, started \in BOOLEAN :
          /\ started => rekey
          /\ \E ok \in SendOutcomes : ChargeError(ok)
          /\ net' = net (+) Delivered((IF probed THEN probe ELSE {})
                                      \cup (IF started THEN init ELSE {}))
          /\ Install(n, p, r(probed, started))
          /\ age' = IF started THEN [age EXCEPT ![Fresh] = 0] ELSE age
  BY DEF KeepaliveOrRekey
<1>3. left' \in Budgets
  BY <1>2, ChargeErrorOK DEF IInv
<1>4. Legal(s) /\ s \in PeerSession /\ s.state \in ReadyState /\ s.endpoint \in Addr
  BY <1>1, KnownSession, ReadyStates DEF IInv, Legal, PeerSession
<1>5. started => rekey /\ Fresh \in Ephemeral
  BY <1>1, <1>2, FreshOK
<1>6. NetOK(net')
  <2>1. probeMsg \in Message
    BY <1>4 DEF ReadyState, Transport, Encrypt, Message, TransportMessage
  <2>2. SendMaybeRelay(n, p, s.endpoint, probeMsg) \in Datagram
    <3> HIDE DEF probeMsg
    <3> QED BY <1>1, <1>4, <2>1, SendMaybeRelayOK
  <2>3. rekey => initMsg \in Message
    BY <1>1, FreshOK DEF WriteInit, Message, InitMessage, Known
  <2>4. rekey => SendMaybeRelay(n, p, s.endpoint, initMsg) \in Datagram
    <3> HIDE DEF initMsg, rekey
    <3> QED BY <1>1, <1>4, <2>3, SendMaybeRelayOK
  <2>5. probe \subseteq Datagram /\ init \subseteq Datagram
    BY <2>2, <2>4
  <2> HIDE DEF probe, init
  <2>6. ((IF probed THEN probe ELSE {}) \cup (IF started THEN init ELSE {}))
            \in SUBSET Datagram
    BY <2>5
  <2> QED
    BY <1>2, <2>6, SendOK, NetNow DEF IInv
<1>7. Legal(r(probed, started)) /\ r(probed, started).endpoint = s.endpoint
  <2> DEFINE x == r(probed, started)
             tx == IF probed THEN 0 ELSE s.last_tx_at
             state == ready(started)
             pending == rehandshake(started)
  <2>1. transport \in Transport
    BY <1>4 DEF ReadyState, Transport, AfterEncrypt
  <2>2. pending \in Rehandshake \cup {None}
    BY <1>5, TimingAssumption DEF Rehandshake
  <2>3. state \in PeerState /\ state.tag = s.state.tag
    <3>1. state = [tag |-> "Ready", transport |-> transport, rehandshake |-> pending]
      OBVIOUS
    <3> HIDE DEF transport, pending, state
    <3> QED
      BY <1>1, <2>1, <2>2, <3>1 DEF PeerState, ReadyState, IsReady
  <2>4. tx \in Nat \cup {None}
    BY <1>4 DEF PeerSession
  <2>5. x = [s EXCEPT !.last_tx_at = tx, !.state = state]
    OBVIOUS
  <2> HIDE DEF s, x, tx, state
  <2>6. /\ x \in PeerSession /\ x.endpoint = s.endpoint
        /\ x.state.tag = s.state.tag
        /\ x.last_rx_at = s.last_rx_at
        /\ x.last_handshake_at = s.last_handshake_at
    BY <1>4, <2>3, <2>4, <2>5 DEF PeerSession
  <2>7. Legal(x)
    BY <1>4, <2>6, SameTrafficLegal
  <2> QED BY <2>6, <2>7 DEF x
<1>8. age' \in [Ephemeral -> Nat]
  BY <1>2, <1>5 DEF IInv, WorldOK
<1> HIDE DEF r
<1>9. TablesOK'
  BY <1>1, <1>2, <1>7, KeepEndpoint DEF IInv, tables
<1> QED
  BY <1>1, <1>3, <1>6, <1>8, <1>9 DEF IInv, WorldOK, NetOK, InFlight, tables

(* Every step of a manager on its own keeps IInv. *)
LEMMA PeerStepStep ==
    ASSUME IInv, NEW n \in Node, NEW p \in Node, PeerStep(n, p)
    PROVE  IInv'
  BY AddPeerStep, SendInitStep, ClearInitTimerStep, DispatchTunPacketStep,
     RetryRekeyStep, MarkStaleStep, KeepaliveOrRekeyStep
     DEF PeerStep, Maintenance

-----------------------------------------------------------------------------

(* Tick keeps IInv. *)
LEMMA TickStep ==
    ASSUME IInv, Tick
    PROVE  IInv'
<1>1. /\ peers' = [n \in Node |-> [p \in Node |->
                      IF p \in Known(n) THEN Aged(peers[n][p]) ELSE Absent]]
      /\ age' = [e \in Ephemeral |->
                   IF e \in Timestamped THEN Older(age[e], REPLAY_WINDOW) ELSE 0]
      /\ UNCHANGED <<up, addr, tables, net>>
  BY DEF Tick
<1>2. ASSUME NEW n \in Node, NEW p \in Known(n)
      PROVE  /\ p \in Node /\ peers'[n][p] \in PeerSession
             /\ peers'[n][p] # Absent
             /\ HeardSinceHandshake(peers'[n][p])
             /\ peers'[n][p].endpoint = peers[n][p].endpoint
  <2>1. p \in Node /\ Legal(peers[n][p])
    BY KnownSession DEF IInv
  <2>2. Legal(Aged(peers[n][p])) /\ Aged(peers[n][p]).endpoint = peers[n][p].endpoint
    BY <2>1, AgedLegal
  <2> QED
    BY <1>1, <2>1, <2>2, NoneAssumption DEF Legal
<1>3. \A n, p \in Node : p \notin Known(n) => peers'[n][p] = Absent
  BY <1>1
<1>4. \A n \in Node : Known(n)' = Known(n)
  BY <1>2, <1>3 DEF Known
<1>5. peers' \in [Node -> [Node -> PeerSession \cup {Absent}]]
  <2>1. \A n, p \in Node : (IF p \in Known(n) THEN Aged(peers[n][p]) ELSE Absent)
                               \in PeerSession \cup {Absent}
    BY <1>1, <1>2
  <2> QED
    BY <1>1, <2>1
<1>6. SessionsOK'
  <2> SUFFICES ASSUME NEW n \in Node, NEW p \in Known(n)
               PROVE  p # n /\ Config[n][p] # None /\ HeardSinceHandshake(peers'[n][p])
    BY <1>4 DEF SessionsOK, HeardSinceHandshake, IsReady
  <2> QED
    BY <1>2 DEF IInv, TablesOK, SessionsOK
<1>7. EndpointsCoherent'
  <2> SUFFICES ASSUME NEW n \in Node, NEW x \in Addr,
                      endpoint_to_peer[n][x] # None
               PROVE  /\ endpoint_to_peer[n][x] \in Known(n)
                      /\ peers'[n][endpoint_to_peer[n][x]].endpoint = x
    BY <1>1, <1>4 DEF EndpointsCoherent, tables
  <2> DEFINE p == endpoint_to_peer[n][x]
  <2>1. p \in Known(n) /\ peers[n][p].endpoint = x
    BY DEF IInv, TablesOK, EndpointsCoherent
  <2> HIDE DEF p
  <2>2. peers'[n][p].endpoint = peers[n][p].endpoint
    BY <1>2, <2>1
  <2> QED
    BY <2>1, <2>2 DEF p
<1>8. age' \in [Ephemeral -> Nat]
  <2>1. age \in [Ephemeral -> Nat]
    BY DEF IInv, WorldOK
  <2>2. \A e \in Ephemeral : Older(age[e], REPLAY_WINDOW) \in Nat
    BY <2>1, ReplayWindowAssumption, NoneAssumption, OlderTyped
  <2> QED
    BY <1>1, <2>2
<1>9. left' \in Budgets
  <2>1. left \in Budgets
    BY DEF IInv, WorldOK
  <2>2. CASE EndlessTime
    BY <2>1, <2>2 DEF Tick
  <2>3. CASE ~EndlessTime
    <3> DEFINE k == left.ticks - 1
    <3>1. left.ticks > 0 /\ left' = [left EXCEPT !.ticks = k]
      BY <2>3 DEF Tick
    <3>2. k \in Nat
      BY <2>1, <3>1 DEF Budgets
    <3> HIDE DEF k
    <3> QED
      BY <2>1, <3>1, <3>2 DEF Budgets
  <2> QED
    BY <2>2, <2>3
<1> QED
  BY <1>1, <1>5, <1>6, <1>7, <1>8, <1>9
     DEF IInv, TablesOK, WorldOK, InFlight, tables

(* Loss, duplication and datagrams to nobody keep IInv. *)
LEMMA NetworkStep ==
    ASSUME IInv, NEW d \in InFlight, Lose(d) \/ Duplicate(d) \/ Vanish(d)
    PROVE  IInv'
<1>1. UNCHANGED <<world, peers, tables>>
  BY DEF Lose, Duplicate, Vanish
<1>2. NetOK(net')
  <2>1. NetOK(net (+) SetToBag({d}))
    BY BagOfSet, BagSum, NetNow DEF IInv, WorldOK, NetOK
  <2> QED
    BY <2>1, ConsumeOK DEF Lose, Duplicate, Vanish, IInv
<1>3. left' \in Budgets
  <2>1. left \in Budgets
    BY DEF IInv, WorldOK
  <2>2. CASE Lose(d)
    <3> DEFINE k == left.loss - 1
    <3>1. k \in Nat /\ left' = [left EXCEPT !.loss = k]
      BY <2>1, <2>2 DEF Lose, Budgets
    <3> HIDE DEF k
    <3> QED BY <2>1, <3>1 DEF Budgets
  <2>3. CASE Duplicate(d)
    <3> DEFINE k == left.dup - 1
    <3>1. k \in Nat /\ left' = [left EXCEPT !.dup = k]
      BY <2>1, <2>3 DEF Duplicate, Budgets
    <3> HIDE DEF k
    <3> QED BY <2>1, <3>1 DEF Budgets
  <2>4. CASE Vanish(d)
    BY <2>1, <2>4 DEF Vanish
  <2> QED
    BY <2>2, <2>3, <2>4
<1> QED
  BY <1>1, <1>2, <1>3, UnchangedTables
     DEF IInv, WorldOK, NetOK, InFlight, world, tables

(* Rebind keeps IInv. *)
LEMMA RebindStep ==
    ASSUME IInv, NEW n \in Node, NEW a \in Addr, Rebind(n, a)
    PROVE  IInv'
<1> DEFINE k == left.rebinds - 1
<1>1. /\ k \in Nat /\ left' = [left EXCEPT !.rebinds = k]
      /\ addr' = [addr EXCEPT ![n] = a]
      /\ UNCHANGED <<up, age, peers, tables, net>>
  BY DEF Rebind, IInv, WorldOK, Budgets
<1> HIDE DEF k
<1>2. left' \in Budgets
  BY <1>1 DEF IInv, WorldOK, Budgets
<1> QED
  BY <1>1, <1>2, UnchangedTables DEF IInv, WorldOK, InFlight, tables

-----------------------------------------------------------------------------

(* IInv holds initially. *)
LEMMA InitHolds == Init => IInv
<1> SUFFICES ASSUME Init PROVE IInv
  OBVIOUS
<1>1. \A n \in Node : Known(n) = {}
  BY DEF Init, Known
<1>2. /\ peers \in [Node -> [Node -> PeerSession \cup {Absent}]]
      /\ endpoint_to_peer \in [Node -> [Addr -> Node \cup {None}]]
      /\ learned_endpoints \in [Node -> [Node -> Addr \cup {None}]]
  BY DEF Init
<1>3. SessionsOK /\ EndpointsCoherent
  BY <1>1 DEF Init, SessionsOK, EndpointsCoherent
<1>4. IsABag(net) /\ InFlight \subseteq Datagram
  BY BagEmpty DEF Init, InFlight
<1>5. up \subseteq Node /\ addr \in [Node -> Addr] /\ age \in [Ephemeral -> Nat]
      /\ left \in Budgets
  BY ConfigAssumption, TimingAssumption DEF Init
<1> QED
  BY <1>2, <1>3, <1>4, <1>5 DEF IInv, TablesOK, WorldOK

(* IInv is inductive: one step per disjunct of Next. *)
LEMMA NextKeeps == IInv /\ [Next]_vars => IInv'
<1> SUFFICES ASSUME IInv, [Next]_vars PROVE IInv'
  OBVIOUS
<1>1. CASE UNCHANGED vars
  BY <1>1, UnchangedTables DEF vars, IInv, WorldOK, InFlight
<1>2. ASSUME NEW n \in Node, Start(n) \/ Stop(n) PROVE IInv'
  BY <1>2, StartStep, StopStep
<1>3. ASSUME NEW n \in Node, NEW p \in Node, PeerStep(n, p) PROVE IInv'
  BY <1>3, PeerStepStep
<1>4. ASSUME NEW n \in Node, NEW d \in InFlight, Receive(n, d) PROVE IInv'
  BY <1>4, ReceiveStep
<1>5. ASSUME NEW d \in InFlight, Lose(d) \/ Duplicate(d) \/ Vanish(d) PROVE IInv'
  BY <1>5, NetworkStep
<1>6. ASSUME NEW n \in Node, NEW a \in Addr, Rebind(n, a) PROVE IInv'
  BY <1>6, RebindStep
<1>7. CASE Tick
  BY <1>7, TickStep
<1> QED
  BY <1>1, <1>2, <1>3, <1>4, <1>5, <1>6, <1>7 DEF Next

(* The order of the two ages and 120 s <= 180 s give the property. *)
LEMMA SilenceFromIInv == IInv => SilenceMeansOldKey
<1> SUFFICES ASSUME IInv, NEW q \in ReadySessions, SilentTooLong(Session(q))
             PROVE  Passed(Session(q).last_handshake_at, REKEY_AFTER)
  BY DEF SilenceMeansOldKey
<1> DEFINE s == Session(q)
<1>1. q[1] \in Node /\ q[2] \in Known(q[1]) /\ IsReady(s)
  BY DEF ReadySessions, Sessions
<1>2. HeardSinceHandshake(s)
  BY <1>1 DEF IInv, TablesOK, SessionsOK, Session
<1> HIDE DEF s
<1>3. /\ s.last_rx_at \in Nat /\ s.last_handshake_at \in Nat
      /\ \/ s.last_rx_at <= s.last_handshake_at
         \/ s.last_handshake_at > REKEY_AFTER
  BY <1>1, <1>2 DEF HeardSinceHandshake
<1>4. s.last_rx_at > REJECT_AFTER
  BY DEF s, SilentTooLong, Passed
<1>5. s.last_handshake_at > REKEY_AFTER /\ s.last_handshake_at # None
  BY <1>3, <1>4, TimingAssumption, RekeyBeforeReject, NoneAssumption
<1> QED
  BY <1>5 DEF s, Passed

-----------------------------------------------------------------------------

(* The inductive invariant holds in every reachable state. *)
THEOREM Invariance == Spec => []IInv
  BY InitHolds, NextKeeps, PTL DEF Spec

(* Whatever the nodes, their configuration, the order of events and the
   faults, every variable of the managers and of the network keeps its
   type. *)
THEOREM TypeCorrect == Spec => []TypeOK
  BY Invariance, IInvTypeOK, PTL

(* In every execution, an address in a manager's endpoint_to_peer belongs to
   the peer whose session has it as its endpoint: the statements of add_peer
   and handle_incoming that write the two never drift apart. *)
THEOREM EndpointsStayCoherent == Spec => []EndpointsCoherent
<1>1. IInv => EndpointsCoherent
  BY DEF IInv, TablesOK
<1> QED
  BY <1>1, Invariance, PTL

(* In every execution, a Ready peer that maintenance() would mark stale is
   one whose key is past rekey_after: no young key is ever given up. *)
THEOREM OnlyOldKeysGoStale == Spec => []SilenceMeansOldKey
  BY SilenceFromIInv, Invariance, PTL
=============================================================================
