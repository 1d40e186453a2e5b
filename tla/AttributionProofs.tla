------------------------- MODULE AttributionProofs -------------------------
(***************************************************************************)
(* Whom a datagram is attributed to, for every mesh whose addresses tell   *)
(* its nodes apart.                                                        *)
(*                                                                         *)
(* handle_incoming goes from a source address to a peer, handle_relay from *)
(* the key in a header to a peer, and neither compares that peer with the  *)
(* one the handshake authenticates.  The argument is about addresses only: *)
(* what a session has as its endpoint, and from which address to which a   *)
(* message travels.                                                        *)
(***************************************************************************)
EXTENDS HandshakeProofs

(* A direct peer is configured with the address it sends from, a peer behind
   a relay with the placeholder, and only a node behind a relay roams: its
   datagrams are all RELAYs. *)
AddressesIdentify ==
    /\ \A n, p \in Node : HomeAddr[n] = HomeAddr[p] => n = p
    /\ \A n, p \in Node : (n # p /\ Config[n][p] # None) =>
          /\ Config[n][p].endpoint = HomeAddr[p] \/ Config[n][p].endpoint = Unspecified
          /\ p \in Roaming => Config[n][p].endpoint = Unspecified
          /\ n \in Roaming => Config[n][p].via_relay # None

(* The flags that lead to such a configuration: a node without --relay stays
   where it is and advertises where that is, one with --relay advertises the
   wildcard address. *)
PlainFlags(flags) ==
    /\ \A n, p \in Node : HomeAddr[n] = HomeAddr[p] => n = p
    /\ \A n \in Node :
          IF flags[n].relay = None
          THEN n \notin Roaming /\ D!Advertised(flags[n]) = HomeAddr[n]
          ELSE D!Advertised(flags[n]) = Unspecified
    /\ \A n, p \in Node : n # p =>
          Config[n][p] \in {None, D!PeerConfigFor(flags[n], D!Registered(flags[p]))}

(* What cmd_up makes of such flags identifies every peer by its address. *)
LEMMA FlagsIdentify ==
  ASSUME NEW flags, PlainFlags(flags)
  PROVE  AddressesIdentify
  <1> SUFFICES ASSUME NEW n \in Node, NEW p \in Node, n # p, Config[n][p] # None
               PROVE  /\ \/ Config[n][p].endpoint = HomeAddr[p]
                         \/ Config[n][p].endpoint = Unspecified
                      /\ p \in Roaming => Config[n][p].endpoint = Unspecified
                      /\ n \in Roaming => Config[n][p].via_relay # None
    BY DEF AddressesIdentify, PlainFlags
  <1> DEFINE there == D!Registered(flags[p])
  <1>1. Config[n][p] = D!PeerConfigFor(flags[n], there)
    BY DEF PlainFlags
  <1>2. /\ Config[n][p].endpoint = there.last_endpoint
        /\ Config[n][p].via_relay =
              IF there.via_relay # None THEN there.via_relay ELSE flags[n].relay
    BY <1>1 DEF D!PeerConfigFor, D!ViaRelay
  <1>3. there.last_endpoint = D!Advertised(flags[p])
    BY DEF D!Registered
  <1> HIDE DEF there
  <1> QED BY <1>2, <1>3 DEF PlainFlags

-----------------------------------------------------------------------------
(* The inductive invariant. *)

(* Where p is for those who address it directly. *)
Homes(p) == {Unspecified} \cup (IF p \in Roaming THEN {} ELSE {HomeAddr[p]})

(* Nobody takes the address of a node that stays. *)
AddressesOK ==
    \A n \in Node :
        /\ addr[n] # Unspecified
        /\ n \notin Roaming => addr[n] = HomeAddr[n]
        /\ \A p \in Node \ Roaming : addr[n] = HomeAddr[p] => n = p

(* A session with p: it is where p is and its transport was agreed with p. *)
SessionWith(p, s) ==
    /\ s.endpoint \in Homes(p)
    /\ IsReady(s) => s.state.transport.remote = p

(* A handshake message travels from and to those it names, or the relay header
   names them. *)
IsHandshake(m) == m.type \in {"INIT", "RESPONSE"}

TrueToAddress(d) ==
    /\ IsHandshake(d.msg) =>
          /\ d.msg.from \notin Roaming /\ d.src = HomeAddr[d.msg.from]
          /\ d.msg.to \notin Roaming /\ d.dst = HomeAddr[d.msg.to]
    /\ (d.msg.type = "RELAY" /\ IsHandshake(d.msg.inner)) =>
          d.msg.inner.from = d.msg.from /\ d.msg.inner.to = d.msg.dest

AttributionOK ==
    /\ AddressesOK
    /\ \A q \in Sessions : SessionWith(q[2], Session(q))
    /\ \A d \in InFlight : TrueToAddress(d)

-----------------------------------------------------------------------------
(* Datagrams. *)

(* A send adds at most the one datagram, and only if somebody has the address
   it goes to. *)
LEMMA DatagramsMaybeSent ==
  ASSUME IInv, NEW B, IsABag(B), BagToSet(B) \subseteq InFlight,
         NEW x, NEW ok, net' = B (+) (IF ok THEN Delivered({x}) ELSE EmptyBag)
  PROVE  \A d \in InFlight' :
            d \in InFlight \/ (d = x /\ \E k \in Node : addr[k] = x.dst)
  <1>1. CASE ok
    <2>1. /\ IsABag(Delivered({x}))
          /\ BagToSet(Delivered({x})) = {d \in {x} : \E k \in Node : addr[k] = d.dst}
      BY BagOfSet DEF Delivered
    <2>2. InFlight' = BagToSet(B) \cup BagToSet(Delivered({x}))
      BY <1>1, <2>1, BagSum DEF InFlight
    <2> QED BY <2>1, <2>2
  <1>2. CASE ~ok
    <2>1. InFlight' = BagToSet(B) \cup BagToSet(EmptyBag)
      BY <1>2, BagEmpty, BagSum DEF InFlight
    <2> QED BY <2>1, BagEmpty
  <1> QED BY <1>1, <1>2

(* Receiving a datagram adds none. *)
LEMMA DatagramsConsumed ==
  ASSUME IInv, NEW d, net' = Consume(d)
  PROVE  InFlight' \subseteq InFlight
  BY BagDifference DEF IInv, WorldOK, InFlight, Consume

(* What the invariants say of one session. *)
LEMMA KnownTrue ==
  ASSUME IInv, AttributionOK, NEW n \in Node, NEW p \in Known(n)
  PROVE  /\ p \in Node /\ p # n /\ Config[n][p] # None
         /\ peers[n][p] \in PeerSession
         /\ SessionWith(p, peers[n][p])
  <1>1. p \in Node /\ p # n /\ peers[n][p] \in PeerSession
    BY KnownSession DEF IInv, Legal
  <1>2. Config[n][p] # None
    BY DEF IInv, TablesOK, SessionsOK
  <1>3. <<n, p>> \in Sessions
    BY <1>1 DEF Sessions
  <1>4. SessionWith(<<n, p>>[2], Session(<<n, p>>))
    BY <1>3 DEF AttributionOK
  <1>5. <<n, p>>[2] = p /\ Session(<<n, p>>) = peers[n][p]
    BY DEF Session
  <1> QED BY <1>1, <1>2, <1>4, <1>5

(* What a node sends to a peer is true to its address, if it reaches anybody. *)
LEMMA SentTrue ==
  ASSUME IInv, AttributionOK, AddressesIdentify,
         NEW n \in Node, NEW p \in Known(n), NEW m \in Message,
         m.type # "RESPONSE", m.type = "INIT" => m.from = n /\ m.to = p,
         NEW x, x = SendMaybeRelay(n, p, peers[n][p].endpoint, m),
         \E k \in Node : addr[k] = x.dst
  PROVE  TrueToAddress(x)
  <1>1. p \in Node /\ p # n /\ Config[n][p] # None /\ m.type # "RELAY"
    BY KnownTrue, MessageTypes
  <1>2. peers[n][p].endpoint \in Homes(p)
    BY KnownTrue DEF SessionWith
  <1>3. CASE Config[n][p].via_relay = None
    <2>1. /\ x.src = addr[n] /\ x.dst = peers[n][p].endpoint /\ x.msg = m
          /\ n \notin Roaming
      BY <1>1, <1>3 DEF SendMaybeRelay, AddressesIdentify
    <2>2. x.src = HomeAddr[n] /\ x.dst # Unspecified
      BY <2>1 DEF AttributionOK, AddressesOK
    <2>3. x.dst = HomeAddr[p] /\ p \notin Roaming
      BY <1>2, <2>1, <2>2 DEF Homes
    <2> QED BY <1>1, <2>1, <2>2, <2>3 DEF TrueToAddress, IsHandshake
  <1>4. CASE Config[n][p].via_relay # None
    <2>1. x.msg = [type |-> "RELAY", from |-> n, dest |-> p, inner |-> m]
      BY <1>4 DEF SendMaybeRelay
    <2> QED BY <2>1 DEF TrueToAddress, IsHandshake
  <1> QED BY <1>3, <1>4

(* The peer a direct datagram is attributed to is where it came from, and the
   author of a handshake message; mac1 never has a say, because who gets an
   INIT is who it was written for. *)
LEMMA SenderTrue ==
  ASSUME IInv, AttributionOK, AddressesIdentify,
         NEW n \in Node, NEW d \in InFlight, Arrives(n, d), d.msg.type # "RELAY",
         NEW p, p = Sender(n, d.src, d.msg), p # None
  PROVE  /\ p \in Known(n) /\ d.src \in Addr
         /\ peers[n][p].endpoint = d.src /\ d.src \in Homes(p)
         /\ d.msg.type = "INIT" => n \notin Roaming
         /\ IsHandshake(d.msg) => d.msg.from = p
  <1>1. p \in Known(n) /\ d.src \in Addr /\ p \in Node
    BY SenderKnown, DatagramTypes DEF IInv, Known
  <1>2. TrueToAddress(d) /\ d.dst = addr[n]
    BY DEF AttributionOK, Arrives
  <1>3. ASSUME d.msg.type = "INIT"
        PROVE  d.msg.to = n /\ n \notin Roaming
    <2>1. d.msg.to \in Node \ Roaming /\ addr[n] = HomeAddr[d.msg.to]
      <3>1. d.msg.to \in Node
        BY <1>3, DatagramTypes DEF IInv, InitMessage
      <3> QED BY <1>2, <1>3, <3>1 DEF TrueToAddress, IsHandshake
    <2> QED BY <2>1 DEF AttributionOK, AddressesOK
  <1>4. n \notin Known(n)
    BY KnownSession DEF IInv
  <1>5. endpoint_to_peer[n][d.src] = p
    BY <1>3, <1>4 DEF Sender
  <1>6. peers[n][p].endpoint = d.src
    BY <1>1, <1>5 DEF IInv, TablesOK, EndpointsCoherent
  <1>7. d.src \in Homes(p)
    BY <1>1, <1>6, KnownTrue DEF SessionWith
  <1>8. ASSUME IsHandshake(d.msg)
        PROVE  d.msg.from = p
    <2>1. d.msg.from \in Node
      BY <1>8, DatagramTypes DEF IInv, IsHandshake, InitMessage, ResponseMessage
    <2>2. d.src = HomeAddr[d.msg.from] /\ HomeAddr[d.msg.from] # Unspecified
      BY <1>2, <1>8, <2>1, ConfigAssumption DEF TrueToAddress
    <2>3. d.src = HomeAddr[p]
      BY <1>7, <2>2 DEF Homes
    <2> QED BY <1>1, <2>1, <2>2, <2>3 DEF AddressesIdentify
  <1> QED BY <1>1, <1>3, <1>6, <1>7, <1>8

-----------------------------------------------------------------------------
(* Sessions: no handler makes a session with p one with somebody else. *)

(* Nothing but the timers, counters or nonces of a session has changed. *)
LEMMA SameSession ==
  ASSUME NEW p, NEW s, SessionWith(p, s), NEW r, r.endpoint = s.endpoint,
         IsReady(r) => /\ IsReady(s)
                       /\ r.state.transport.remote = s.state.transport.remote
  PROVE  SessionWith(p, r)
  BY DEF SessionWith

(* handle_response: the transport it may install is with who wrote the RESPONSE. *)
LEMMA ResponseTrue ==
  ASSUME NEW p, NEW s \in PeerSession, SessionWith(p, s),
         NEW m \in ResponseMessage, m.from = p
  PROVE  SessionWith(p, HandleResponse(s, m))
  <1> DEFINE t == Initiated(m)
             done == [s EXCEPT !.state = Established(t), !.last_handshake_at = 0]
             init == [s EXCEPT !.state = [tag |-> "Init"]]
             aborted == [s EXCEPT !.state.rehandshake = None]
             ready == [s.state EXCEPT !.rehandshake = None]
  <1>1. t.remote = p
    BY DEF Initiated, NewTransport
  <1>2. SessionWith(p, done)
    <2> HIDE DEF t
    <2>1. done.endpoint = s.endpoint /\ done.state = Established(t)
      BY DEF PeerSession
    <2> HIDE DEF done
    <2> QED BY <1>1, <2>1 DEF SessionWith, Established
  <1>3. SessionWith(p, init)
    <2>1. init.endpoint = s.endpoint /\ init.state = [tag |-> "Init"]
      BY DEF PeerSession
    <2> HIDE DEF init
    <2> QED BY <2>1 DEF SessionWith, IsReady
  <1>4. ASSUME IsRekeying(s) PROVE SessionWith(p, aborted)
    <2>1. s.state \in ReadyState /\ IsReady(s)
      BY <1>4, ReadyStates DEF IsRekeying
    <2>2. ready.transport = s.state.transport
      BY <2>1 DEF ReadyState
    <2>3. aborted = [s EXCEPT !.state = ready]
      OBVIOUS
    <2> HIDE DEF ready
    <2>4. aborted.endpoint = s.endpoint /\ aborted.state = ready
      BY <2>3 DEF PeerSession
    <2> HIDE DEF aborted
    <2> QED BY <2>1, <2>2, <2>4, SameSession
  <1>5. \/ HandleResponse(s, m) \in {done, init}
        \/ IsRekeying(s) /\ HandleResponse(s, m) = aborted
    BY DEF HandleResponse, FirstResponse, RekeyResponse
  <1> HIDE DEF done, init, aborted
  <1> QED BY <1>2, <1>3, <1>4, <1>5

(* Decrypting moves a nonce. *)
LEMMA RelayedTransportTrue ==
  ASSUME NEW p, NEW s \in PeerSession, SessionWith(p, s), NEW m
  PROVE  SessionWith(p, HandleRelayedTransport(s, m))
  <1> DEFINE t == AfterDecrypt(s.state.transport)
             ready == [s.state EXCEPT !.transport = t]
             r == [s EXCEPT !.state = ready]
  <1>1. ASSUME IsReady(s) PROVE SessionWith(p, r)
    <2>1. s.state \in ReadyState
      BY <1>1, ReadyStates
    <2>2. t.remote = s.state.transport.remote
      BY <2>1 DEF ReadyState, Transport, AfterDecrypt
    <2> HIDE DEF t
    <2>3. ready.transport = t
      BY <2>1 DEF ReadyState
    <2> HIDE DEF ready
    <2>4. r.endpoint = s.endpoint /\ r.state = ready
      BY DEF PeerSession
    <2> HIDE DEF r
    <2> QED BY <1>1, <2>2, <2>3, <2>4, SameSession
  <1>2. HandleRelayedTransport(s, m) = s \/ (IsReady(s) /\ HandleRelayedTransport(s, m) = r)
    BY DEF HandleRelayedTransport
  <1> QED BY <1>1, <1>2

(* A datagram that is counted. *)
LEMMA HeardTrue ==
  ASSUME IInv, AttributionOK, NEW n \in Node, NEW p \in Known(n), NEW src \in Homes(p)
  PROVE  /\ SessionWith(p, Heard(n, p, src))
         /\ SessionWith(p, HeardRelayed(n, p))
  <1>1. SessionWith(p, peers[n][p]) /\ peers[n][p] \in PeerSession
    BY KnownTrue
  <1>2. /\ Heard(n, p, src).endpoint = src
        /\ Heard(n, p, src).state = peers[n][p].state
        /\ HeardRelayed(n, p).endpoint = peers[n][p].endpoint
        /\ HeardRelayed(n, p).state = peers[n][p].state
    BY <1>1 DEF Heard, HeardRelayed, PeerSession
  <1> QED BY <1>1, <1>2 DEF SessionWith, IsReady

-----------------------------------------------------------------------------
(* The steps. *)

(* One session changes, and what is sent is true to its address. *)
LEMMA OneSessionTrue ==
  ASSUME IInv, AttributionOK, NEW n \in Node, NEW p \in Node,
         NEW s, s # Absent, SessionWith(p, s), Install(n, p, s), addr' = addr,
         \A d \in InFlight' : d \in InFlight \/ TrueToAddress(d)
  PROVE  AttributionOK'
  <1>1. /\ Sessions' = Sessions \cup {<<n, p>>}
        /\ Session(<<n, p>>)' = s
        /\ \A u \in Sessions : u # <<n, p>> => Session(u)' = Session(u)
    BY OneSession
  <1>2. \A q \in Sessions' : SessionWith(q[2], Session(q)')
    BY <1>1 DEF AttributionOK
  <1>3. \A q \in Sessions' : SessionWith(q[2], Session(q))'
    BY <1>2 DEF SessionWith, IsReady
  <1>4. \A d \in InFlight' : TrueToAddress(d)
    BY DEF AttributionOK
  <1>5. AddressesOK'
    BY DEF AttributionOK, AddressesOK
  <1> QED BY <1>3, <1>4, <1>5 DEF AttributionOK

(* No session changes, or some end. *)
LEMMA FewerSessionsTrue ==
  ASSUME AttributionOK, AddressesOK', InFlight' \subseteq InFlight,
         \A q \in Sessions' : q \in Sessions /\ Session(q)' = Session(q)
  PROVE  AttributionOK'
  <1>1. \A q \in Sessions' : SessionWith(q[2], Session(q))'
    BY DEF AttributionOK, SessionWith, IsReady
  <1> QED BY <1>1 DEF AttributionOK

(* An INIT written by the peer it is attributed to, counted and answered. *)
LEMMA AnswerTrue ==
  ASSUME IInv, AttributionOK, NEW n \in Node, NEW p \in Known(n),
         NEW s, LegalHeard(s), SessionWith(p, s),
         NEW d \in InFlight, NEW m \in InitMessage, m.from = p,
         NEW relayed \in BOOLEAN,
         ~relayed => n \notin Roaming /\ p \notin Roaming /\ d.src = HomeAddr[p],
         AnswerInit(n, p, s, d, m, relayed), addr' = addr
  PROVE  AttributionOK'
  <1> DEFINE answers == IsResponding(s) \/ (IsReady(s) /\ ~relayed)
             accepts == /\ ConsumesInit(n, m, age[m.eph])
                        /\ IsResponding(s) => ~s.state.spent
             t == NewTransport(Fresh, "responder", m.from)
             response == WriteResponse(n, m, Fresh)
             reply == [src |-> addr[n], dst |-> d.src,
                       msg |-> IF relayed
                               THEN [type |-> "RELAY", from |-> n, dest |-> p,
                                     inner |-> response]
                               ELSE response]
             spent == [s EXCEPT !.state.spent = TRUE]
             unspent == [s EXCEPT !.state = FreshResponder]
  <1>1. s \in PeerSession /\ s # Absent /\ p \in Node
    BY NoneAssumption DEF LegalHeard, Legal, Known
  <1>2. TrueToAddress(reply)
    <2>1. ~relayed => addr[n] = HomeAddr[n]
      BY DEF AttributionOK, AddressesOK
    <2>2. /\ reply.src = addr[n] /\ reply.dst = d.src
          /\ reply.msg = IF relayed THEN [type |-> "RELAY", from |-> n, dest |-> p,
                                          inner |-> response]
                         ELSE response
          /\ response.type = "RESPONSE" /\ response.from = n /\ response.to = p
      BY DEF WriteResponse
    <2> HIDE DEF reply, response
    <2> QED BY <2>1, <2>2 DEF TrueToAddress, IsHandshake
  <1>3. ASSUME IsResponding(s)
        PROVE  /\ SessionWith(p, spent) /\ spent # Absent
               /\ SessionWith(p, unspent) /\ unspent # Absent
    <2>1. Legal(spent) /\ Legal(unspent)
      BY <1>1, <1>3, ResponderLegal
    <2>2. spent.endpoint = s.endpoint /\ unspent.endpoint = s.endpoint
      BY <1>1, <1>3, ResponderLegal
    <2>3. ~IsReady(spent) /\ ~IsReady(unspent)
      <3> DEFINE state == [s.state EXCEPT !.spent = TRUE]
      <3>1. s.state \in ResponderState
        BY <1>1, <1>3, ReadyStates
      <3>2. state.tag = "HandshakingAsResponder"
        BY <3>1 DEF ResponderState
      <3>3. spent = [s EXCEPT !.state = state]
        OBVIOUS
      <3> HIDE DEF state
      <3>4. spent.state = state /\ unspent.state = FreshResponder
        BY <1>1, <3>3 DEF PeerSession
      <3> QED BY <3>2, <3>4 DEF IsReady, FreshResponder
    <2>4. spent # Absent /\ unspent # Absent
      BY <2>1, NoneAssumption DEF Legal
    <2> HIDE DEF spent, unspent
    <2> QED BY <2>2, <2>3, <2>4, SameSession
  <1>4. CASE ~(answers /\ accepts)
    <2>1. net' = Consume(d) /\ Install(n, p, IF IsResponding(s) THEN unspent ELSE s)
      BY <1>4 DEF AnswerInit
    <2>2. InFlight' \subseteq InFlight
      BY <2>1, DatagramsConsumed
    <2> HIDE DEF spent, unspent
    <2> QED BY <1>1, <1>3, <2>1, <2>2, OneSessionTrue
  <1>5. CASE answers /\ accepts
    <2>1. PICK ok \in BOOLEAN :
             /\ net' = Consume(d) (+) (IF ok THEN Delivered({reply}) ELSE EmptyBag)
             /\ Install(n, p,
                  CASE IsReady(s) /\ ok -> RekeyAsResponder(s, t)
                    [] IsReady(s) /\ ~ok -> s
                    [] ~IsReady(s) /\ ok -> BecomeReady(s, t)
                    [] OTHER -> spent)
      BY <1>5 DEF AnswerInit, SendOutcomes
    <2>2. \A x \in InFlight' : x \in InFlight \/ TrueToAddress(x)
      <3> HIDE DEF reply
      <3> QED BY <1>2, <2>1, Consumed, DatagramsMaybeSent
    <2>3. Fresh \in Ephemeral
      BY <1>5, FreshOK DEF AnswerInit
    <2>4. t \in Transport /\ t.remote = p
      BY <1>1, <2>3 DEF NewTransport, Transport, Side
    <2>5. /\ SessionWith(p, BecomeReady(s, t))
          /\ BecomeReady(s, t) # Absent
      <3> HIDE DEF t
      <3>1. Legal(BecomeReady(s, t)) /\ BecomeReady(s, t).endpoint = s.endpoint
        BY <1>1, <2>4, BecomeReadyLegal
      <3>2. BecomeReady(s, t).state = Established(t)
        BY <1>1 DEF BecomeReady, PeerSession
      <3> QED BY <2>4, <3>1, <3>2, NoneAssumption DEF SessionWith, Established, Legal
    <2>6. ASSUME IsReady(s)
          PROVE  /\ SessionWith(p, RekeyAsResponder(s, t))
                 /\ RekeyAsResponder(s, t) # Absent
      <3> HIDE DEF t
      <3> DEFINE ready == [s.state EXCEPT !.transport = t]
                 r == RekeyAsResponder(s, t)
      <3>1. Legal(r) /\ r.endpoint = s.endpoint
        BY <2>4, <2>6, RekeyAsResponderLegal
      <3>2. ready.transport = t
        BY <1>1, <2>6, ReadyStates DEF ReadyState
      <3>3. r = [s EXCEPT !.state = ready, !.last_handshake_at = 0, !.stale = FALSE]
        BY DEF RekeyAsResponder
      <3> HIDE DEF ready
      <3>4. r.state = ready
        <4> HIDE DEF r
        <4> QED BY <1>1, <3>3 DEF PeerSession
      <3> HIDE DEF r
      <3>5. SessionWith(p, r) /\ r # Absent
        BY <2>4, <3>1, <3>2, <3>4, NoneAssumption DEF SessionWith, Legal
      <3> QED BY <3>5 DEF r
    <2> HIDE DEF t, spent
    <2>7. IsResponding(s) \/ IsReady(s)
      BY <1>5
    <2>8. PICK r : r # Absent /\ SessionWith(p, r) /\ Install(n, p, r)
      <3>1. CASE IsReady(s) /\ ok
        BY <2>1, <2>6, <3>1
      <3>2. CASE IsReady(s) /\ ~ok
        BY <1>1, <2>1, <3>2
      <3>3. CASE ~IsReady(s) /\ ok
        BY <2>1, <2>5, <3>3
      <3>4. CASE ~IsReady(s) /\ ~ok
        BY <1>3, <2>1, <2>7, <3>4
      <3> QED BY <3>1, <3>2, <3>3, <3>4
    <2> QED BY <1>1, <2>2, <2>8, OneSessionTrue
  <1> QED BY <1>4, <1>5

(* A daemon that ends takes its sessions with it. *)
LEMMA DownTrue ==
  ASSUME IInv, AttributionOK, NEW n \in Node, Down(n), addr' = addr,
         InFlight' \subseteq InFlight
  PROVE  AttributionOK'
  <1>1. \A u \in Node \X Node : peers'[u[1]][u[2]] # Absent
           => peers[u[1]][u[2]] # Absent /\ peers'[u[1]][u[2]] = peers[u[1]][u[2]]
    BY DEF IInv, TablesOK, Down
  <1>2. \A q \in Sessions' : q \in Sessions /\ Session(q)' = Session(q)
    <2> SUFFICES ASSUME NEW q \in Sessions'
                 PROVE  q \in Sessions /\ Session(q)' = Session(q)
      OBVIOUS
    <2>1. q \in Node \X Node /\ peers'[q[1]][q[2]] # Absent
      BY DEF Sessions, Known
    <2> QED BY <1>1, <2>1 DEF Sessions, Known, Session
  <1>3. AddressesOK'
    BY DEF AttributionOK, AddressesOK
  <1> QED BY <1>2, <1>3, FewerSessionsTrue

(* An INIT from the address of its sender. *)
LEMMA ReceiveInitTrue ==
  ASSUME IInv, AttributionOK, AddressesIdentify,
         NEW n \in Node, NEW d \in InFlight, ReceiveInit(n, d)
  PROVE  AttributionOK'
  <1> DEFINE p == Sender(n, d.src, d.msg)
             h == Heard(n, p, d.src)
             s == CountInit(h)
  <1>1. /\ p \in Known(n) /\ d.src \in Addr /\ d.src \in Homes(p)
        /\ n \notin Roaming /\ d.msg.from = p /\ d.msg \in InitMessage
        /\ p \notin Roaming /\ d.src = HomeAddr[p]
    <2>1. Arrives(n, d) /\ d.msg.type = "INIT" /\ p # None
      BY DEF ReceiveInit
    <2> HIDE DEF p
    <2>2. p = Sender(n, d.src, d.msg)
      BY DEF p
    <2>3. d.msg \in InitMessage
      BY <2>1, DatagramTypes DEF IInv
    <2>4. TrueToAddress(d) /\ IsHandshake(d.msg)
      BY <2>1 DEF AttributionOK, IsHandshake
    <2> QED BY <2>1, <2>2, <2>3, <2>4, SenderTrue DEF TrueToAddress
  <1>2. addr' = addr
    BY DEF ReceiveInit, world
  <1>3. LegalHeard(s) /\ SessionWith(p, s)
    <2>1. LegalHeard(h) /\ SessionWith(p, h)
      <3> HIDE DEF p
      <3> QED BY <1>1, HeardState, HeardTrue
    <2> HIDE DEF h
    <2>2. LegalHeard(s) /\ s.endpoint = h.endpoint /\ s.state = h.state
      BY <2>1, CountInitLegal
    <2> HIDE DEF s
    <2> QED BY <2>1, <2>2 DEF SessionWith, IsReady
  <1>4. CASE OverLimit(s)
    <2>1. Down(n) /\ net' = Consume(d)
      BY <1>4 DEF ReceiveInit
    <2> QED BY <1>2, <2>1, DownTrue, DatagramsConsumed
  <1>5. CASE ~OverLimit(s)
    <2>1. AnswerInit(n, p, s, d, d.msg, FALSE)
      BY <1>5 DEF ReceiveInit
    <2> HIDE DEF s, p
    <2> QED BY <1>1, <1>2, <1>3, <2>1, AnswerTrue
  <1> QED BY <1>4, <1>5

(* An INIT inside a RELAY. *)
LEMMA ReceiveRelayedInitTrue ==
  ASSUME IInv, AttributionOK, NEW n \in Node, NEW d \in InFlight,
         ReceiveRelayedInit(n, d)
  PROVE  AttributionOK'
  <1> DEFINE p == OriginalSender(n, d)
             h == HeardRelayed(n, p)
             m == d.msg.inner
  <1>1. /\ p \in Known(n) /\ m \in InitMessage /\ m.from = p
        /\ addr' = addr
    <2>1. d.msg.type = "RELAY" /\ p = d.msg.from /\ m.type = "INIT" /\ p \in Known(n)
      BY DEF ReceiveRelayedInit, ArrivesRelayed, OriginalSender
    <2>2. m \in InitMessage
      BY <2>1, DatagramTypes, InnerTypes DEF IInv
    <2>3. m.from = p
      BY <2>1 DEF AttributionOK, TrueToAddress, IsHandshake
    <2> QED BY <2>1, <2>2, <2>3 DEF ReceiveRelayedInit, world
  <1>2. LegalHeard(h) /\ SessionWith(p, h)
    <2>1. Unspecified \in Addr /\ Unspecified \in Homes(p)
      BY ConfigAssumption DEF Homes
    <2> HIDE DEF p
    <2> QED BY <1>1, <2>1, HeardState, HeardTrue
  <1>3. AnswerInit(n, p, h, d, m, TRUE)
    BY DEF ReceiveRelayedInit
  <1> HIDE DEF h, p, m
  <1> QED BY <1>1, <1>2, <1>3, AnswerTrue

(* A RESPONSE or a TRANSPORT, on either path: the peer heard, its session, and
   the message. *)
LEMMA DirectHeard ==
  ASSUME IInv, AttributionOK, AddressesIdentify,
         NEW n \in Node, NEW d \in InFlight, Arrives(n, d), d.msg.type # "RELAY",
         Sender(n, d.src, d.msg) # None
  PROVE  LET p == Sender(n, d.src, d.msg)
             h == Heard(n, p, d.src)
         IN  /\ p \in Known(n) /\ h \in PeerSession /\ LegalHeard(h)
             /\ SessionWith(p, h)
             /\ IsHandshake(d.msg) => d.msg.from = p
  <1>1. PICK p : p = Sender(n, d.src, d.msg)
    OBVIOUS
  <1>2. /\ p \in Known(n) /\ d.src \in Addr /\ d.src \in Homes(p)
        /\ IsHandshake(d.msg) => d.msg.from = p
    BY <1>1, SenderTrue
  <1>3. LegalHeard(Heard(n, p, d.src)) /\ SessionWith(p, Heard(n, p, d.src))
    BY <1>2, HeardState, HeardTrue
  <1> QED BY <1>1, <1>2, <1>3 DEF LegalHeard, Legal

(* The same of a RELAY, whose header names the peer. *)
LEMMA RelayedHeard ==
  ASSUME IInv, AttributionOK, NEW n \in Node, NEW d \in InFlight, ArrivesRelayed(n, d)
  PROVE  LET p == d.msg.from
             h == HeardRelayed(n, p)
         IN  /\ p \in Known(n) /\ h \in PeerSession /\ LegalHeard(h)
             /\ SessionWith(p, h)
             /\ IsHandshake(d.msg.inner) => d.msg.inner.from = p
  <1>1. PICK p : p = d.msg.from
    OBVIOUS
  <1>2. /\ p \in Known(n) /\ Unspecified \in Addr /\ Unspecified \in Homes(p)
        /\ IsHandshake(d.msg.inner) => d.msg.inner.from = p
    BY <1>1, ConfigAssumption
       DEF ArrivesRelayed, Homes, AttributionOK, TrueToAddress
  <1>3. LegalHeard(HeardRelayed(n, p)) /\ SessionWith(p, HeardRelayed(n, p))
    BY <1>2, HeardState, HeardTrue
  <1> QED BY <1>1, <1>2, <1>3 DEF LegalHeard, Legal

(* A RESPONSE, on either path. *)
LEMMA ReceiveResponseTrue ==
  ASSUME IInv, AttributionOK, AddressesIdentify,
         NEW n \in Node, NEW d \in InFlight,
         ReceiveResponse(n, d) \/ ReceiveRelayedResponse(n, d)
  PROVE  AttributionOK'
  <1>1. PICK p \in Known(n), h \in PeerSession, m \in ResponseMessage :
           /\ LegalHeard(h) /\ SessionWith(p, h) /\ m.from = p
           /\ Install(n, p, HandleResponse(h, m))
    <2>1. CASE ReceiveResponse(n, d)
      <3>1. d.msg \in ResponseMessage /\ IsHandshake(d.msg)
        BY <2>1, DatagramTypes DEF ReceiveResponse, IInv, IsHandshake
      <3>2. /\ Arrives(n, d) /\ d.msg.type # "RELAY" /\ Sender(n, d.src, d.msg) # None
            /\ Install(n, Sender(n, d.src, d.msg),
                 HandleResponse(Heard(n, Sender(n, d.src, d.msg), d.src), d.msg))
        BY <2>1 DEF ReceiveResponse
      <3> QED BY <3>1, <3>2, DirectHeard
    <2>2. CASE ReceiveRelayedResponse(n, d)
      <3>1. d.msg.inner \in ResponseMessage /\ IsHandshake(d.msg.inner)
        BY <2>2, DatagramTypes, InnerTypes
           DEF ReceiveRelayedResponse, ArrivesRelayed, IInv, IsHandshake
      <3>2. /\ ArrivesRelayed(n, d)
            /\ Install(n, d.msg.from,
                 HandleResponse(HeardRelayed(n, d.msg.from), d.msg.inner))
        BY <2>2 DEF ReceiveRelayedResponse, OriginalSender
      <3> QED BY <3>1, <3>2, RelayedHeard
    <2> QED BY <2>1, <2>2
  <1>2. /\ SessionWith(p, HandleResponse(h, m))
        /\ HandleResponse(h, m) # Absent
    BY <1>1, ResponseTrue, HandleResponseLegal, NoneAssumption DEF Legal
  <1>3. p \in Node /\ addr' = addr /\ InFlight' \subseteq InFlight
    BY DatagramsConsumed DEF ReceiveResponse, ReceiveRelayedResponse, world, Known
  <1> QED BY <1>1, <1>2, <1>3, OneSessionTrue

(* A TRANSPORT, on either path. *)
LEMMA ReceiveTransportTrue ==
  ASSUME IInv, AttributionOK, AddressesIdentify,
         NEW n \in Node, NEW d \in InFlight,
         ReceiveTransport(n, d) \/ ReceiveRelayedTransport(n, d)
  PROVE  AttributionOK'
  <1>1. PICK p \in Known(n), h \in PeerSession :
           /\ LegalHeard(h) /\ SessionWith(p, h)
           /\ \E m : \E r \in {h, HandleRelayedTransport(h, m)} : Install(n, p, r)
    <2>1. CASE ReceiveTransport(n, d)
      <3>1. /\ Arrives(n, d) /\ d.msg.type # "RELAY" /\ Sender(n, d.src, d.msg) # None
            /\ Install(n, Sender(n, d.src, d.msg),
                 HandleTransport(Heard(n, Sender(n, d.src, d.msg), d.src), d.msg))
        BY <2>1 DEF ReceiveTransport
      <3> QED BY <3>1, DirectHeard DEF HandleTransport
    <2>2. CASE ReceiveRelayedTransport(n, d)
      <3>1. /\ ArrivesRelayed(n, d)
            /\ Install(n, d.msg.from,
                 HandleRelayedTransport(HeardRelayed(n, d.msg.from), d.msg.inner))
        BY <2>2 DEF ReceiveRelayedTransport, OriginalSender
      <3> QED BY <3>1, RelayedHeard
    <2> QED BY <2>1, <2>2
  <1>2. \A m : \A r \in {h, HandleRelayedTransport(h, m)} :
           SessionWith(p, r) /\ r # Absent
    <2> TAKE m
    <2>1. Legal(h) /\ Legal(HandleRelayedTransport(h, m))
      BY <1>1, HandleRelayedTransportLegal DEF LegalHeard
    <2> QED BY <1>1, <2>1, RelayedTransportTrue, NoneAssumption DEF Legal
  <1>3. p \in Node /\ addr' = addr /\ InFlight' \subseteq InFlight
    BY DatagramsConsumed DEF ReceiveTransport, ReceiveRelayedTransport, world, Known
  <1> QED BY <1>1, <1>2, <1>3, OneSessionTrue

(* A forwarded RELAY keeps its header and what it carries. *)
LEMMA ForwardRelayTrue ==
  ASSUME IInv, AttributionOK, NEW n \in Node, NEW d \in InFlight, ForwardRelay(n, d)
  PROVE  AttributionOK'
  <1> DEFINE p == d.msg.from
             h == HeardRelayed(n, p)
             x == [src |-> addr[n], msg |-> d.msg, dst |-> ForwardAddress(n, d.msg.dest)]
  <1>1. p \in Known(n) /\ p \in Node /\ LegalHeard(h) /\ SessionWith(p, h)
    BY RelayedHeard DEF ForwardRelay, Known
  <1>2. /\ Install(n, p, h) /\ addr' = addr /\ d.msg.type = "RELAY"
    BY DEF ForwardRelay, ArrivesRelayed, world
  <1>3. TrueToAddress(x)
    <2>1. TrueToAddress(d) /\ x.msg = d.msg
      BY DEF AttributionOK
    <2> HIDE DEF x
    <2> QED BY <1>2, <2>1 DEF TrueToAddress, IsHandshake
  <1>4. \A y \in InFlight' : y \in InFlight \/ TrueToAddress(y)
    <2>1. CASE d.msg.dest \in Known(n)
      <3>1. \E ok \in SendOutcomes :
               net' = Consume(d) (+) (IF ok THEN Delivered({x}) ELSE EmptyBag)
        BY <2>1 DEF ForwardRelay
      <3> HIDE DEF x
      <3> QED BY <1>3, <3>1, Consumed, DatagramsMaybeSent
    <2>2. CASE d.msg.dest \notin Known(n)
      BY <2>2, DatagramsConsumed DEF ForwardRelay
    <2> QED BY <2>1, <2>2
  <1>5. h # Absent
    BY <1>1, NoneAssumption DEF LegalHeard, Legal
  <1> HIDE DEF h, p
  <1> QED BY <1>1, <1>2, <1>4, <1>5, OneSessionTrue

(* Every datagram that is received. *)
LEMMA ReceiveTrue ==
  ASSUME IInv, AttributionOK, AddressesIdentify,
         NEW n \in Node, NEW d \in InFlight, Receive(n, d)
  PROVE  AttributionOK'
  <1>1. ASSUME IgnoreUnknownSource(n, d) \/ DropStrangersRelay(n, d)
        PROVE  AttributionOK'
    <2>1. InFlight' \subseteq InFlight /\ peers' = peers /\ addr' = addr
      BY <1>1, DatagramsConsumed DEF IgnoreUnknownSource, DropStrangersRelay, world
    <2>2. /\ AddressesOK'
          /\ \A q \in Sessions' : q \in Sessions /\ Session(q)' = Session(q)
      BY <2>1 DEF AttributionOK, AddressesOK, Sessions, Session, Known
    <2> QED BY <2>1, <2>2, FewerSessionsTrue
  <1> QED BY <1>1, ReceiveInitTrue, ReceiveRelayedInitTrue, ReceiveResponseTrue,
             ReceiveTransportTrue, ForwardRelayTrue DEF Receive

(* The same of several sends. *)
LEMMA DatagramsSent ==
  ASSUME IInv, NEW S, net' = net (+) Delivered(S)
  PROVE  \A d \in InFlight' :
            d \in InFlight \/ (d \in S /\ \E k \in Node : addr[k] = d.dst)
  <1>1. /\ IsABag(Delivered(S))
        /\ BagToSet(Delivered(S)) = {d \in S : \E k \in Node : addr[k] = d.dst}
    BY BagOfSet DEF Delivered
  <1>2. IsABag(net)
    BY DEF IInv, WorldOK
  <1>3. InFlight' = BagToSet(net) \cup BagToSet(Delivered(S))
    BY <1>1, <1>2, BagSum DEF InFlight
  <1> QED BY <1>1, <1>3 DEF InFlight

(* One INIT or TRANSPORT to a peer, sent or not. *)
LEMMA MaybeSentTrue ==
  ASSUME IInv, AttributionOK, AddressesIdentify,
         NEW n \in Node, NEW p \in Known(n), NEW m \in Message,
         m.type # "RESPONSE", m.type = "INIT" => m.from = n /\ m.to = p,
         NEW ok,
         net' = net (+) (IF ok
                         THEN Delivered({SendMaybeRelay(n, p, peers[n][p].endpoint, m)})
                         ELSE EmptyBag)
  PROVE  \A d \in InFlight' : d \in InFlight \/ TrueToAddress(d)
  <1>1. PICK x : x = SendMaybeRelay(n, p, peers[n][p].endpoint, m)
    OBVIOUS
  <1>2. net' = net (+) (IF ok THEN Delivered({x}) ELSE EmptyBag)
    BY <1>1
  <1>3. IsABag(net) /\ BagToSet(net) \subseteq InFlight
    BY DEF IInv, WorldOK, InFlight
  <1>4. \A d \in InFlight' :
           d \in InFlight \/ (d = x /\ \E k \in Node : addr[k] = x.dst)
    BY <1>2, <1>3, DatagramsMaybeSent
  <1>5. (\E k \in Node : addr[k] = x.dst) => TrueToAddress(x)
    BY <1>1, SentTrue
  <1> QED BY <1>4, <1>5

(* A session that only its own timers and nonces have changed. *)
LEMMA SessionKeptTrue ==
  ASSUME IInv, AttributionOK, NEW n \in Node, NEW p \in Known(n),
         NEW r \in PeerSession, Install(n, p, r), addr' = addr,
         r.endpoint = peers[n][p].endpoint,
         IsReady(r) => /\ IsReady(peers[n][p])
                       /\ r.state.transport.remote = peers[n][p].state.transport.remote,
         \A d \in InFlight' : d \in InFlight \/ TrueToAddress(d)
  PROVE  AttributionOK'
  <1>1. SessionWith(p, peers[n][p]) /\ p \in Node
    BY KnownTrue
  <1>2. SessionWith(p, r)
    BY <1>1, SameSession
  <1> QED BY <1>1, <1>2, NoneAssumption, OneSessionTrue

(* The due INITs. *)
LEMMA SendInitTrue ==
  ASSUME IInv, AttributionOK, AddressesIdentify, NEW n \in Node, NEW p \in Node,
         SendInit(n, p)
  PROVE  AttributionOK'
  <1> DEFINE s == peers[n][p]
             m == WriteInit(n, p, s.state.initiator)
  <1>1. p \in Known(n) /\ s \in PeerSession /\ IsInitiating(s) /\ addr' = addr
    BY KnownSession DEF SendInit, IInv, Legal, world
  <1>2. PICK ok \in SendOutcomes :
           /\ Install(n, p, IF ok THEN InitSent(s) ELSE s)
           /\ net' = net (+) (IF ok THEN Delivered({SendMaybeRelay(n, p, s.endpoint, m)})
                              ELSE EmptyBag)
    BY DEF SendInit
  <1>3. /\ m \in Message /\ m.type = "INIT" /\ m.from = n /\ m.to = p
    BY <1>1, ReadyStates DEF InitiatorState, WriteInit, Message, InitMessage
  <1> HIDE DEF m
  <1>4. \A d \in InFlight' : d \in InFlight \/ TrueToAddress(d)
    BY <1>1, <1>2, <1>3, MaybeSentTrue
  <1> HIDE DEF s
  <1>5. /\ InitSent(s) \in PeerSession /\ InitSent(s).state = s.state
        /\ InitSent(s).endpoint = s.endpoint
    BY <1>1, TimingAssumption DEF InitSent, PeerSession
  <1>6. PICK r \in PeerSession :
           r.state = s.state /\ r.endpoint = s.endpoint /\ Install(n, p, r)
    BY <1>1, <1>2, <1>5
  <1> QED BY <1>1, <1>4, <1>6, SessionKeptTrue DEF s, IsReady

(* A timer that is cleared, and a peer that goes stale. *)
LEMMA QuietTrue ==
  ASSUME IInv, AttributionOK, NEW n \in Node, NEW p \in Node,
         ClearInitTimer(n, p) \/ MarkStale(n, p)
  PROVE  AttributionOK'
  <1> DEFINE s == peers[n][p]
             stale == [s EXCEPT !.stale = TRUE]
  <1>1. p \in Known(n) /\ s \in PeerSession
    BY KnownSession DEF ClearInitTimer, MarkStale, Maintained, IInv, Legal
  <1>2. InFlight' = InFlight /\ addr' = addr
    BY DEF ClearInitTimer, MarkStale, InFlight, world
  <1>3. \E r \in {InitDone(s), stale} : Install(n, p, r)
    BY DEF ClearInitTimer, MarkStale
  <1> HIDE DEF s
  <1>4. \A r \in {InitDone(s), stale} :
           r \in PeerSession /\ r.state = s.state /\ r.endpoint = s.endpoint
    BY <1>1 DEF InitDone, PeerSession
  <1>5. PICK r \in PeerSession :
           r.state = s.state /\ r.endpoint = s.endpoint /\ Install(n, p, r)
    BY <1>3, <1>4
  <1> QED BY <1>1, <1>2, <1>5, SessionKeptTrue DEF s, IsReady

(* The retry of a rekey. *)
LEMMA RetryRekeyTrue ==
  ASSUME IInv, AttributionOK, AddressesIdentify, NEW n \in Node, NEW p \in Node,
         RetryRekey(n, p)
  PROVE  AttributionOK'
  <1> DEFINE s == peers[n][p]
             again == [s EXCEPT !.state.rehandshake.next_retry_at = INIT_RETRY_INTERVAL]
             rekey == [s.state.rehandshake EXCEPT !.next_retry_at = INIT_RETRY_INTERVAL]
             ready == [s.state EXCEPT !.rehandshake = rekey]
             m == WriteInit(n, p, s.state.rehandshake.initiator)
  <1>1. p \in Known(n) /\ s \in PeerSession /\ IsRekeying(s) /\ IsReady(s) /\ addr' = addr
    BY KnownSession DEF RetryRekey, Maintained, IInv, Legal, world
  <1>2. PICK ok \in SendOutcomes :
           /\ Install(n, p, IF ok THEN again ELSE s)
           /\ net' = net (+) (IF ok THEN Delivered({SendMaybeRelay(n, p, s.endpoint, m)})
                              ELSE EmptyBag)
    BY DEF RetryRekey
  <1>3. s.state \in ReadyState /\ s.state.rehandshake \in Rehandshake
    BY <1>1, ReadyStates
  <1>4. m \in Message /\ m.type = "INIT" /\ m.from = n /\ m.to = p
    BY <1>3 DEF Rehandshake, WriteInit, Message, InitMessage
  <1> HIDE DEF m
  <1>5. \A d \in InFlight' : d \in InFlight \/ TrueToAddress(d)
    <2> HIDE DEF again
    <2> QED BY <1>1, <1>2, <1>4, MaybeSentTrue
  <1>6. rekey \in Rehandshake
    BY <1>3, TimingAssumption DEF Rehandshake
  <1>7. again = [s EXCEPT !.state = ready]
    OBVIOUS
  <1> HIDE DEF s, rekey
  <1>8. ready \in PeerState /\ ready.transport = s.state.transport
    BY <1>3, <1>6 DEF PeerState, ReadyState
  <1> HIDE DEF ready
  <1>9. again \in PeerSession /\ again.state = ready /\ again.endpoint = s.endpoint
    <2> HIDE DEF again
    <2> QED BY <1>1, <1>7, <1>8 DEF PeerSession
  <1> HIDE DEF again
  <1>10. PICK r \in PeerSession : /\ r.endpoint = s.endpoint /\ Install(n, p, r)
                                  /\ r.state.transport = s.state.transport
    BY <1>1, <1>2, <1>8, <1>9
  <1> QED BY <1>1, <1>5, <1>10, SessionKeptTrue DEF s

(* Encrypting moves a nonce. *)
LEMMA EncryptTyped ==
  ASSUME NEW t \in Transport
  PROVE  /\ Encrypt(t) \in Message /\ Encrypt(t).type = "TRANSPORT"
         /\ AfterEncrypt(t) \in Transport /\ AfterEncrypt(t).remote = t.remote
  BY DEF Encrypt, AfterEncrypt, Transport, Message, TransportMessage

(* A TUN packet. *)
LEMMA DispatchTunPacketTrue ==
  ASSUME IInv, AttributionOK, AddressesIdentify, NEW n \in Node, NEW p \in Node,
         DispatchTunPacket(n, p)
  PROVE  AttributionOK'
  <1> DEFINE s == peers[n][p]
             t == s.state.transport
             u == AfterEncrypt(t)
             tx(ok) == IF ok THEN 0 ELSE s.last_tx_at
             r(ok) == [s EXCEPT !.state.transport = u, !.last_tx_at = tx(ok)]
             ready == [s.state EXCEPT !.transport = u]
             m == Encrypt(t)
  <1>1. p \in Known(n) /\ s \in PeerSession /\ IsReady(s) /\ addr' = addr
    BY KnownSession DEF DispatchTunPacket, IInv, Legal, world
  <1>2. PICK ok \in SendOutcomes :
           /\ Install(n, p, r(ok))
           /\ net' = net (+) (IF ok THEN Delivered({SendMaybeRelay(n, p, s.endpoint, m)})
                              ELSE EmptyBag)
    BY DEF DispatchTunPacket
  <1>3. s.state \in ReadyState /\ t \in Transport /\ tx(ok) \in Nat \cup {None}
    BY <1>1, ReadyStates DEF ReadyState, PeerSession
  <1>4. r(ok) = [s EXCEPT !.state = ready, !.last_tx_at = tx(ok)]
    OBVIOUS
  <1>5. m \in Message /\ m.type = "TRANSPORT" /\ u \in Transport /\ u.remote = t.remote
    BY <1>3, EncryptTyped
  <1> HIDE DEF m, u, r
  <1>6. \A d \in InFlight' : d \in InFlight \/ TrueToAddress(d)
    BY <1>1, <1>2, <1>5, MaybeSentTrue
  <1> HIDE DEF s, tx
  <1>7. ready \in PeerState /\ ready.transport = u
    BY <1>3, <1>5 DEF PeerState, ReadyState
  <1> HIDE DEF ready, t
  <1>8. r(ok) \in PeerSession /\ r(ok).state = ready /\ r(ok).endpoint = s.endpoint
    BY <1>1, <1>3, <1>4, <1>7 DEF PeerSession
  <1> QED BY <1>1, <1>2, <1>5, <1>6, <1>7, <1>8, SessionKeptTrue DEF s, t

(* Keepalives and the start of a rekey. *)
LEMMA KeepaliveOrRekeyTrue ==
  ASSUME IInv, AttributionOK, AddressesIdentify, NEW n \in Node, NEW p \in Node,
         KeepaliveOrRekey(n, p)
  PROVE  AttributionOK'
  <1> DEFINE s == peers[n][p]
             t == s.state.transport
             u == AfterEncrypt(t)
             keepalive == KeepaliveDue(s)
             rekey == RekeyDue(n, p, s)
             x == SendMaybeRelay(n, p, s.endpoint, Encrypt(t))
             y == SendMaybeRelay(n, p, s.endpoint, WriteInit(n, p, Fresh))
             probe == IF keepalive THEN {x} ELSE {}
             init == IF rekey THEN {y} ELSE {}
             tx(probed) == IF probed THEN 0 ELSE s.last_tx_at
             ready(started) ==
                 [tag |-> "Ready",
                  transport |-> IF keepalive THEN u ELSE t,
                  rehandshake |-> IF started
                                  THEN [initiator |-> Fresh,
                                        next_retry_at |-> INIT_RETRY_INTERVAL]
                                  ELSE None]
             r(probed, started) ==
                 [s EXCEPT !.last_tx_at = tx(probed), !.state = ready(started)]
  <1>1. p \in Known(n) /\ s \in PeerSession /\ IsReady(s) /\ addr' = addr
    BY KnownSession DEF KeepaliveOrRekey, Maintained, IInv, Legal
  <1>2. PICK probed \in BOOLEAN, started \in BOOLEAN :
           /\ started => rekey
           /\ net' = net (+) Delivered((IF probed THEN probe ELSE {})
                                       \cup (IF started THEN init ELSE {}))
           /\ Install(n, p, r(probed, started))
    BY DEF KeepaliveOrRekey
  <1>3. rekey => Fresh \in Ephemeral
    BY FreshOK DEF KeepaliveOrRekey
  <1>4. s.state \in ReadyState /\ t \in Transport
    BY <1>1, ReadyStates DEF ReadyState
  <1>5. /\ Encrypt(t) \in Message /\ Encrypt(t).type = "TRANSPORT"
        /\ u \in Transport /\ u.remote = t.remote
    BY <1>4, EncryptTyped
  <1>6. (\E k \in Node : addr[k] = x.dst) => TrueToAddress(x)
    <2> DEFINE m == Encrypt(t)
    <2>1. m \in Message /\ m.type = "TRANSPORT" /\ x = SendMaybeRelay(n, p, s.endpoint, m)
      BY <1>5
    <2> HIDE DEF m, x
    <2> QED BY <1>1, <2>1, SentTrue
  <1>7. rekey => ((\E k \in Node : addr[k] = y.dst) => TrueToAddress(y))
    <2> HAVE rekey
    <2> DEFINE m == WriteInit(n, p, Fresh)
    <2>1. /\ m \in Message /\ m.type = "INIT" /\ m.from = n /\ m.to = p
          /\ y = SendMaybeRelay(n, p, s.endpoint, m)
      BY <1>3 DEF WriteInit, Message, InitMessage
    <2> HIDE DEF m, y
    <2> QED BY <1>1, <2>1, SentTrue
  <1> HIDE DEF x, y, u, keepalive, rekey
  <1>8. \A d \in InFlight' : d \in InFlight \/ TrueToAddress(d)
    <2> DEFINE S == (IF probed THEN probe ELSE {}) \cup (IF started THEN init ELSE {})
    <2>1. \A d \in S : d = x \/ (d = y /\ rekey)
      OBVIOUS
    <2>2. net' = net (+) Delivered(S)
      BY <1>2
    <2> HIDE DEF S
    <2>3. \A d \in InFlight' : d \in InFlight
                               \/ (d \in S /\ \E k \in Node : addr[k] = d.dst)
      BY <2>2, DatagramsSent
    <2> QED BY <1>6, <1>7, <2>1, <2>3
  <1>9. /\ tx(probed) \in Nat \cup {None}
        /\ started => [initiator |-> Fresh, next_retry_at |-> INIT_RETRY_INTERVAL]
                         \in Rehandshake
    BY <1>1, <1>2, <1>3, TimingAssumption DEF PeerSession, Rehandshake
  <1> DEFINE state == ready(started)
             q == r(probed, started)
  <1> HIDE DEF s, tx
  <1>10. state \in PeerState /\ state.transport.remote = t.remote
    <2> HIDE DEF t
    <2> QED BY <1>4, <1>5, <1>9 DEF PeerState, ReadyState
  <1> HIDE DEF ready, state, t
  <1>11. q = [s EXCEPT !.last_tx_at = tx(probed), !.state = state]
    BY DEF state
  <1> HIDE DEF r
  <1>12. q \in PeerSession /\ q.state = state /\ q.endpoint = s.endpoint
    <2> HIDE DEF q
    <2> QED BY <1>1, <1>9, <1>10, <1>11 DEF PeerSession
  <1>13. Install(n, p, q)
    BY <1>2
  <1> HIDE DEF q
  <1> QED BY <1>1, <1>8, <1>10, <1>12, <1>13, SessionKeptTrue DEF s, t

(* A new peer is where its configuration has it. *)
LEMMA AddPeerTrue ==
  ASSUME IInv, AttributionOK, AddressesIdentify, NEW n \in Node, NEW p \in Node,
         AddPeer(n, p)
  PROVE  AttributionOK'
  <1> DEFINE r == NewSession(n, p, Fresh)
  <1>1. /\ p # n /\ Config[n][p] # None /\ Install(n, p, r)
        /\ addr' = addr /\ InFlight' = InFlight
        /\ Config[n][p].is_initiator => Fresh \in Ephemeral
    BY FreshOK DEF AddPeer, InFlight
  <1>2. r # Absent /\ r.endpoint = Config[n][p].endpoint
    BY <1>1, NewSessionLegal, NoneAssumption DEF Legal
  <1>3. ~IsReady(r)
    BY DEF NewSession, FreshResponder, IsReady
  <1>4. Config[n][p].endpoint \in Homes(p)
    BY <1>1 DEF AddressesIdentify, Homes
  <1> HIDE DEF r
  <1>5. SessionWith(p, r)
    BY <1>2, <1>3, <1>4 DEF SessionWith
  <1> QED BY <1>1, <1>2, <1>5, OneSessionTrue

(* Time moves no session and no datagram. *)
LEMMA TickTrue ==
  ASSUME IInv, AttributionOK, Tick
  PROVE  AttributionOK'
  <1>1. /\ peers' = [n \in Node |-> [p \in Node |->
                        IF p \in Known(n) THEN Aged(peers[n][p]) ELSE Absent]]
        /\ net' = net /\ addr' = addr
    BY DEF Tick
  <1>2. ASSUME NEW u \in Sessions'
        PROVE  SessionWith(u[2], Session(u)')
    <2>1. /\ u \in Node \X Node /\ u \in Sessions
          /\ Session(u)' = Aged(Session(u))
      BY <1>1 DEF Sessions, Session, Known
    <2>2. u[1] \in Node /\ u[2] \in Known(u[1]) /\ Session(u) = peers[u[1]][u[2]]
      BY <2>1 DEF Sessions, Session
    <2>3. Legal(Session(u)) /\ SessionWith(u[2], Session(u))
      BY <2>1, <2>2, KnownSession DEF IInv, AttributionOK
    <2>4. PICK s : s = Session(u)
      OBVIOUS
    <2>5. /\ Aged(s).endpoint = s.endpoint
          /\ IsReady(Aged(s)) => /\ IsReady(s)
                                 /\ Aged(s).state.transport = s.state.transport
      BY <2>3, <2>4, AgedLegal, AgedKeeps DEF Legal
    <2>6. SessionWith(u[2], Aged(s))
      BY <2>3, <2>4, <2>5, SameSession
    <2> QED BY <2>1, <2>4, <2>6
  <1>3. \A u \in Sessions' : SessionWith(u[2], Session(u))'
    BY <1>2 DEF SessionWith, IsReady
  <1>4. AddressesOK' /\ InFlight' = InFlight
    BY <1>1 DEF AttributionOK, AddressesOK, InFlight
  <1> QED BY <1>3, <1>4 DEF AttributionOK

(* Loss, duplication, datagrams to nobody, roaming, starts and stops. *)
LEMMA WorldTrue ==
  ASSUME IInv, AttributionOK,
         \/ \E d \in InFlight : Lose(d) \/ Duplicate(d) \/ Vanish(d)
         \/ \E n \in Node, a \in Addr : Rebind(n, a)
         \/ \E n \in Node : Start(n) \/ Stop(n)
  PROVE  AttributionOK'
  <1>1. ASSUME peers' = peers, InFlight' \subseteq InFlight, AddressesOK'
        PROVE  AttributionOK'
    <2>1. \A q \in Sessions' : q \in Sessions /\ Session(q)' = Session(q)
      BY <1>1 DEF Sessions, Session, Known
    <2> QED BY <1>1, <2>1, FewerSessionsTrue
  <1>2. ASSUME NEW d \in InFlight, Lose(d) \/ Duplicate(d) \/ Vanish(d)
        PROVE  AttributionOK'
    <2>1. peers' = peers /\ addr' = addr
      BY <1>2 DEF Lose, Duplicate, Vanish, world
    <2>2. AddressesOK'
      BY <2>1 DEF AttributionOK, AddressesOK
    <2>3. InFlight' \subseteq InFlight
      <3>1. CASE Duplicate(d)
        <4>1. IsABag(net) /\ BagToSet(net) = InFlight
          BY DEF IInv, WorldOK, InFlight
        <4>2. InFlight' = InFlight \cup {d}
          BY <3>1, <4>1, BagOfSet, BagSum DEF Duplicate, InFlight
        <4> QED BY <4>2
      <3>2. CASE ~Duplicate(d)
        BY <1>2, <3>2, DatagramsConsumed DEF Lose, Vanish
      <3> QED BY <3>1, <3>2
    <2> QED BY <1>1, <2>1, <2>2, <2>3
  <1>3. ASSUME NEW n \in Node, NEW a \in Addr, Rebind(n, a)
        PROVE  AttributionOK'
    <2>1. /\ n \in Roaming /\ a # Unspecified /\ \A q \in Node : addr[q] # a
          /\ addr' = [addr EXCEPT ![n] = a]
          /\ peers' = peers /\ InFlight' = InFlight
      BY <1>3 DEF Rebind, InFlight
    <2>2. addr \in [Node -> Addr]
      BY DEF IInv, WorldOK
    <2>3. /\ addr'[n] = a
          /\ \A k \in Node : k # n => addr'[k] = addr[k]
      BY <2>1, <2>2
    <2>4. \A p \in Node \ Roaming : addr[p] = HomeAddr[p]
      BY DEF AttributionOK, AddressesOK
    <2>5. AddressesOK'
      <3> SUFFICES ASSUME NEW k \in Node
                   PROVE  /\ addr'[k] # Unspecified
                          /\ k \notin Roaming => addr'[k] = HomeAddr[k]
                          /\ \A p \in Node \ Roaming : addr'[k] = HomeAddr[p] => k = p
        BY DEF AddressesOK
      <3>1. CASE k = n
        BY <2>1, <2>3, <2>4, <3>1
      <3>2. CASE k # n
        BY <2>3, <3>2 DEF AttributionOK, AddressesOK
      <3> QED BY <3>1, <3>2
    <2> QED BY <1>1, <2>1, <2>5
  <1>4. ASSUME NEW n \in Node, Start(n)
        PROVE  AttributionOK'
    <2>1. peers' = peers /\ addr' = addr /\ InFlight' = InFlight
      BY <1>4 DEF Start, InFlight
    <2>2. AddressesOK'
      BY <2>1 DEF AttributionOK, AddressesOK
    <2> QED BY <1>1, <2>1, <2>2
  <1>5. ASSUME NEW n \in Node, Stop(n)
        PROVE  AttributionOK'
    BY <1>5, DownTrue DEF Stop, InFlight
  <1> QED BY <1>2, <1>3, <1>4, <1>5

-----------------------------------------------------------------------------

(* At first nobody has a session and nothing is in flight. *)
LEMMA InitTrue == Init /\ AddressesIdentify => AttributionOK
  <1> SUFFICES ASSUME Init, AddressesIdentify PROVE AttributionOK
    OBVIOUS
  <1>1. Sessions = {} /\ InFlight = {}
    BY BagEmpty DEF Init, Sessions, Known, InFlight
  <1>2. AddressesOK
    BY ConfigAssumption DEF Init, AddressesOK, AddressesIdentify
  <1> QED BY <1>1, <1>2 DEF AttributionOK

(* AttributionOK is inductive relative to IInv: one step per disjunct of
   Next. *)
LEMMA NextKeepsTrue ==
  IInv /\ AddressesIdentify /\ AttributionOK /\ [Next]_vars => AttributionOK'
  <1> SUFFICES ASSUME IInv, AddressesIdentify, AttributionOK, [Next]_vars
               PROVE  AttributionOK'
    OBVIOUS
  <1>1. CASE UNCHANGED vars
    BY <1>1 DEF vars, AttributionOK, AddressesOK, Sessions, Session, Known, InFlight,
                SessionWith, IsReady
  <1>2. ASSUME NEW n \in Node, NEW p \in Node, PeerStep(n, p) PROVE AttributionOK'
    BY <1>2, AddPeerTrue, SendInitTrue, QuietTrue, DispatchTunPacketTrue,
       RetryRekeyTrue, KeepaliveOrRekeyTrue DEF PeerStep, Maintenance
  <1>3. ASSUME NEW n \in Node, NEW d \in InFlight, Receive(n, d) PROVE AttributionOK'
    BY <1>3, ReceiveTrue
  <1>4. CASE Tick
    BY <1>4, TickTrue
  <1> QED BY <1>1, <1>2, <1>3, <1>4, WorldTrue DEF Next

(* The transport of a session with p was agreed with p. *)
LEMMA AttributedFromTrue == AttributionOK => SessionsAttributed
  BY DEF AttributionOK, SessionWith, SessionsAttributed, ReadySessions, TransportOf

(* AttributionOK holds in every reachable state of a mesh whose flags are
   plain. *)
THEOREM AttributionInvariance ==
  ASSUME NEW flags, PlainFlags(flags)
  PROVE  Spec => []AttributionOK
  <1>1. AddressesIdentify
    BY FlagsIdentify
  <1>2. Init => AttributionOK
    BY <1>1, InitTrue
  <1>3. IInv /\ AttributionOK /\ [Next]_vars => AttributionOK'
    BY <1>1, NextKeepsTrue
  <1> QED BY <1>2, <1>3, Invariance, PTL DEF Spec

(* In every execution of a mesh in which each node that is not behind a relay
   advertises the address it sends from, a node that has a session it keeps for
   p encrypts for p and for nobody else: whichever INITs, RESPONSEs and RELAYs
   are delayed, duplicated, answered again or forwarded, and however the nodes
   behind relays roam, no handler needs to compare the peer it looked up by
   address with the one the handshake authenticated. *)
THEOREM SessionsStayAttributed ==
  ASSUME NEW flags, PlainFlags(flags)
  PROVE  Spec => []SessionsAttributed
  BY AttributionInvariance, AttributedFromTrue, PTL

-----------------------------------------------------------------------------
(* What is learnt of a peer behind a relay. *)

(* The relays between two nodes: what either sends the other through. *)
Via(n, p) ==
    {x \in Addr : \/ Config[n][p] # None /\ Config[n][p].via_relay = x
                  \/ Config[p][n] # None /\ Config[p][n].via_relay = x}

(* A node knows the relay between itself and a peer it knows: discovery adds a
   relay no later than who is behind it. *)
RelaysKnown ==
    \A n \in Node : \A p \in Known(n) :
        \A x \in Via(n, p) \ {HomeAddr[n], HomeAddr[p]} : endpoint_to_peer[n][x] # None

(* A RELAY is on its way from who wrote it, to a relay or at once to whom it is
   for, or on its way there from the relay. *)
Routed(d) ==
    d.msg.type = "RELAY" =>
        \/ /\ d.src = HomeAddr[d.msg.from]
           /\ d.dst = HomeAddr[d.msg.dest] \/ d.dst \in Via(d.msg.from, d.msg.dest)
        \/ /\ d.src \in Via(d.msg.from, d.msg.dest)
           /\ d.dst = HomeAddr[d.msg.dest] /\ d.src # d.dst

LearnedOK ==
    /\ \A n, p \in Node : learned_endpoints[n][p] \in {None, HomeAddr[p]}
    /\ \A d \in InFlight : Routed(d)

(* The setting: nobody roams. *)
AtHome == Roaming = {} /\ AddressesIdentify /\ IInv /\ AttributionOK /\ LearnedOK

(* Everybody sends from home. *)
LEMMA HomeAddress ==
  ASSUME AtHome, NEW n \in Node
  PROVE  addr[n] = HomeAddr[n]
  BY DEF AtHome, AttributionOK, AddressesOK

(* LearnedOK is about two variables only. *)
LEMMA LearnedKept ==
  ASSUME LearnedOK,
         \A n, p \in Node : learned_endpoints'[n][p] \in {None, HomeAddr[p]},
         \A d \in InFlight' : d \in InFlight \/ Routed(d)
  PROVE  LearnedOK'
  <1>1. \A d \in InFlight' : Routed(d)
    BY DEF LearnedOK
  <1> QED BY <1>1 DEF LearnedOK

(* A RELAY starts at its author and goes to its relay. *)
LEMMA SentRouted ==
  ASSUME AtHome, NEW n \in Node, NEW p \in Known(n), NEW m, m.type # "RELAY",
         NEW x, x = SendMaybeRelay(n, p, peers[n][p].endpoint, m)
  PROVE  Routed(x)
  <1>1. p \in Node /\ Config[n][p] \in PeerConfig
    BY KnownSession DEF AtHome, IInv
  <1>2. CASE Config[n][p].via_relay = None
    <2>1. x.msg = m
      BY <1>2 DEF SendMaybeRelay
    <2> QED BY <2>1 DEF Routed
  <1>3. CASE Config[n][p].via_relay # None
    <2>1. Config[n][p].via_relay \in Via(n, p)
      <3>1. Config[n][p].via_relay \in Addr /\ Config[n][p] # None
        BY <1>1, <1>3, KnownTrue DEF PeerConfig, AtHome
      <3> QED BY <3>1 DEF Via
    <2>2. /\ x.src = addr[n] /\ x.dst = Config[n][p].via_relay
          /\ x.msg.from = n /\ x.msg.dest = p
      BY <1>3 DEF SendMaybeRelay
    <2> QED BY <2>1, <2>2, HomeAddress DEF Routed
  <1> QED BY <1>2, <1>3

(* The same of a send that may fail. *)
LEMMA MaybeSentRouted ==
  ASSUME AtHome, NEW n \in Node, NEW p \in Known(n), NEW m, m.type # "RELAY", NEW ok,
         net' = net (+) (IF ok
                         THEN Delivered({SendMaybeRelay(n, p, peers[n][p].endpoint, m)})
                         ELSE EmptyBag)
  PROVE  \A d \in InFlight' : d \in InFlight \/ Routed(d)
  <1>1. PICK x : x = SendMaybeRelay(n, p, peers[n][p].endpoint, m)
    OBVIOUS
  <1>2. net' = net (+) (IF ok THEN Delivered({x}) ELSE EmptyBag)
    BY <1>1
  <1>3. IsABag(net) /\ BagToSet(net) \subseteq InFlight
    BY DEF AtHome, IInv, WorldOK, InFlight
  <1>4. \A d \in InFlight' : d \in InFlight \/ d = x
    BY <1>2, <1>3, DatagramsMaybeSent DEF AtHome
  <1> QED BY <1>1, <1>4, SentRouted

(* Timers, TUN packets and new peers teach no address. *)
LEMMA PeerStepLearned ==
  ASSUME AtHome, NEW n \in Node, NEW p \in Node, PeerStep(n, p)
  PROVE  LearnedOK'
  <1> DEFINE s == peers[n][p]
             t == s.state.transport
  <1>1. learned_endpoints' = learned_endpoints
    BY DEF PeerStep, AddPeer, SendInit, ClearInitTimer, DispatchTunPacket, Maintenance,
           RetryRekey, MarkStale, KeepaliveOrRekey, tables
  <1>2. \A d \in InFlight' : d \in InFlight \/ Routed(d)
    <2>1. CASE AddPeer(n, p) \/ ClearInitTimer(n, p) \/ MarkStale(n, p)
      BY <2>1 DEF AddPeer, ClearInitTimer, MarkStale, InFlight
    <2>2. ASSUME NEW m, m.type # "RELAY", p \in Known(n), NEW ok,
                 net' = net (+) (IF ok THEN Delivered({SendMaybeRelay(n, p, s.endpoint, m)})
                                 ELSE EmptyBag)
          PROVE  \A d \in InFlight' : d \in InFlight \/ Routed(d)
      BY <2>2, MaybeSentRouted
    <2>3. CASE SendInit(n, p)
      <3> DEFINE m == WriteInit(n, p, s.state.initiator)
      <3>1. /\ p \in Known(n)
            /\ \E ok \in SendOutcomes :
                  net' = net (+) (IF ok THEN Delivered({SendMaybeRelay(n, p, s.endpoint, m)})
                                  ELSE EmptyBag)
        BY <2>3 DEF SendInit
      <3>2. m.type # "RELAY"
        BY DEF WriteInit
      <3> HIDE DEF m, s
      <3> QED BY <2>2, <3>1, <3>2
    <2>4. CASE RetryRekey(n, p)
      <3> DEFINE m == WriteInit(n, p, s.state.rehandshake.initiator)
      <3>1. /\ p \in Known(n)
            /\ \E ok \in SendOutcomes :
                  net' = net (+) (IF ok THEN Delivered({SendMaybeRelay(n, p, s.endpoint, m)})
                                  ELSE EmptyBag)
        BY <2>4 DEF RetryRekey, Maintained
      <3>2. m.type # "RELAY"
        BY DEF WriteInit
      <3> HIDE DEF m, s
      <3> QED BY <2>2, <3>1, <3>2
    <2>5. CASE DispatchTunPacket(n, p)
      <3> DEFINE m == Encrypt(t)
      <3>1. /\ p \in Known(n)
            /\ \E ok \in SendOutcomes :
                  net' = net (+) (IF ok THEN Delivered({SendMaybeRelay(n, p, s.endpoint, m)})
                                  ELSE EmptyBag)
        BY <2>5 DEF DispatchTunPacket
      <3>2. m.type # "RELAY"
        BY DEF Encrypt
      <3> HIDE DEF m, s
      <3> QED BY <2>2, <3>1, <3>2
    <2>6. CASE KeepaliveOrRekey(n, p)
      <3> DEFINE x == SendMaybeRelay(n, p, s.endpoint, Encrypt(t))
                 y == SendMaybeRelay(n, p, s.endpoint, WriteInit(n, p, Fresh))
                 probe == IF KeepaliveDue(s) THEN {x} ELSE {}
                 init == IF RekeyDue(n, p, s) THEN {y} ELSE {}
      <3>1. PICK probed \in BOOLEAN, started \in BOOLEAN :
               net' = net (+) Delivered((IF probed THEN probe ELSE {})
                                        \cup (IF started THEN init ELSE {}))
        BY <2>6 DEF KeepaliveOrRekey
      <3>2. p \in Known(n)
        BY <2>6 DEF KeepaliveOrRekey, Maintained
      <3>3. Encrypt(t).type # "RELAY" /\ WriteInit(n, p, Fresh).type # "RELAY"
        BY DEF Encrypt, WriteInit
      <3>4. Routed(x) /\ Routed(y)
        BY <3>2, <3>3, SentRouted
      <3> DEFINE S == (IF probed THEN probe ELSE {}) \cup (IF started THEN init ELSE {})
      <3> HIDE DEF x, y
      <3>5. \A d \in S : d = x \/ d = y
        OBVIOUS
      <3>6. net' = net (+) Delivered(S)
        BY <3>1
      <3> HIDE DEF S
      <3>7. \A d \in InFlight' : d \in InFlight \/ d \in S
        BY <3>6, DatagramsSent DEF AtHome
      <3> QED BY <3>4, <3>5, <3>7
    <2> QED BY <2>1, <2>3, <2>4, <2>5, <2>6 DEF PeerStep, Maintenance
  <1> QED BY <1>1, <1>2, LearnedKept DEF AtHome, LearnedOK

(* What n answers to an INIT goes back the way the INIT came. *)
LEMMA AnswerRouted ==
  ASSUME AtHome, NEW n \in Node, NEW p \in Known(n), NEW s, NEW m,
         NEW d \in InFlight, Arrives(n, d), NEW relayed \in BOOLEAN,
         relayed => d.msg.type = "RELAY" /\ d.msg.from = p /\ d.msg.dest = n,
         AnswerInit(n, p, s, d, m, relayed)
  PROVE  \A x \in InFlight' : x \in InFlight \/ Routed(x)
  <1> DEFINE response == WriteResponse(n, m, Fresh)
             reply == [src |-> addr[n], dst |-> d.src,
                       msg |-> IF relayed
                               THEN [type |-> "RELAY", from |-> n, dest |-> p,
                                     inner |-> response]
                               ELSE response]
  <1>1. Routed(reply)
    <2>1. CASE ~relayed
      BY <2>1 DEF Routed, WriteResponse
    <2>2. CASE relayed
      <3>1. d.src = HomeAddr[p] \/ d.src \in Via(n, p)
        BY <2>2 DEF AtHome, LearnedOK, Routed, Via
      <3>2. /\ reply.src = addr[n] /\ reply.dst = d.src
            /\ reply.msg.from = n /\ reply.msg.dest = p
        BY <2>2
      <3> HIDE DEF reply
      <3> QED BY <3>1, <3>2, HomeAddress DEF Routed
    <2> QED BY <2>1, <2>2
  <1>2. \/ net' = Consume(d)
        \/ \E ok \in SendOutcomes :
              net' = Consume(d) (+) (IF ok THEN Delivered({reply}) ELSE EmptyBag)
    BY DEF AnswerInit
  <1> HIDE DEF reply
  <1> QED BY <1>1, <1>2, Consumed, DatagramsConsumed, DatagramsMaybeSent DEF AtHome

(* A RELAY that arrives comes from its author, or from a relay n knows. *)
LEMMA LearnTrue ==
  ASSUME AtHome, RelaysKnown, NEW n \in Node, NEW d \in InFlight,
         ArrivesRelayed(n, d), Learn(n, d)
  PROVE  \A k, p \in Node : learned_endpoints'[k][p] \in {None, HomeAddr[p]}
  <1>1. /\ d.msg.from \in Known(n) /\ d.msg.from \in Node /\ d.dst = HomeAddr[n]
        /\ d.msg.type = "RELAY" /\ d.src \in Addr
    BY HomeAddress, DatagramTypes DEF ArrivesRelayed, Arrives, Known, AtHome, IInv
  <1>2. \/ d.src = HomeAddr[d.msg.from]
        \/ /\ d.src \in Via(d.msg.from, d.msg.dest) /\ d.src # HomeAddr[n]
           /\ HomeAddr[d.msg.dest] = HomeAddr[n]
    BY <1>1 DEF AtHome, LearnedOK, Routed
  <1>3. endpoint_to_peer[n][d.src] = None => d.src = HomeAddr[d.msg.from]
    <2> SUFFICES ASSUME d.src # HomeAddr[d.msg.from]
                 PROVE  endpoint_to_peer[n][d.src] # None
      OBVIOUS
    <2>1. d.msg.dest = n
      BY <1>1, <1>2, DatagramTypes, InnerTypes DEF AtHome, AddressesIdentify, IInv
    <2>2. d.src \in Via(n, d.msg.from)
      BY <1>2, <2>1 DEF Via
    <2> QED BY <1>1, <1>2, <2>2 DEF RelaysKnown
  <1>4. learned_endpoints \in [Node -> [Node -> Addr \cup {None}]]
    BY DEF AtHome, IInv, WorldOK
  <1>5. \A k, p \in Node : learned_endpoints[k][p] \in {None, HomeAddr[p]}
    BY DEF AtHome, LearnedOK
  <1> QED BY <1>1, <1>3, <1>4, <1>5 DEF Learn

(* A relay forwards to where the addressee is, and is no author of its own. *)
LEMMA ForwardRelayRouted ==
  ASSUME AtHome, RelaysKnown, NEW n \in Node, NEW d \in InFlight, ForwardRelay(n, d)
  PROVE  \A x \in InFlight' : x \in InFlight \/ Routed(x)
  <1>1. CASE d.msg.dest \notin Known(n)
    BY <1>1, DatagramsConsumed DEF ForwardRelay, AtHome
  <1>2. CASE d.msg.dest \in Known(n)
    <2> DEFINE x == [src |-> addr[n], msg |-> d.msg, dst |-> ForwardAddress(n, d.msg.dest)]
    <2>1. PICK p : p = d.msg.dest /\ p \in Known(n) /\ p \in Node /\ p # n
      BY <1>2 DEF ForwardRelay, Known
    <2>2. /\ d.msg.type = "RELAY" /\ d.dst = HomeAddr[n]
          /\ ArrivesRelayed(n, d) /\ Learn(n, d)
      BY HomeAddress DEF ForwardRelay, ArrivesRelayed, Arrives
    <2>3. HomeAddr[p] # HomeAddr[n]
      BY <2>1 DEF AtHome, AddressesIdentify
    <2>4. HomeAddr[n] \in Via(d.msg.from, p)
      BY <2>1, <2>2, <2>3 DEF AtHome, LearnedOK, Routed
    <2>5. learned_endpoints'[n][p] \in {None, HomeAddr[p]}
      BY <2>1, <2>2, LearnTrue
    <2>6. peers[n][p].endpoint \in {Unspecified, HomeAddr[p]}
      BY <2>1, KnownTrue DEF AtHome, SessionWith, Homes
    <2>7. x.dst \in {Unspecified, HomeAddr[p]}
      BY <2>1, <2>5, <2>6 DEF ForwardAddress
    <2>8. (\E k \in Node : addr[k] = x.dst) => x.dst # Unspecified
      BY DEF AtHome, AttributionOK, AddressesOK
    <2>9. x.src = HomeAddr[n] /\ x.msg = d.msg
      BY HomeAddress
    <2>10. \E ok \in SendOutcomes :
              net' = Consume(d) (+) (IF ok THEN Delivered({x}) ELSE EmptyBag)
      BY <1>2 DEF ForwardRelay
    <2> HIDE DEF x
    <2>11. (\E k \in Node : addr[k] = x.dst) => Routed(x)
      BY <2>1, <2>2, <2>3, <2>4, <2>7, <2>8, <2>9 DEF Routed
    <2> QED BY <2>10, <2>11, Consumed, DatagramsMaybeSent DEF AtHome
  <1> QED BY <1>1, <1>2

(* Every datagram that is received. *)
LEMMA ReceiveLearned ==
  ASSUME AtHome, RelaysKnown, NEW n \in Node, NEW d \in InFlight, Receive(n, d)
  PROVE  LearnedOK'
  <1>1. /\ \A k, p \in Node : learned_endpoints[k][p] \in {None, HomeAddr[p]}
        /\ learned_endpoints \in [Node -> [Node -> Addr \cup {None}]]
    BY DEF AtHome, LearnedOK, IInv, WorldOK
  <1>2. \A k, p \in Node : learned_endpoints'[k][p] \in {None, HomeAddr[p]}
    <2>1. CASE learned_endpoints' = learned_endpoints
      BY <1>1, <2>1
    <2>2. CASE ArrivesRelayed(n, d) /\ Learn(n, d)
      BY <2>2, LearnTrue
    <2>3. CASE Down(n)
      <3>1. learned_endpoints' = [learned_endpoints EXCEPT ![n] = [p \in Node |-> None]]
        BY <2>3 DEF Down
      <3> QED BY <1>1, <3>1
    <2> QED
      BY <2>1, <2>2, <2>3
         DEF Receive, ReceiveInit, ReceiveResponse, ReceiveTransport, IgnoreUnknownSource,
             ReceiveRelayedInit, ReceiveRelayedResponse, ReceiveRelayedTransport,
             ForwardRelay, DropStrangersRelay, tables
  <1>3. \A x \in InFlight' : x \in InFlight \/ Routed(x)
    <2>1. CASE ReceiveInit(n, d)
      <3> DEFINE p == Sender(n, d.src, d.msg)
                 s == CountInit(Heard(n, p, d.src))
      <3>1. /\ Arrives(n, d) /\ p # None
            /\ net' = Consume(d) \/ AnswerInit(n, p, s, d, d.msg, FALSE)
        BY <2>1 DEF ReceiveInit
      <3>2. PICK q : q = p
        OBVIOUS
      <3>3. q \in Known(n)
        BY <3>1, <3>2, DatagramTypes, SenderKnown DEF AtHome, IInv
      <3>4. net' = Consume(d) \/ \E r : AnswerInit(n, q, r, d, d.msg, FALSE)
        BY <3>1, <3>2
      <3> HIDE DEF p, s
      <3> QED BY <3>1, <3>3, <3>4, AnswerRouted, DatagramsConsumed DEF AtHome
    <2>2. CASE ReceiveRelayedInit(n, d)
      <3>1. PICK p : p = d.msg.from
        OBVIOUS
      <3>2. /\ p \in Known(n) /\ Arrives(n, d) /\ d.msg.type = "RELAY" /\ d.msg.dest = n
            /\ AnswerInit(n, p, HeardRelayed(n, p), d, d.msg.inner, TRUE)
        BY <2>2, <3>1 DEF ReceiveRelayedInit, ArrivesRelayed, OriginalSender
      <3> QED BY <3>1, <3>2, AnswerRouted
    <2>3. CASE ForwardRelay(n, d)
      BY <2>3, ForwardRelayRouted
    <2>4. CASE net' = Consume(d)
      BY <2>4, DatagramsConsumed DEF AtHome
    <2> QED
      BY <2>1, <2>2, <2>3, <2>4
         DEF Receive, ReceiveResponse, ReceiveTransport, IgnoreUnknownSource,
             ReceiveRelayedResponse, ReceiveRelayedTransport, DropStrangersRelay
  <1> QED BY <1>2, <1>3, LearnedKept DEF AtHome

(* Time, the network and the daemons: a stop forgets what was learnt. *)
LEMMA OtherLearned ==
  ASSUME AtHome,
         \/ UNCHANGED vars \/ Tick
         \/ \E d \in InFlight : Lose(d) \/ Duplicate(d) \/ Vanish(d)
         \/ \E n \in Node, a \in Addr : Rebind(n, a)
         \/ \E n \in Node : Start(n) \/ Stop(n)
  PROVE  LearnedOK'
  <1>1. /\ \A k, p \in Node : learned_endpoints[k][p] \in {None, HomeAddr[p]}
        /\ learned_endpoints \in [Node -> [Node -> Addr \cup {None}]]
    BY DEF AtHome, LearnedOK, IInv, WorldOK
  <1>2. \A k, p \in Node : learned_endpoints'[k][p] \in {None, HomeAddr[p]}
    <2>1. CASE learned_endpoints' = learned_endpoints
      BY <1>1, <2>1
    <2>2. CASE \E n \in Node : Stop(n)
      <3>1. PICK n \in Node :
               learned_endpoints' = [learned_endpoints EXCEPT ![n] = [p \in Node |-> None]]
        BY <2>2 DEF Stop, Down
      <3> QED BY <1>1, <3>1
    <2> QED BY <2>1, <2>2 DEF vars, Tick, Lose, Duplicate, Vanish, Rebind, Start, tables
  <1>3. InFlight' \subseteq InFlight
    <2>1. CASE \E d \in InFlight : Lose(d) \/ Vanish(d)
      BY <2>1, DatagramsConsumed DEF Lose, Vanish, AtHome
    <2>2. CASE \E d \in InFlight : Duplicate(d)
      <3>1. IsABag(net) /\ BagToSet(net) = InFlight
        BY DEF AtHome, IInv, WorldOK, InFlight
      <3>2. PICK d \in InFlight : net' = net (+) SetToBag({d})
        BY <2>2 DEF Duplicate
      <3>3. InFlight' = InFlight \cup {d}
        BY <3>1, <3>2, BagOfSet, BagSum DEF InFlight
      <3> QED BY <3>3
    <2>3. CASE net' = net
      BY <2>3 DEF InFlight
    <2> QED BY <2>1, <2>2, <2>3 DEF vars, Tick, Rebind, Start, Stop
  <1> QED BY <1>2, <1>3, LearnedKept DEF AtHome

(* LearnedOK is inductive relative to the other invariants, where relays are
   known. *)
LEMMA NextKeepsLearned == AtHome /\ RelaysKnown /\ [Next]_vars => LearnedOK'
  <1> SUFFICES ASSUME AtHome, RelaysKnown, [Next]_vars PROVE LearnedOK'
    OBVIOUS
  <1>1. ASSUME NEW n \in Node, NEW p \in Node, PeerStep(n, p) PROVE LearnedOK'
    BY <1>1, PeerStepLearned
  <1>2. ASSUME NEW n \in Node, NEW d \in InFlight, Receive(n, d) PROVE LearnedOK'
    BY <1>2, ReceiveLearned
  <1> QED BY <1>1, <1>2, OtherLearned DEF Next

(* In every execution without NAT changes in which a node that knows a peer
   knows the relay between them, what it learns as the address of a peer is the
   address that peer sends from: a RELAY keeps its header when it is forwarded,
   and its source address is recognised as a relay's before it is taken for the
   author's. *)
THEOREM LearnedStaysOwn ==
  ASSUME NEW flags, PlainFlags(flags), Roaming = {}
  PROVE  Spec /\ []RelaysKnown => []LearnedIsOwnAddress
  <1>1. AddressesIdentify
    BY FlagsIdentify
  <1>2. Init => LearnedOK
    BY BagEmpty DEF Init, LearnedOK, InFlight
  <1>3. IInv /\ AttributionOK /\ LearnedOK /\ RelaysKnown /\ [Next]_vars => LearnedOK'
    BY <1>1, NextKeepsLearned DEF AtHome
  <1>4. AttributionOK /\ LearnedOK => LearnedIsOwnAddress
    BY DEF AttributionOK, AddressesOK, LearnedOK, LearnedIsOwnAddress
  <1>5. Spec => []AttributionOK
    BY AttributionInvariance
  <1> QED BY <1>2, <1>3, <1>4, <1>5, Invariance, PTL DEF Spec
=============================================================================
