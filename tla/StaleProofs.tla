---------------------------- MODULE StaleProofs ----------------------------
(***************************************************************************)
(* What a stale session decrypts.                                          *)
(*                                                                         *)
(* handle_transport drops what arrives on a stale session, the TRANSPORT   *)
(* branch of handle_relay does not look at `stale`.  Between the two are   *)
(* the handshakes: one that recovers a session also replaces its key, and  *)
(* a rekey that is in flight when its peer goes stale would do so without  *)
(* clearing `stale`.                                                       *)
(***************************************************************************)
EXTENDS PromptProofs

(* No rekey is in flight on a stale session: maintenance() looks at the silence
   of a peer only when none is, and starts none once the peer is stale. *)
NoStaleRekey(s) == s.stale => ~IsRekeying(s)

StaleOK == \A q \in Sessions : NoStaleRekey(Session(q))

(* From s to r nothing was decrypted while s was stale. *)
Drops(s, r) ==
    (s.stale /\ IsReady(s) /\ IsReady(r)) =>
        \/ r.state.transport.key # s.state.transport.key
        \/ r.state.transport.recv = s.state.transport.recv

StaleDrops ==
    \A q \in ReadySessions :
        (Session(q).stale /\ q \in ReadySessions')
            => \/ TransportOf(q)'.key # TransportOf(q).key
               \/ TransportOf(q)'.recv = TransportOf(q).recv

-----------------------------------------------------------------------------
(* Sessions: what the handlers make of s. *)

Kept(s, r) == NoStaleRekey(r) /\ Drops(s, r)

(* Timers, counters, endpoints. *)
LEMMA SameStateKept ==
  ASSUME NEW s, NoStaleRekey(s), NEW r, r.state = s.state, r.stale = s.stale
  PROVE  Kept(s, r)
  BY DEF Kept, NoStaleRekey, Drops, IsReady, IsRekeying

(* Outside Ready nothing is encrypted, nor a rekey in flight. *)
LEMMA NotReadyKept ==
  ASSUME NEW s, NEW r, ~IsReady(r)
  PROVE  Kept(s, r)
  BY DEF Kept, NoStaleRekey, Drops, IsRekeying

(* A session that is not stale afterwards and gets a new key, or was not stale
   before. *)
LEMMA FreshKept ==
  ASSUME NEW s, NEW r, ~r.stale \/ ~IsRekeying(r),
         \/ ~s.stale \/ ~IsReady(s)
         \/ IsReady(r) => r.state.transport.key # s.state.transport.key
  PROVE  Kept(s, r)
  BY DEF Kept, NoStaleRekey, Drops

(* handle_response: on a stale session no rekey is in flight, so the state
   becomes Init. *)
LEMMA ResponseKept ==
  ASSUME NEW s \in PeerSession, NoStaleRekey(s), NEW m
  PROVE  Kept(s, HandleResponse(s, m))
  <1> DEFINE t == Initiated(m)
             done == [s EXCEPT !.state = Established(t), !.last_handshake_at = 0]
             init == [s EXCEPT !.state = [tag |-> "Init"]]
             aborted == [s EXCEPT !.state.rehandshake = None]
  <1>1. done.stale = s.stale /\ done.state = Established(t)
    <2> HIDE DEF t
    <2> QED BY DEF PeerSession
  <1>2. ~IsRekeying(done)
    <2> HIDE DEF t, done
    <2> QED BY <1>1 DEF IsRekeying, Established
  <1>3. ~IsReady(init)
    <2>1. init.state = [tag |-> "Init"]
      BY DEF PeerSession
    <2> HIDE DEF init
    <2> QED BY <2>1 DEF IsReady
  <1>4. aborted.stale = s.stale
    BY DEF PeerSession
  <1>5. CASE IsRekeying(s)
    <2>1. ~s.stale
      BY <1>5 DEF NoStaleRekey
    <2>2. HandleResponse(s, m) \in {done, aborted}
      BY <1>5 DEF HandleResponse, RekeyResponse
    <2> HIDE DEF done, aborted
    <2> QED BY <1>1, <1>4, <2>1, <2>2, FreshKept
  <1>6. CASE ~IsRekeying(s)
    <2>1. \/ HandleResponse(s, m) = done /\ IsInitiating(s)
          \/ HandleResponse(s, m) = init
      BY <1>6 DEF HandleResponse, FirstResponse
    <2>2. IsInitiating(s) => ~IsReady(s)
      BY DEF IsInitiating, IsReady
    <2> HIDE DEF done, init
    <2> QED BY <1>2, <1>3, <2>1, <2>2, FreshKept, NotReadyKept
  <1> QED BY <1>5, <1>6

(* handle_transport drops what a stale session gets. *)
LEMMA TransportKept ==
  ASSUME NEW s \in PeerSession, NoStaleRekey(s), NEW m
  PROVE  /\ Kept(s, HandleTransport(s, m))
         /\ NoStaleRekey(HandleRelayedTransport(s, m))
  <1> DEFINE t == AfterDecrypt(s.state.transport)
             ready == [s.state EXCEPT !.transport = t]
             r == [s EXCEPT !.state = ready]
  <1>1. ASSUME IsReady(s)
        PROVE  r.stale = s.stale /\ (IsRekeying(r) => IsRekeying(s))
    <2>1. s.state \in ReadyState
      BY <1>1, ReadyStates
    <2> HIDE DEF t
    <2>2. ready.rehandshake = s.state.rehandshake
      BY <2>1 DEF ReadyState
    <2> HIDE DEF ready
    <2>3. r.stale = s.stale /\ r.state = ready
      BY DEF PeerSession
    <2> HIDE DEF r
    <2> QED BY <1>1, <2>2, <2>3 DEF IsRekeying
  <1>2. HandleRelayedTransport(s, m) = s \/ (IsReady(s) /\ HandleRelayedTransport(s, m) = r)
    BY DEF HandleRelayedTransport
  <1>3. Kept(s, s)
    BY SameStateKept
  <1> HIDE DEF r
  <1>4. NoStaleRekey(HandleRelayedTransport(s, m))
    BY <1>1, <1>2 DEF NoStaleRekey
  <1>5. CASE s.stale
    BY <1>3, <1>4, <1>5 DEF HandleTransport
  <1>6. CASE ~s.stale
    BY <1>4, <1>6 DEF HandleTransport, Kept, Drops
  <1> QED BY <1>4, <1>5, <1>6

-----------------------------------------------------------------------------
(* Steps. *)

(* One session changes. *)
LEMMA OneSessionKept ==
  ASSUME IInv, StaleOK, NEW n \in Node, NEW p \in Node,
         NEW r, Install(n, p, r), NoStaleRekey(r)
  PROVE  /\ StaleOK'
         /\ (p \in Known(n) => Drops(peers[n][p], r)) => StaleDrops
  <1> DEFINE q == <<n, p>>
  <1>1. /\ peers \in [Node -> [Node -> PeerSession \cup {Absent}]]
        /\ peers' = [peers EXCEPT ![n][p] = r]
    BY DEF IInv, TablesOK, Install
  <1>2. /\ peers'[n][p] = r
        /\ \A u \in Node \X Node : u # q => peers'[u[1]][u[2]] = peers[u[1]][u[2]]
    BY <1>1
  <1>3. \A u \in Sessions' :
           IF u = q THEN Session(u)' = r
                    ELSE u \in Sessions /\ Session(u)' = Session(u)
    BY <1>2 DEF Sessions, Session, Known
  <1>4. Session(q) = peers[n][p] /\ (q \in Sessions => p \in Known(n))
    BY DEF Session, Sessions
  <1> HIDE DEF q
  <1>5. \A u \in Sessions' : NoStaleRekey(Session(u)')
    BY <1>3 DEF StaleOK
  <1>6. StaleOK'
    BY <1>5 DEF StaleOK, NoStaleRekey, IsRekeying, IsReady
  <1>7. ASSUME p \in Known(n) => Drops(peers[n][p], r)
        PROVE  StaleDrops
    <2> SUFFICES ASSUME NEW u \in ReadySessions, Session(u).stale, u \in ReadySessions'
                 PROVE  \/ TransportOf(u)'.key # TransportOf(u).key
                        \/ TransportOf(u)'.recv = TransportOf(u).recv
      BY DEF StaleDrops
    <2>1. /\ u \in Sessions /\ u \in Sessions'
          /\ IsReady(Session(u)) /\ IsReady(Session(u)')
      BY DEF ReadySessions, IsReady
    <2>2. CASE u = q
      BY <1>3, <1>4, <1>7, <2>1, <2>2 DEF Drops, TransportOf
    <2>3. CASE u # q
      BY <1>3, <2>1, <2>3 DEF TransportOf
    <2> QED BY <2>2, <2>3
  <1> QED BY <1>6, <1>7

(* No session changes, or some end. *)
LEMMA FewerKept ==
  ASSUME StaleOK, \A q \in Sessions' : q \in Sessions /\ Session(q)' = Session(q)
  PROVE  StaleOK' /\ StaleDrops
  <1>1. \A u \in Sessions' : NoStaleRekey(Session(u)')
    BY DEF StaleOK
  <1>2. StaleOK'
    BY <1>1 DEF StaleOK, NoStaleRekey, IsRekeying, IsReady
  <1>3. StaleDrops
    BY DEF StaleDrops, ReadySessions, TransportOf
  <1> QED BY <1>2, <1>3

(* A daemon that ends takes its sessions with it. *)
LEMMA DownKept ==
  ASSUME IInv, StaleOK, NEW n \in Node, Down(n)
  PROVE  StaleOK' /\ StaleDrops
  <1>1. \A u \in Node \X Node : peers'[u[1]][u[2]] # Absent
           => peers[u[1]][u[2]] # Absent /\ peers'[u[1]][u[2]] = peers[u[1]][u[2]]
    BY DEF IInv, TablesOK, Down
  <1>2. \A q \in Sessions' : q \in Sessions /\ Session(q)' = Session(q)
    <2> SUFFICES ASSUME NEW q \in Sessions'
                 PROVE  q \in Sessions /\ Session(q)' = Session(q)
      OBVIOUS
    <2>1. q \in Node \X Node /\ peers'[q[1]][q[2]] # Absent
      BY DEF Sessions, Known
    <2> QED BY <1>1, <2>1 DEF Sessions, Known, Session
  <1> QED BY <1>2, FewerKept

(* The session a handler works on. *)
LEMMA KnownKept ==
  ASSUME IInv, StaleOK, NEW n \in Node, NEW p \in Known(n)
  PROVE  /\ p \in Node /\ peers[n][p] \in PeerSession /\ NoStaleRekey(peers[n][p])
  <1>1. p \in Node /\ peers[n][p] \in PeerSession
    BY KnownSession DEF IInv, Legal
  <1>2. <<n, p>> \in Sessions /\ Session(<<n, p>>) = peers[n][p]
    BY <1>1 DEF Sessions, Session
  <1> QED BY <1>1, <1>2 DEF StaleOK

(* The same after a datagram has been counted. *)
LEMMA HeardKept ==
  ASSUME IInv, StaleOK, NEW n \in Node, NEW p \in Known(n), NEW src \in Addr
  PROVE  \A h \in {Heard(n, p, src), HeardRelayed(n, p)} :
            /\ LegalHeard(h) /\ h \in PeerSession /\ NoStaleRekey(h)
            /\ h.state = peers[n][p].state /\ h.stale = peers[n][p].stale
  <1>1. peers[n][p] \in PeerSession /\ NoStaleRekey(peers[n][p])
    BY KnownKept
  <1>2. /\ Heard(n, p, src).stale = peers[n][p].stale
        /\ HeardRelayed(n, p).stale = peers[n][p].stale
    BY <1>1 DEF Heard, HeardRelayed, PeerSession
  <1>3. \A h \in {Heard(n, p, src), HeardRelayed(n, p)} :
           /\ LegalHeard(h) /\ h.state = peers[n][p].state
    BY HeardState
  <1> QED BY <1>1, <1>2, <1>3 DEF LegalHeard, Legal, NoStaleRekey, IsRekeying, IsReady

(* What a handler does to a session that was heard. *)
LEMMA HandledKept ==
  ASSUME IInv, StaleOK, NEW n \in Node, NEW p \in Known(n),
         NEW h, h.state = peers[n][p].state, h.stale = peers[n][p].stale,
         NEW r, Kept(h, r), Install(n, p, r)
  PROVE  StaleOK' /\ StaleDrops
  <1>1. Drops(peers[n][p], r)
    BY DEF Kept, Drops, IsReady
  <1> QED BY <1>1, KnownKept, OneSessionKept DEF Kept

(* An INIT: what is answered in Ready recovers the session, with a new key. *)
LEMMA AnswerKept ==
  ASSUME IInv, StaleOK, NEW n \in Node, NEW p \in Known(n),
         NEW s, LegalHeard(s), s.state = peers[n][p].state, s.stale = peers[n][p].stale,
         NEW d, NEW m \in InitMessage, NEW relayed \in BOOLEAN,
         AnswerInit(n, p, s, d, m, relayed)
  PROVE  StaleOK' /\ StaleDrops
  <1> DEFINE t == NewTransport(Fresh, "responder", m.from)
             spent == [s EXCEPT !.state.spent = TRUE]
             unspent == [s EXCEPT !.state = FreshResponder]
             rekeyed == RekeyAsResponder(s, t)
             ready == BecomeReady(s, t)
  <1>1. s \in PeerSession /\ NoStaleRekey(s)
    BY KnownKept DEF LegalHeard, Legal, NoStaleRekey, IsRekeying, IsReady
  <1>2. Kept(s, s)
    BY <1>1, SameStateKept
  <1>3. ASSUME IsResponding(s)
        PROVE  Kept(s, spent) /\ Kept(s, unspent)
    <2> DEFINE state == [s.state EXCEPT !.spent = TRUE]
    <2>1. s.state \in ResponderState
      BY <1>1, <1>3, ReadyStates
    <2>2. state.tag = "HandshakingAsResponder"
      BY <2>1 DEF ResponderState
    <2>3. spent = [s EXCEPT !.state = state]
      OBVIOUS
    <2> HIDE DEF state
    <2>4. spent.state = state /\ unspent.state = FreshResponder
      BY <1>1, <2>3 DEF PeerSession
    <2> HIDE DEF spent, unspent
    <2>5. ~IsReady(spent) /\ ~IsReady(unspent)
      BY <2>2, <2>4 DEF IsReady, FreshResponder
    <2> QED BY <2>5, NotReadyKept
  <1>4. ASSUME Unused # {}
        PROVE  /\ IsReady(s) => Kept(s, rekeyed)
               /\ ~IsReady(s) => Kept(s, ready)
    <2>1. t.key = Fresh
      BY DEF NewTransport
    <2> HIDE DEF t
    <2>2. ASSUME IsReady(s)
          PROVE  Kept(s, rekeyed)
      <3> DEFINE state == [s.state EXCEPT !.transport = t]
      <3>1. s.state \in ReadyState
        BY <1>1, <2>2, ReadyStates
      <3>2. state.transport = t
        BY <3>1 DEF ReadyState
      <3>3. rekeyed = [s EXCEPT !.state = state, !.last_handshake_at = 0, !.stale = FALSE]
        BY DEF RekeyAsResponder
      <3> HIDE DEF state
      <3>4. rekeyed.state = state /\ ~rekeyed.stale
        <4> HIDE DEF rekeyed
        <4> QED BY <1>1, <3>3 DEF PeerSession
      <3>5. s.state.transport.key # Fresh
        <4>1. <<n, p>> \in ReadySessions /\ TransportOf(<<n, p>>) = s.state.transport
          BY <2>2, KnownKept
             DEF ReadySessions, Sessions, Session, TransportOf, IsReady
        <4>2. TransportOf(<<n, p>>).key # Fresh
          BY <1>4, <4>1, FreshUnused
        <4> QED BY <4>1, <4>2
      <3> HIDE DEF rekeyed
      <3> QED BY <2>1, <3>2, <3>4, <3>5, FreshKept
    <2>3. ASSUME ~IsReady(s)
          PROVE  Kept(s, ready)
      <3>1. ready.state = Established(t)
        BY <1>1 DEF BecomeReady, PeerSession
      <3> HIDE DEF ready
      <3>2. ~IsRekeying(ready)
        BY <3>1 DEF IsRekeying, Established
      <3> QED BY <2>3, <3>2, FreshKept
    <2> QED BY <2>2, <2>3
  <1>5. PICK r : Kept(s, r) /\ Install(n, p, r)
    <2> HIDE DEF t
    <2>1. \/ /\ Unused # {} /\ (IsResponding(s) \/ IsReady(s))
             /\ \E ok \in SendOutcomes :
                  Install(n, p,
                    CASE IsReady(s) /\ ok -> rekeyed
                      [] IsReady(s) /\ ~ok -> s
                      [] ~IsReady(s) /\ ok -> ready
                      [] OTHER -> spent)
          \/ Install(n, p, IF IsResponding(s) THEN unspent ELSE s)
      BY DEF AnswerInit, t
    <2> HIDE DEF rekeyed, ready, spent, unspent
    <2>2. CASE Install(n, p, IF IsResponding(s) THEN unspent ELSE s)
      BY <1>1, <1>2, <1>3, <2>2
    <2>3. ASSUME Unused # {}, IsResponding(s) \/ IsReady(s), NEW ok \in BOOLEAN,
                 Install(n, p, CASE IsReady(s) /\ ok -> rekeyed
                                 [] IsReady(s) /\ ~ok -> s
                                 [] ~IsReady(s) /\ ok -> ready
                                 [] OTHER -> spent)
          PROVE  \E r : Kept(s, r) /\ Install(n, p, r)
      <3>1. CASE IsReady(s) /\ ok
        BY <1>4, <2>3, <3>1
      <3>2. CASE IsReady(s) /\ ~ok
        BY <1>1, <1>2, <2>3, <3>2
      <3>3. CASE ~IsReady(s) /\ ok
        BY <1>4, <2>3, <3>3
      <3>4. CASE ~IsReady(s) /\ ~ok
        BY <1>3, <2>3, <3>4
      <3> QED BY <3>1, <3>2, <3>3, <3>4
    <2> QED BY <2>1, <2>2, <2>3 DEF SendOutcomes
  <1> QED BY <1>5, HandledKept

(* INITs, direct and inside a RELAY. *)
LEMMA ReceiveInitKept ==
  ASSUME IInv, StaleOK, NEW n \in Node, NEW d \in InFlight,
         ReceiveInit(n, d) \/ ReceiveRelayedInit(n, d)
  PROVE  StaleOK' /\ StaleDrops
  <1>1. CASE ReceiveInit(n, d)
    <2>1. PICK p : p = Sender(n, d.src, d.msg)
      OBVIOUS
    <2>2. p \in Known(n) /\ d.src \in Addr /\ d.msg \in InitMessage
      BY <1>1, <2>1, SenderKnown, DatagramTypes DEF ReceiveInit, IInv
    <2> DEFINE h == Heard(n, p, d.src)
               s == CountInit(h)
    <2>3. LegalHeard(h) /\ h.state = peers[n][p].state /\ h.stale = peers[n][p].stale
      BY <2>2, HeardKept
    <2> HIDE DEF h
    <2>4. LegalHeard(s) /\ s.state = h.state /\ s.stale = h.stale
      <3>1. h \in PeerSession
        BY <2>3 DEF LegalHeard, Legal
      <3>2. s.stale = h.stale
        BY <3>1 DEF CountInit, PeerSession
      <3> QED BY <2>3, <3>2, CountInitLegal
    <2>5. Down(n) \/ AnswerInit(n, p, s, d, d.msg, FALSE)
      BY <1>1, <2>1 DEF ReceiveInit, h
    <2> HIDE DEF s
    <2> QED BY <2>2, <2>3, <2>4, <2>5, AnswerKept, DownKept
  <1>2. CASE ReceiveRelayedInit(n, d)
    <2>1. PICK p : p = d.msg.from
      OBVIOUS
    <2> DEFINE h == HeardRelayed(n, p)
               m == d.msg.inner
    <2>2. /\ p \in Known(n) /\ m \in InitMessage
          /\ AnswerInit(n, p, h, d, m, TRUE)
      BY <1>2, <2>1, DatagramTypes, InnerTypes
         DEF ReceiveRelayedInit, ArrivesRelayed, OriginalSender, IInv
    <2>3. LegalHeard(h) /\ h.state = peers[n][p].state /\ h.stale = peers[n][p].stale
      BY <2>2, HeardKept, ConfigAssumption
    <2> HIDE DEF h, m
    <2> QED BY <2>2, <2>3, AnswerKept
  <1> QED BY <1>1, <1>2

(* RESPONSEs on either path, a direct TRANSPORT, a RELAY for somebody else. *)
LEMMA ReceiveOtherKept ==
  ASSUME IInv, StaleOK, NEW n \in Node, NEW d \in InFlight,
         \/ ReceiveResponse(n, d) \/ ReceiveRelayedResponse(n, d)
         \/ ReceiveTransport(n, d) \/ ForwardRelay(n, d)
  PROVE  StaleOK' /\ StaleDrops
  <1>1. PICK p \in Known(n), h \in PeerSession :
           /\ h.state = peers[n][p].state /\ h.stale = peers[n][p].stale
           /\ \E r : Kept(h, r) /\ Install(n, p, r)
    <2>1. ASSUME NEW p \in Known(n), NEW h, NEW src \in Addr,
                 h \in {Heard(n, p, src), HeardRelayed(n, p)}
          PROVE  /\ h \in PeerSession
                 /\ h.state = peers[n][p].state /\ h.stale = peers[n][p].stale
                 /\ \A m : Kept(h, HandleResponse(h, m)) /\ Kept(h, HandleTransport(h, m))
                 /\ Kept(h, h)
      <3>1. /\ h \in PeerSession /\ NoStaleRekey(h)
            /\ h.state = peers[n][p].state /\ h.stale = peers[n][p].stale
        BY <2>1, HeardKept
      <3> QED BY <3>1, ResponseKept, TransportKept, SameStateKept
    <2>2. CASE ReceiveResponse(n, d)
      <3>1. PICK p : p = Sender(n, d.src, d.msg)
        OBVIOUS
      <3>2. /\ p \in Known(n) /\ d.src \in Addr
            /\ Install(n, p, HandleResponse(Heard(n, p, d.src), d.msg))
        BY <2>2, <3>1, SenderKnown, DatagramTypes DEF ReceiveResponse, IInv
      <3> QED BY <2>1, <3>2
    <2>3. CASE ReceiveRelayedResponse(n, d)
      <3>1. PICK p : p = d.msg.from
        OBVIOUS
      <3>2. /\ p \in Known(n) /\ d.src \in Addr
            /\ Install(n, p, HandleResponse(HeardRelayed(n, p), d.msg.inner))
        BY <2>3, <3>1, DatagramTypes, InnerTypes
           DEF ReceiveRelayedResponse, ArrivesRelayed, OriginalSender, IInv
      <3> QED BY <2>1, <3>2
    <2>4. CASE ReceiveTransport(n, d)
      <3>1. PICK p : p = Sender(n, d.src, d.msg)
        OBVIOUS
      <3>2. /\ p \in Known(n) /\ d.src \in Addr
            /\ Install(n, p, HandleTransport(Heard(n, p, d.src), d.msg))
        BY <2>4, <3>1, SenderKnown, DatagramTypes DEF ReceiveTransport, IInv
      <3> QED BY <2>1, <3>2
    <2>5. CASE ForwardRelay(n, d)
      <3>1. PICK p : p = d.msg.from
        OBVIOUS
      <3>2. /\ p \in Known(n) /\ d.src \in Addr /\ Install(n, p, HeardRelayed(n, p))
        BY <2>5, <3>1, DatagramTypes DEF ForwardRelay, ArrivesRelayed, IInv
      <3> QED BY <2>1, <3>2
    <2> QED BY <2>2, <2>3, <2>4, <2>5
  <1> QED BY <1>1, HandledKept

(* A TRANSPORT inside a RELAY: the one step that may decrypt on a stale
   session. *)
LEMMA ReceiveRelayedTransportKept ==
  ASSUME IInv, StaleOK, NEW n \in Node, NEW d \in InFlight,
         ReceiveRelayedTransport(n, d)
  PROVE  StaleOK'
  <1>1. PICK p : p = d.msg.from
    OBVIOUS
  <1> DEFINE h == HeardRelayed(n, p)
             r == HandleRelayedTransport(h, d.msg.inner)
  <1>2. p \in Known(n) /\ Install(n, p, r)
    BY <1>1 DEF ReceiveRelayedTransport, ArrivesRelayed, OriginalSender
  <1>3. h \in PeerSession /\ NoStaleRekey(h)
    BY <1>2, HeardKept, ConfigAssumption
  <1> HIDE DEF h
  <1>4. NoStaleRekey(r)
    BY <1>3, TransportKept
  <1> HIDE DEF r
  <1> QED BY <1>2, <1>4, KnownKept, OneSessionKept

(* Every datagram that is received. *)
LEMMA ReceiveKept ==
  ASSUME IInv, StaleOK, NEW n \in Node, NEW d \in InFlight, Receive(n, d)
  PROVE  StaleOK' /\ (StaleDrops \/ ReceiveRelayedTransport(n, d))
  <1>1. ASSUME IgnoreUnknownSource(n, d) \/ DropStrangersRelay(n, d)
        PROVE  StaleOK' /\ StaleDrops
    <2>1. peers' = peers
      BY <1>1 DEF IgnoreUnknownSource, DropStrangersRelay
    <2>2. \A q \in Sessions' : q \in Sessions /\ Session(q)' = Session(q)
      BY <2>1 DEF Sessions, Session, Known
    <2> QED BY <2>2, FewerKept
  <1> QED BY <1>1, ReceiveInitKept, ReceiveOtherKept, ReceiveRelayedTransportKept
             DEF Receive

(* Timers, TUN packets, maintenance and new peers: nothing is decrypted. *)
LEMMA PeerStepKept ==
  ASSUME IInv, StaleOK, NEW n \in Node, NEW p \in Node, PeerStep(n, p)
  PROVE  StaleOK' /\ StaleDrops
  <1> DEFINE s == peers[n][p]
  <1>1. ASSUME p \in Known(n), NEW r, Kept(s, r), Install(n, p, r)
        PROVE  StaleOK' /\ StaleDrops
    BY <1>1, OneSessionKept DEF Kept
  <1>2. ASSUME p \in Known(n)
        PROVE  s \in PeerSession /\ NoStaleRekey(s)
    BY <1>2, KnownKept
  <1>3. CASE AddPeer(n, p)
    <2>1. NoStaleRekey(NewSession(n, p, Fresh))
      BY DEF NewSession, NoStaleRekey
    <2> QED BY <1>3, <2>1, OneSessionKept DEF AddPeer
  <1>4. CASE SendInit(n, p) \/ ClearInitTimer(n, p)
    <2>1. /\ p \in Known(n)
          /\ \E r \in {s, InitSent(s), InitDone(s)} : Install(n, p, r)
      BY <1>4 DEF SendInit, ClearInitTimer
    <2>2. s \in PeerSession /\ NoStaleRekey(s)
      BY <1>2, <2>1
    <2> HIDE DEF s
    <2>3. \A r \in {s, InitSent(s), InitDone(s)} : r.state = s.state /\ r.stale = s.stale
      BY <2>2 DEF InitSent, InitDone, PeerSession
    <2>4. \A r \in {s, InitSent(s), InitDone(s)} : Kept(s, r)
      BY <2>2, <2>3, SameStateKept
    <2> QED BY <1>1, <2>1, <2>4
  <1>5. CASE DispatchTunPacket(n, p)
    <2> DEFINE u == AfterEncrypt(s.state.transport)
               tx(ok) == IF ok THEN 0 ELSE s.last_tx_at
               r(ok) == [s EXCEPT !.state.transport = u, !.last_tx_at = tx(ok)]
               ready == [s.state EXCEPT !.transport = u]
    <2>1. PICK ok \in SendOutcomes : Install(n, p, r(ok))
      BY <1>5 DEF DispatchTunPacket
    <2>2. p \in Known(n) /\ IsReady(s)
      BY <1>5 DEF DispatchTunPacket
    <2>3. s \in PeerSession /\ NoStaleRekey(s) /\ s.state \in ReadyState
      BY <1>2, <2>2, ReadyStates
    <2>4. u.key = s.state.transport.key /\ u.recv = s.state.transport.recv
      BY <2>3 DEF ReadyState, Transport, AfterEncrypt
    <2>5. r(ok) = [s EXCEPT !.state = ready, !.last_tx_at = tx(ok)]
      OBVIOUS
    <2> HIDE DEF s, u, r, tx
    <2>6. ready.transport = u /\ ready.rehandshake = s.state.rehandshake
      BY <2>3 DEF ReadyState
    <2> HIDE DEF ready
    <2>7. r(ok).state = ready /\ r(ok).stale = s.stale
      BY <2>3, <2>5 DEF PeerSession
    <2>8. Kept(s, r(ok))
      BY <2>2, <2>3, <2>4, <2>6, <2>7 DEF Kept, Drops, NoStaleRekey, IsRekeying
    <2> QED BY <1>1, <2>1, <2>2, <2>8
  <1>6. CASE MarkStale(n, p)
    <2> DEFINE r == [s EXCEPT !.stale = TRUE]
    <2>1. p \in Known(n) /\ ~IsRekeying(s) /\ ~s.stale /\ Install(n, p, r)
      BY <1>6 DEF MarkStale, Maintained
    <2>2. s \in PeerSession
      BY <1>2, <2>1
    <2> HIDE DEF s
    <2>3. r.state = s.state
      BY <2>2 DEF PeerSession
    <2> HIDE DEF r
    <2>4. Kept(s, r)
      BY <2>1, <2>3 DEF Kept, Drops, NoStaleRekey, IsRekeying, IsReady
    <2> QED BY <1>1, <2>1, <2>4
  <1>7. CASE RetryRekey(n, p)
    <2> DEFINE again == [s EXCEPT !.state.rehandshake.next_retry_at = INIT_RETRY_INTERVAL]
               state == [s.state EXCEPT !.rehandshake.next_retry_at = INIT_RETRY_INTERVAL]
    <2>1. p \in Known(n) /\ ~s.stale /\ (Install(n, p, again) \/ Install(n, p, s))
      BY <1>7 DEF RetryRekey, Maintained
    <2>2. s \in PeerSession
      BY <1>2, <2>1
    <2>3. again = [s EXCEPT !.state = state]
      OBVIOUS
    <2> HIDE DEF s, state
    <2>4. again.stale = s.stale
      <3> HIDE DEF again
      <3> QED BY <2>2, <2>3 DEF PeerSession
    <2> HIDE DEF again
    <2>5. Kept(s, again) /\ Kept(s, s)
      BY <2>1, <2>4, FreshKept
    <2> QED BY <1>1, <2>1, <2>5
  <1>8. CASE KeepaliveOrRekey(n, p)
    <2> DEFINE tx(probed) == IF probed THEN 0 ELSE s.last_tx_at
               state(started) ==
                   [tag |-> "Ready",
                    transport |-> IF KeepaliveDue(s) THEN AfterEncrypt(s.state.transport)
                                                     ELSE s.state.transport,
                    rehandshake |-> IF started
                                    THEN [initiator |-> Fresh,
                                          next_retry_at |-> INIT_RETRY_INTERVAL]
                                    ELSE None]
               r(probed, started) ==
                   [s EXCEPT !.last_tx_at = tx(probed), !.state = state(started)]
    <2>1. PICK probed \in BOOLEAN, started \in BOOLEAN : Install(n, p, r(probed, started))
      BY <1>8 DEF KeepaliveOrRekey
    <2>2. p \in Known(n) /\ ~s.stale
      BY <1>8 DEF KeepaliveOrRekey, Maintained
    <2>3. s \in PeerSession
      BY <1>2, <2>2
    <2> HIDE DEF s, tx, state
    <2>4. r(probed, started).stale = s.stale
      BY <2>3 DEF PeerSession
    <2> HIDE DEF r
    <2>5. Kept(s, r(probed, started))
      BY <2>2, <2>4, FreshKept
    <2> QED BY <1>1, <2>1, <2>2, <2>5
  <1> QED BY <1>3, <1>4, <1>5, <1>6, <1>7, <1>8 DEF PeerStep, Maintenance

(* Time passes: a session ages, stale or not. *)
LEMMA TickKept ==
  ASSUME IInv, StaleOK, Tick
  PROVE  StaleOK' /\ StaleDrops
  <1>1. \A u \in Sessions' : u \in Sessions /\ Session(u)' = Aged(Session(u))
    BY DEF Tick, Sessions, Session, Known
  <1>2. ASSUME NEW u \in Sessions
        PROVE  /\ NoStaleRekey(Aged(Session(u)))
               /\ IsReady(Aged(Session(u))) =>
                     /\ IsReady(Session(u))
                     /\ Aged(Session(u)).state.transport = Session(u).state.transport
    <2>1. u[1] \in Node /\ u[2] \in Known(u[1]) /\ Session(u) = peers[u[1]][u[2]]
      BY DEF Sessions, Session
    <2>2. Session(u) \in PeerSession /\ NoStaleRekey(Session(u))
      BY <2>1, KnownKept
    <2>3. PICK s : s = Session(u)
      OBVIOUS
    <2> DEFINE r == Aged(s)
    <2>4. r.stale = s.stale /\ (~IsRekeying(s) => r.state = s.state)
      BY <2>2, <2>3 DEF Aged, AgedState, PeerSession
    <2>5. /\ IsReady(r) <=> IsReady(s)
          /\ IsReady(s) => r.state.transport = s.state.transport
      BY <2>2, <2>3, AgedKeeps
    <2> HIDE DEF r
    <2>6. NoStaleRekey(r)
      BY <2>2, <2>3, <2>4 DEF NoStaleRekey, IsRekeying, IsReady
    <2> QED BY <2>3, <2>5, <2>6 DEF r
  <1>3. \A u \in Sessions' : NoStaleRekey(Session(u)')
    BY <1>1, <1>2
  <1>4. StaleOK'
    BY <1>3 DEF StaleOK, NoStaleRekey, IsRekeying, IsReady
  <1>5. StaleDrops
    <2> SUFFICES ASSUME NEW u \in ReadySessions, u \in ReadySessions'
                 PROVE  TransportOf(u)' = TransportOf(u)
      BY DEF StaleDrops
    <2>1. u \in Sessions /\ u \in Sessions' /\ IsReady(Session(u)')
      BY DEF ReadySessions, IsReady
    <2> QED BY <1>1, <1>2, <2>1 DEF TransportOf
  <1> QED BY <1>4, <1>5

(* Loss, duplication, datagrams to nobody, roaming, starts and stops. *)
LEMMA WorldKept ==
  ASSUME IInv, StaleOK,
         \/ \E d \in InFlight : Lose(d) \/ Duplicate(d) \/ Vanish(d)
         \/ \E n \in Node, a \in Addr : Rebind(n, a)
         \/ \E n \in Node : Start(n) \/ Stop(n)
  PROVE  StaleOK' /\ StaleDrops
  <1>1. ASSUME peers' = peers
        PROVE  StaleOK' /\ StaleDrops
    <2>1. \A q \in Sessions' : q \in Sessions /\ Session(q)' = Session(q)
      BY <1>1 DEF Sessions, Session, Known
    <2> QED BY <2>1, FewerKept
  <1>2. ASSUME NEW n \in Node, Stop(n)
        PROVE  StaleOK' /\ StaleDrops
    BY <1>2, DownKept DEF Stop
  <1> QED BY <1>1, <1>2 DEF Lose, Duplicate, Vanish, Rebind, Start

-----------------------------------------------------------------------------

(* A step leaves StaleOK, and decrypts nothing on a stale session unless it
   takes a TRANSPORT out of a RELAY. *)
LEMMA NextKeepsStale ==
  IInv /\ StaleOK /\ [Next]_vars
    => /\ StaleOK'
       /\ \/ StaleDrops
          \/ \E n \in Node, d \in InFlight : ReceiveRelayedTransport(n, d)
  <1> SUFFICES ASSUME IInv, StaleOK, [Next]_vars
               PROVE  /\ StaleOK'
                      /\ \/ StaleDrops
                         \/ \E n \in Node, d \in InFlight : ReceiveRelayedTransport(n, d)
    OBVIOUS
  <1>1. CASE UNCHANGED vars
    <2>1. \A q \in Sessions' : q \in Sessions /\ Session(q)' = Session(q)
      BY <1>1 DEF vars, Sessions, Session, Known
    <2> QED BY <2>1, FewerKept
  <1>2. ASSUME NEW n \in Node, NEW p \in Node, PeerStep(n, p)
        PROVE  StaleOK' /\ StaleDrops
    BY <1>2, PeerStepKept
  <1>3. ASSUME NEW n \in Node, NEW d \in InFlight, Receive(n, d)
        PROVE  /\ StaleOK'
               /\ \/ StaleDrops
                  \/ \E k \in Node, f \in InFlight : ReceiveRelayedTransport(k, f)
    BY <1>3, ReceiveKept
  <1>4. CASE Tick
    BY <1>4, TickKept
  <1> QED BY <1>1, <1>2, <1>3, <1>4, WorldKept DEF Next

(* StaleOK holds in every reachable state: the peer whose silence maintenance()
   noticed has no rekey in flight that could replace its key later without
   clearing `stale`. *)
THEOREM StaleInvariance == Spec => []StaleOK
  <1>1. Init => StaleOK
    BY DEF Init, StaleOK, Sessions, Known
  <1>2. IInv /\ StaleOK /\ [Next]_vars => StaleOK'
    BY NextKeepsStale
  <1> QED BY <1>1, <1>2, Invariance, PTL DEF Spec

(* In every execution, behind relays or not, a session that is stale decrypts
   nothing, except what arrives inside a RELAY: every other step, of any node,
   leaves its replay window as it was or gives it a new key. *)
THEOREM OnlyRelayedDataReachesStale ==
  Spec => [][\/ StaleDrops
             \/ \E n \in Node, d \in InFlight : ReceiveRelayedTransport(n, d)]_vars
  <1>1. IInv /\ StaleOK /\ [Next]_vars
          => [\/ StaleDrops
              \/ \E n \in Node, d \in InFlight : ReceiveRelayedTransport(n, d)]_vars
    BY NextKeepsStale
  <1> QED BY <1>1, Invariance, StaleInvariance, PTL DEF Spec

-----------------------------------------------------------------------------
(* Meshes without relays. *)

Direct == \A n, p \in Node : Config[n][p] # None => Config[n][p].via_relay = None

Unrelayed(d) == d.msg.type # "RELAY"

NoRelays == \A d \in InFlight : Unrelayed(d)

(* Only send_maybe_relay wraps a message, for a peer behind a relay. *)
LEMMA SentUnrelayed ==
  ASSUME IInv, Direct, NEW n \in Node, NEW p \in Known(n),
         NEW m, m.type # "RELAY", NEW endpoint
  PROVE  Unrelayed(SendMaybeRelay(n, p, endpoint, m))
  <1>1. p \in Node /\ Config[n][p] # None
    BY KnownSession DEF IInv, TablesOK, SessionsOK
  <1>2. Config[n][p].via_relay = None
    BY <1>1 DEF Direct
  <1> QED BY <1>2 DEF SendMaybeRelay, Unrelayed

(* The same of a send that may fail. *)
LEMMA MaybeSentUnrelayed ==
  ASSUME IInv, Direct, NEW n \in Node, NEW p \in Known(n),
         NEW m, m.type # "RELAY", NEW endpoint,
         \E ok \in SendOutcomes :
            net' = net (+) (IF ok THEN Delivered({SendMaybeRelay(n, p, endpoint, m)})
                                  ELSE EmptyBag)
  PROVE  \A d \in InFlight' : d \in InFlight \/ Unrelayed(d)
  <1>1. PICK x : x = SendMaybeRelay(n, p, endpoint, m)
    OBVIOUS
  <1>2. \E ok : net' = net (+) (IF ok THEN Delivered({x}) ELSE EmptyBag)
    BY <1>1
  <1>3. IsABag(net) /\ BagToSet(net) \subseteq InFlight
    BY DEF IInv, WorldOK, InFlight
  <1>4. \A d \in InFlight' : d \in InFlight \/ d = x
    BY <1>2, <1>3, DatagramsMaybeSent
  <1> QED BY <1>1, <1>4, SentUnrelayed

(* Timers, TUN packets and new peers. *)
LEMMA PeerStepUnrelayed ==
  ASSUME IInv, Direct, NEW n \in Node, NEW p \in Node, PeerStep(n, p)
  PROVE  \A d \in InFlight' : d \in InFlight \/ Unrelayed(d)
  <1> DEFINE s == peers[n][p]
             Sent(m) == \E ok \in SendOutcomes :
                           net' = net (+)
                             (IF ok THEN Delivered({SendMaybeRelay(n, p, s.endpoint, m)})
                                    ELSE EmptyBag)
  <1>1. CASE AddPeer(n, p) \/ ClearInitTimer(n, p) \/ MarkStale(n, p)
    BY <1>1 DEF AddPeer, ClearInitTimer, MarkStale, InFlight
  <1>2. CASE SendInit(n, p) \/ RetryRekey(n, p) \/ DispatchTunPacket(n, p)
    <2>1. /\ p \in Known(n)
          /\ \/ Sent(WriteInit(n, p, s.state.initiator))
             \/ Sent(WriteInit(n, p, s.state.rehandshake.initiator))
             \/ Sent(Encrypt(s.state.transport))
      BY <1>2 DEF SendInit, RetryRekey, DispatchTunPacket, Maintained
    <2>2. \E m : m.type # "RELAY" /\ Sent(m)
      <3>1. \A e : WriteInit(n, p, e).type # "RELAY"
        BY DEF WriteInit
      <3>2. \A t : Encrypt(t).type # "RELAY"
        BY DEF Encrypt
      <3> HIDE DEF Sent, s
      <3> QED BY <2>1, <3>1, <3>2
    <2> HIDE DEF s
    <2> QED BY <2>1, <2>2, MaybeSentUnrelayed
  <1>3. CASE KeepaliveOrRekey(n, p)
    <2> DEFINE x == SendMaybeRelay(n, p, s.endpoint, Encrypt(s.state.transport))
               y == SendMaybeRelay(n, p, s.endpoint, WriteInit(n, p, Fresh))
               probe == IF KeepaliveDue(s) THEN {x} ELSE {}
               init == IF RekeyDue(n, p, s) THEN {y} ELSE {}
               S(probed, started) ==
                   (IF probed THEN probe ELSE {}) \cup (IF started THEN init ELSE {})
    <2>1. \E probed, started \in BOOLEAN : net' = net (+) Delivered(S(probed, started))
      BY <1>3 DEF KeepaliveOrRekey
    <2>2. Unrelayed(x) /\ Unrelayed(y)
      <3>1. /\ p \in Known(n)
            /\ Encrypt(s.state.transport).type # "RELAY"
            /\ WriteInit(n, p, Fresh).type # "RELAY"
        BY <1>3 DEF KeepaliveOrRekey, Maintained, Encrypt, WriteInit
      <3> QED BY <3>1, SentUnrelayed
    <2> HIDE DEF x, y
    <2>3. \A probed, started : \A d \in S(probed, started) : d = x \/ d = y
      OBVIOUS
    <2> HIDE DEF S
    <2>4. \A d \in InFlight' : d \in InFlight \/ d = x \/ d = y
      BY <2>1, <2>3, DatagramsSent
    <2> QED BY <2>2, <2>4
  <1> QED BY <1>1, <1>2, <1>3 DEF PeerStep, Maintenance

(* A RELAY is answered with a RELAY, an INIT with a RESPONSE. *)
LEMMA ReceiveUnrelayed ==
  ASSUME IInv, NoRelays, NEW n \in Node, NEW d \in InFlight, Receive(n, d)
  PROVE  \A x \in InFlight' : x \in InFlight \/ Unrelayed(x)
  <1>1. \/ net' = Consume(d)
        \/ ReceiveInit(n, d)
    BY DEF Receive, ReceiveResponse, ReceiveTransport, IgnoreUnknownSource,
           ReceiveRelayedInit, ReceiveRelayedResponse, ReceiveRelayedTransport,
           ForwardRelay, DropStrangersRelay, ArrivesRelayed, NoRelays, Unrelayed
  <1>2. CASE net' = Consume(d)
    BY <1>2, DatagramsConsumed
  <1>3. CASE ReceiveInit(n, d)
    <2> DEFINE x == [src |-> addr[n], dst |-> d.src,
                     msg |-> WriteResponse(n, d.msg, Fresh)]
    <2>1. \/ net' = Consume(d)
          \/ \E ok \in SendOutcomes :
                net' = Consume(d) (+) (IF ok THEN Delivered({x}) ELSE EmptyBag)
      BY <1>3 DEF ReceiveInit, AnswerInit
    <2>2. Unrelayed(x)
      BY DEF Unrelayed, WriteResponse
    <2> HIDE DEF x
    <2> QED BY <2>1, <2>2, Consumed, DatagramsConsumed, DatagramsMaybeSent
  <1> QED BY <1>1, <1>2, <1>3

(* Where no peer is behind a relay, no RELAY is ever written. *)
LEMMA NextKeepsDirect ==
  ASSUME Direct
  PROVE  IInv /\ NoRelays /\ [Next]_vars => NoRelays'
  <1> SUFFICES ASSUME IInv, NoRelays, [Next]_vars PROVE NoRelays'
    OBVIOUS
  <1>1. ASSUME \A d \in InFlight' : d \in InFlight \/ Unrelayed(d) PROVE NoRelays'
    BY <1>1 DEF NoRelays
  <1>2. CASE net' = net
    BY <1>1, <1>2 DEF InFlight
  <1>3. ASSUME NEW n \in Node, NEW p \in Node, PeerStep(n, p) PROVE NoRelays'
    BY <1>1, <1>3, PeerStepUnrelayed
  <1>4. ASSUME NEW n \in Node, NEW d \in InFlight, Receive(n, d) PROVE NoRelays'
    BY <1>1, <1>4, ReceiveUnrelayed
  <1>5. ASSUME NEW d \in InFlight, Lose(d) \/ Vanish(d) PROVE NoRelays'
    BY <1>1, <1>5, DatagramsConsumed DEF Lose, Vanish
  <1>6. ASSUME NEW d \in InFlight, Duplicate(d) PROVE NoRelays'
    <2>1. IsABag(net) /\ BagToSet(net) = InFlight
      BY DEF IInv, WorldOK, InFlight
    <2>2. InFlight' = InFlight \cup {d}
      BY <1>6, <2>1, BagOfSet, BagSum DEF Duplicate, InFlight
    <2> QED BY <1>1, <2>2
  <1>7. ASSUME \/ UNCHANGED vars \/ Tick
               \/ \E n \in Node, a \in Addr : Rebind(n, a)
               \/ \E n \in Node : Start(n) \/ Stop(n)
        PROVE  net' = net
    BY <1>7 DEF vars, Tick, Rebind, Start, Stop
  <1> QED BY <1>2, <1>3, <1>4, <1>5, <1>6, <1>7 DEF Next

(* In every execution of a mesh without relays a session that is stale decrypts
   nothing until it has a new key: what an old key still protects, and arrives
   after maintenance() gave the peer up, reaches nobody's TUN device. *)
THEOREM StaleSessionsDropData ==
  ASSUME Direct
  PROVE  Spec => StaleDropsData
  <1>1. Init => NoRelays
    BY BagEmpty DEF Init, NoRelays, InFlight
  <1>2. IInv /\ NoRelays /\ [Next]_vars => NoRelays'
    BY NextKeepsDirect
  <1>3. IInv /\ StaleOK /\ NoRelays /\ [Next]_vars
          => [\A q \in ReadySessions :
                (Session(q).stale /\ q \in ReadySessions')
                  => \/ TransportOf(q)'.key # TransportOf(q).key
                     \/ TransportOf(q)'.recv = TransportOf(q).recv]_vars
    BY NextKeepsStale
       DEF StaleDrops, ReceiveRelayedTransport, ArrivesRelayed, NoRelays, Unrelayed
  <1> QED BY <1>1, <1>2, <1>3, Invariance, StaleInvariance, PTL
          DEF Spec, StaleDropsData

-----------------------------------------------------------------------------
(* Sessions that never go stale.                                           *)
(*                                                                         *)
(* Where loops are not blocked and the network is prompt, who asks sends   *)
(* something at least every Gap: a keepalive, an INIT or its retry.  A     *)
(* node that is asked hears it, unless a loss uses up another Gap; one     *)
(* that asks does not depend on what it hears, because it rekeys before    *)
(* the silence is too long.                                                *)

Gap == IF KEEPALIVE + 1 >= INIT_RETRY_INTERVAL THEN KEEPALIVE + 1
       ELSE INIT_RETRY_INTERVAL

(* The timers leave room for every loss, and a key for every keepalive. *)
EnoughTime ==
    /\ REKEY_AFTER < REJECT_AFTER
    /\ (Budget.loss + 1) * Gap <= REJECT_AFTER
    /\ REKEY_AFTER + Budget.errors + Budget.data + 2 <= MaxNonce

(* What is left of REJECT_AFTER if every loss to come uses up its part, and the
   nonces that failed sends and TUN packets have used. *)
Room == REJECT_AFTER - left.loss * Gap
Spent == (Budget.errors - left.errors) + (Budget.data - left.data)

(* The time before the owner of s, who asks, has something to send. *)
KeepalivePassed(s) == s.last_tx_at = None \/ Passed(s.last_tx_at, KEEPALIVE)

Wait(s) ==
    IF IsInitiating(s) THEN s.next_init_at
    ELSE IF IsRekeying(s) THEN s.state.rehandshake.next_retry_at
    ELSE IF KeepalivePassed(s) THEN 0 ELSE KEEPALIVE + 1 - s.last_tx_at

Beat(s) == [heard |-> IF IsReady(s) THEN {s.last_rx_at} ELSE {}, wait |-> Wait(s)]

Beats == [q \in Sessions |-> Beat(Session(q))]

(* From whom to whom something is under way, and who is being answered. *)
Links == {q \in Node \X Node :
             \E d \in InFlight : d.src = HomeAddr[q[1]] /\ d.dst = HomeAddr[q[2]]}

Answered == {Asker(d) : d \in {f \in Handshakes : Carried(f).type = "RESPONSE"}}

(* The invariant over the beats B of the sessions, the links F with something
   under way and the sessions A that are being answered. *)
WaitsOK(B) == \A q \in DOMAIN B : Asks(q) => B[q].wait \in 0..Gap

HeardOK(B, F, A, room) ==
    \A q \in DOMAIN B : Asks(Reverse(q)) =>
        \A t \in B[q].heard :
            /\ t \in 0..room
            /\ Reverse(q) \in A => t = 0
            /\ (Reverse(q) \in DOMAIN B /\ Reverse(q) \notin F)
                   => t + B[Reverse(q)].wait <= room

(* A session whose owner asks: what it waits for is due in time. *)
InTime(s, spent) ==
    \/ IsInitiating(s) /\ s.next_init_at \in 0..INIT_RETRY_INTERVAL
    \/ IsRekeying(s) /\ s.state.rehandshake.next_retry_at \in 0..INIT_RETRY_INTERVAL
    \/ /\ IsReady(s) /\ ~IsRekeying(s)
       /\ s.last_handshake_at \in 0..(REKEY_AFTER + 1)
       /\ s.last_rx_at \in 0..s.last_handshake_at
       /\ s.state.transport.send + (IF KeepalivePassed(s) THEN 1 ELSE 0)
             <= s.last_handshake_at + 1 + spent

Lively(q, s, spent) ==
    /\ s.endpoint = HomeAddr[q[2]] /\ ~s.stale
    /\ Asks(q) => InTime(s, spent)

BudgetOK ==
    /\ left.loss <= Budget.loss /\ left.errors <= Budget.errors
    /\ left.data <= Budget.data

BeatsOK == WaitsOK(Beats) /\ HeardOK(Beats, Links, Answered, Room)

LivelyOK ==
    /\ BudgetOK /\ BeatsOK
    /\ \A q \in Sessions :
          /\ Lively(q, Session(q), Spent)
          /\ endpoint_to_peer[q[1]][HomeAddr[q[2]]] = q[2]

-----------------------------------------------------------------------------
(* Beats: what may happen to them. *)

(* One session changes: it hears something, or sends it, or neither. *)
LEMMA BeatsOne ==
  ASSUME NEW B, NEW F, NEW A, NEW room \in Int, WaitsOK(B), HeardOK(B, F, A, room),
         Gap \in Nat, Gap <= room,
         NEW q \in Node \X Node, q[1] # q[2], DOMAIN B \subseteq Node \X Node,
         NEW B2, Changes(B, q, B2), NEW F2, NEW A2,
         \A v \in DOMAIN B2 : Reverse(v) \in F => Reverse(v) \in F2 \/ v = q,
         A2 \subseteq A \cup {Reverse(q)},
         \/ B2[q].heard \subseteq {0}
         \/ /\ q \in DOMAIN B /\ B2[q].heard = B[q].heard /\ A2 \subseteq A
            /\ Reverse(q) \in F => Reverse(q) \in F2,
         Asks(q) => /\ B2[q].wait \in 0..Gap
                    /\ \/ q \in F2 \/ q \in A \/ B2[q].wait = 0
                       \/ q \in DOMAIN B /\ B2[q].wait <= B[q].wait
  PROVE  WaitsOK(B2) /\ HeardOK(B2, F2, A2, room)
  <1>1. WaitsOK(B2)
    BY DEF WaitsOK, Changes
  <1>2. HeardOK(B2, F2, A2, room)
    <2> SUFFICES ASSUME NEW v \in DOMAIN B2, Asks(Reverse(v)), NEW t \in B2[v].heard
                 PROVE  /\ t \in 0..room
                        /\ Reverse(v) \in A2 => t = 0
                        /\ (Reverse(v) \in DOMAIN B2 /\ Reverse(v) \notin F2)
                               => t + B2[Reverse(v)].wait <= room
      BY DEF HeardOK
    <2> DEFINE u == Reverse(v)
    <2>1. v \in Node \X Node /\ Reverse(u) = v
      BY DEF Changes, Reverse
    <2>2. u \in DOMAIN B2 => B2[u].wait \in 0..Gap
      BY <1>1 DEF WaitsOK
    <2>3. CASE t = 0
      <3>1. CASE u # q /\ v # q
        <4>1. /\ v \in DOMAIN B /\ B2[v] = B[v] /\ (u \in F => u \in F2)
              /\ u \in DOMAIN B2 => u \in DOMAIN B /\ B2[u] = B[u]
          BY <3>1 DEF Changes
        <4> QED BY <2>2, <2>3, <4>1 DEF HeardOK
      <3> QED BY <2>2, <2>3
    <2>4. CASE t # 0 /\ v = q
      <3>1. /\ v \in DOMAIN B /\ t \in B[v].heard /\ A2 \subseteq A
            /\ u \in F => u \in F2
        BY <2>4
      <3>2. u # q /\ (u \in DOMAIN B2 => u \in DOMAIN B /\ B2[u] = B[u])
        BY <2>4 DEF Changes, Reverse
      <3> QED BY <3>1, <3>2 DEF HeardOK
    <2>5. CASE t # 0 /\ v # q
      <3>1. v \in DOMAIN B /\ B2[v] = B[v] /\ (u \in F => u \in F2)
        BY <2>5 DEF Changes
      <3>2. t \in 0..room /\ u \notin A /\ (u \in DOMAIN B /\ u \notin F => t + B[u].wait <= room)
        BY <2>5, <3>1 DEF HeardOK
      <3>3. u # Reverse(q)
        BY <2>1, <2>5 DEF Reverse
      <3>4. CASE u = q
        <4>1. q \in F2 \/ B2[q].wait = 0 \/ (q \in DOMAIN B /\ B2[q].wait <= B[q].wait)
          BY <3>2, <3>4
        <4>2. q \in DOMAIN B => B[q].wait \in 0..Gap
          BY <3>4 DEF WaitsOK
        <4> QED BY <2>2, <3>1, <3>2, <3>3, <3>4, <4>1, <4>2
      <3>5. CASE u # q
        <4>1. u \in DOMAIN B2 => u \in DOMAIN B /\ B2[u] = B[u]
          BY <3>5 DEF Changes
        <4> QED BY <3>1, <3>2, <3>3, <4>1
      <3> QED BY <3>4, <3>5
    <2> QED BY <2>3, <2>4, <2>5
  <1> QED BY <1>1, <1>2

(* Sessions end, datagrams for the others are kept. *)
LEMMA BeatsFewer ==
  ASSUME NEW B, NEW F, NEW A, NEW room \in Int, WaitsOK(B), HeardOK(B, F, A, room),
         NEW B2, DOMAIN B2 \subseteq DOMAIN B, \A q \in DOMAIN B2 : B2[q] = B[q],
         NEW F2, \A q \in DOMAIN B2 : Reverse(q) \in F => Reverse(q) \in F2,
         NEW A2, A2 \subseteq A
  PROVE  WaitsOK(B2) /\ HeardOK(B2, F2, A2, room)
  <1>1. WaitsOK(B2)
    BY DEF WaitsOK
  <1>2. HeardOK(B2, F2, A2, room)
    BY DEF HeardOK
  <1> QED BY <1>1, <1>2

(* A datagram is lost: there is room for another Gap. *)
LEMMA BeatsLost ==
  ASSUME NEW B, NEW F, NEW A, NEW room \in Int, WaitsOK(B), HeardOK(B, F, A, room),
         Gap \in Nat, NEW F2, NEW A2, A2 \subseteq A
  PROVE  HeardOK(B, F2, A2, room + Gap)
  BY DEF WaitsOK, HeardOK

(* Time passes while nothing is under way and nothing is due. *)
LEMMA BeatsTick ==
  ASSUME NEW B, NEW room \in Int, WaitsOK(B), NEW A, HeardOK(B, {}, A, room),
         Gap \in Nat, NEW B2, DOMAIN B2 = DOMAIN B,
         \A q \in DOMAIN B : Asks(Reverse(q)) =>
             /\ Reverse(q) \in DOMAIN B
             /\ \A t \in B2[q].heard : \E s \in B[q].heard : t = s \/ t = s + 1,
         \A q \in DOMAIN B : Asks(q) => B[q].wait # 0 /\ B2[q].wait = B[q].wait - 1
  PROVE  WaitsOK(B2) /\ HeardOK(B2, {}, {}, room)
  <1>1. WaitsOK(B2)
    BY DEF WaitsOK
  <1>2. HeardOK(B2, {}, {}, room)
    <2> SUFFICES ASSUME NEW q \in DOMAIN B2, Asks(Reverse(q)), NEW t \in B2[q].heard
                 PROVE  t \in 0..room /\ t + B2[Reverse(q)].wait <= room
      BY DEF HeardOK
    <2> DEFINE u == Reverse(q)
    <2>1. u \in DOMAIN B /\ B[u].wait \in 1..Gap /\ B2[u].wait = B[u].wait - 1
      BY DEF WaitsOK
    <2>2. PICK s \in B[q].heard : t = s \/ t = s + 1
      OBVIOUS
    <2>3. s \in 0..room /\ s + B[u].wait <= room
      BY <2>1 DEF HeardOK
    <2> QED BY <2>1, <2>2, <2>3
  <1> QED BY <1>1, <1>2

-----------------------------------------------------------------------------
(* A mesh without relays, and what its steps need of the state. *)

DirectMesh ==
    /\ AddressesIdentify /\ Direct
    /\ \A n, p \in Node : (n # p /\ Config[n][p] # None) => Config[n][p].endpoint = HomeAddr[p]

Serving ==
    /\ DirectMesh /\ OneSided /\ PromptNetwork /\ EnoughTime
    /\ {"nodes", "daemons"} \subseteq Prompt

AllOK == IInv /\ AttributionOK /\ PromptOK /\ NoRelays /\ LivelyOK

(* Without relays, plain flags configure every peer with its address. *)
LEMMA FlagsDirect ==
  ASSUME NEW flags, PlainFlags(flags), Direct
  PROVE  DirectMesh
  <1> SUFFICES ASSUME NEW n \in Node, NEW p \in Node, n # p, Config[n][p] # None
               PROVE  Config[n][p].endpoint = HomeAddr[p]
    BY FlagsIdentify DEF DirectMesh
  <1> DEFINE there == D!Registered(flags[p])
  <1>1. Config[n][p] = D!PeerConfigFor(flags[n], there) /\ Config[n][p].via_relay = None
    BY DEF PlainFlags, Direct
  <1>2. /\ Config[n][p].endpoint = there.last_endpoint
        /\ there.via_relay = None
    BY <1>1 DEF D!PeerConfigFor, D!ViaRelay
  <1>3. there.last_endpoint = D!Advertised(flags[p]) /\ there.via_relay = flags[p].relay
    BY DEF D!Registered
  <1> HIDE DEF there
  <1> QED BY <1>2, <1>3 DEF PlainFlags

(* The two nodes of a session stay where they are. *)
LEMMA Neighbours ==
  ASSUME DirectMesh, IInv, AttributionOK, NEW n \in Node, NEW p \in Known(n)
  PROVE  /\ p \in Node /\ p # n /\ peers[n][p] \in PeerSession /\ peers[n][p] # Absent
         /\ <<n, p>> \in Sessions /\ Session(<<n, p>>) = peers[n][p]
         /\ Config[n][p] # None /\ Config[n][p].via_relay = None
         /\ addr[n] = HomeAddr[n] /\ addr[p] = HomeAddr[p]
         /\ \A k \in Node : addr[k] = HomeAddr[n] => k = n
  <1>1. /\ p \in Node /\ p # n /\ peers[n][p] \in PeerSession /\ peers[n][p] # Absent
        /\ Config[n][p] # None
    BY KnownTrue DEF Known
  <1>2. Config[n][p].via_relay = None /\ Config[n][p].endpoint = HomeAddr[p]
    BY <1>1 DEF DirectMesh, Direct
  <1>3. n \notin Roaming /\ p \notin Roaming
    BY <1>1, <1>2, ConfigAssumption DEF DirectMesh, AddressesIdentify
  <1>4. /\ addr[n] = HomeAddr[n] /\ addr[p] = HomeAddr[p]
        /\ \A k \in Node : addr[k] = HomeAddr[n] => k = n
    BY <1>1, <1>3 DEF AttributionOK, AddressesOK
  <1>5. <<n, p>> \in Sessions /\ Session(<<n, p>>) = peers[n][p]
    BY <1>1 DEF Sessions, Session
  <1> QED BY <1>1, <1>2, <1>4, <1>5

(* There is always room for a Gap. *)
LEMMA RoomForGap ==
  ASSUME IInv, BudgetOK, EnoughTime
  PROVE  /\ Gap \in Nat /\ KEEPALIVE + 1 <= Gap /\ INIT_RETRY_INTERVAL <= Gap
         /\ Room \in Int /\ Gap <= Room /\ Room <= REJECT_AFTER
         /\ Spent \in Nat /\ Spent <= Budget.errors + Budget.data
  <1>1. left \in Budgets /\ Budget \in Budgets
    BY TimingAssumption DEF IInv, WorldOK
  <1>2. /\ Gap \in Nat /\ KEEPALIVE + 1 <= Gap /\ INIT_RETRY_INTERVAL <= Gap
    BY TimingAssumption DEF Gap
  <1>3. /\ left.loss \in Nat /\ Budget.loss \in Nat /\ left.errors \in Nat
        /\ Budget.errors \in Nat /\ left.data \in Nat /\ Budget.data \in Nat
    BY <1>1 DEF Budgets
  <1>4. Spent \in Nat /\ Spent <= Budget.errors + Budget.data
    BY <1>3 DEF Spent, BudgetOK
  <1>5. Room \in Int /\ Gap <= Room /\ Room <= REJECT_AFTER
    <2>1. PICK k \in Nat : Budget.loss = left.loss + k
      <3>1. /\ Budget.loss - left.loss \in Nat
            /\ Budget.loss = left.loss + (Budget.loss - left.loss)
        BY <1>3 DEF BudgetOK
      <3> QED BY <3>1
    <2>2. /\ left.loss * Gap \in Nat /\ k * Gap \in Nat
          /\ (Budget.loss + 1) * Gap = left.loss * Gap + k * Gap + Gap
      BY <1>2, <1>3, <2>1
    <2> QED BY <1>2, <2>2, TimingAssumption DEF Room, EnoughTime
  <1> QED BY <1>2, <1>4, <1>5

-----------------------------------------------------------------------------
(* Links and answers. *)

(* What a send adds. *)
LEMMA DatagramsAdded ==
  ASSUME IInv, NEW S, net' = net (+) Delivered(S)
  PROVE  InFlight' = InFlight \cup {d \in S : \E k \in Node : addr[k] = d.dst}
  <1>1. /\ IsABag(Delivered(S))
        /\ BagToSet(Delivered(S)) = {d \in S : \E k \in Node : addr[k] = d.dst}
    BY BagOfSet DEF Delivered
  <1>2. IsABag(net)
    BY DEF IInv, WorldOK
  <1> QED BY <1>1, <1>2, BagSum DEF InFlight

(* What the receipt of d takes, at most, and what is sent then. *)
LEMMA DatagramsTaken ==
  ASSUME IInv, NEW d \in InFlight, NEW x, NEW ok,
         \/ net' = Consume(d)
         \/ net' = Consume(d) (+) (IF ok THEN Delivered({x}) ELSE EmptyBag)
  PROVE  /\ InFlight \ {d} \subseteq InFlight'
         /\ InFlight' \subseteq InFlight \cup {x}
         /\ net' = Consume(d) => InFlight' \subseteq InFlight
  <1>1. PICK C : C = Consume(d)
    OBVIOUS
  <1>2. IsABag(C) /\ InFlight \ {d} \subseteq BagToSet(C) /\ BagToSet(C) \subseteq InFlight
    BY <1>1, CopiesTaken DEF Consume, InFlight, IInv, WorldOK
  <1>3. CASE net' = C
    BY <1>1, <1>2, <1>3 DEF InFlight
  <1>4. CASE net' = C (+) (IF ok THEN Delivered({x}) ELSE EmptyBag)
    <2> DEFINE S == IF ok THEN {x} ELSE {}
               T == {f \in S : \E k \in Node : addr[k] = f.dst}
    <2>1. net' = C (+) SetToBag(T)
      BY <1>4, MaybeDelivered DEF Delivered
    <2>2. T \subseteq {x}
      OBVIOUS
    <2> HIDE DEF S, T
    <2>3. InFlight' = BagToSet(C) \cup T
      BY <1>2, <2>1, CopiesAdded DEF InFlight
    <2> QED BY <1>1, <1>2, <1>3, <2>2, <2>3 DEF InFlight
  <1> QED BY <1>1, <1>3, <1>4

(* More datagrams, more links; an answer is a RESPONSE that is new. *)
LEMMA LinksGrow ==
  ASSUME IInv, InFlight \subseteq InFlight',
         \A x \in InFlight' : x \in InFlight \/ Carried(x).type # "RESPONSE"
  PROVE  Links \subseteq Links' /\ Answered' \subseteq Answered
  <1>1. Links \subseteq Links'
    BY DEF Links
  <1>2. Answered' \subseteq Answered
    BY DEF Answered, Handshakes
  <1> QED BY <1>1, <1>2

-----------------------------------------------------------------------------
(* One session changes. *)

(* The beats after a step. *)
LEMMA BeatsPrimed == Beats' = [q \in Sessions' |-> Beat(Session(q)')]
  BY DEF Beats, Beat, Wait, KeepalivePassed, Passed, IsInitiating, IsRekeying, IsReady

(* A nonce more that is spent leaves a session in time. *)
LEMMA InTimeMore ==
  ASSUME NEW s \in PeerSession, NEW m \in Nat, NEW k \in Nat, m <= k, InTime(s, m)
  PROVE  InTime(s, k)
  <1>1. CASE ~(IsReady(s) /\ ~IsRekeying(s))
    BY <1>1 DEF InTime
  <1>2. CASE IsReady(s) /\ ~IsRekeying(s)
    <2>1. s.state.transport.send \in Nat
      BY <1>2, ReadyStates DEF ReadyState, Transport
    <2>2. /\ s.last_handshake_at \in 0..(REKEY_AFTER + 1)
          /\ s.last_rx_at \in 0..s.last_handshake_at
          /\ s.state.transport.send + (IF KeepalivePassed(s) THEN 1 ELSE 0)
                <= s.last_handshake_at + 1 + m
      BY <1>2 DEF InTime, IsInitiating, IsReady, IsRekeying
    <2>3. s.last_handshake_at \in Int
      BY <2>2
    <2>4. s.state.transport.send + (IF KeepalivePassed(s) THEN 1 ELSE 0)
             <= s.last_handshake_at + 1 + k
      <3> DEFINE one == IF KeepalivePassed(s) THEN 1 ELSE 0
      <3>1. one \in Nat
        OBVIOUS
      <3>2. s.state.transport.send + one <= s.last_handshake_at + 1 + m
        BY <2>2
      <3> HIDE DEF one
      <3>3. s.state.transport.send + one <= s.last_handshake_at + 1 + k
        BY <2>1, <2>3, <3>1, <3>2
      <3> QED BY <3>3 DEF one
    <2> QED BY <1>2, <2>2, <2>4 DEF InTime
  <1> QED BY <1>1, <1>2

(* What is needed of the session that changes. *)
LEMMA OneLively ==
  ASSUME AllOK, Serving, NEW n \in Node, NEW p \in Node, p # n,
         NEW r, r # Absent, Install(n, p, r),
         left'.loss = left.loss, BudgetOK', Spent' \in Nat, Spent <= Spent',
         Lively(<<n, p>>, r, Spent'),
         endpoint_to_peer'[n][HomeAddr[p]] = p,
         \A u \in Sessions : u # <<n, p>> =>
             endpoint_to_peer'[u[1]][HomeAddr[u[2]]] = endpoint_to_peer[u[1]][HomeAddr[u[2]]],
         \A u \in Sessions : u # <<n, p>> => (Reverse(u) \in Links => Reverse(u) \in Links'),
         Answered' \subseteq Answered \cup {<<p, n>>},
         \/ Beat(r).heard \subseteq {0}
         \/ /\ p \in Known(n) /\ Beat(r).heard = Beat(peers[n][p]).heard
            /\ Answered' \subseteq Answered
            /\ <<p, n>> \in Links => <<p, n>> \in Links',
         Asks(<<n, p>>) =>
             /\ Beat(r).wait \in 0..Gap
             /\ \/ <<n, p>> \in Links' \/ <<n, p>> \in Answered \/ Beat(r).wait = 0
                \/ p \in Known(n) /\ Beat(r).wait <= Beat(peers[n][p]).wait
  PROVE  LivelyOK'
  <1> DEFINE q == <<n, p>>
  <1>1. /\ Sessions' = Sessions \cup {q} /\ Session(q)' = r
        /\ \A u \in Sessions : u # q => Session(u)' = Session(u)
    BY OneSession DEF AllOK
  <1>2. /\ Changes(Beats, q, Beats') /\ Beats'[q] = Beat(r) /\ DOMAIN Beats = Sessions
        /\ DOMAIN Beats' = Sessions \cup {q}
    <2>1. Beats' = [u \in Sessions' |-> Beat(Session(u)')]
      BY BeatsPrimed
    <2>2. DOMAIN Beats' = DOMAIN Beats \cup {q} /\ Beats'[q] = Beat(r) /\ DOMAIN Beats = Sessions
      BY <1>1, <2>1 DEF Beats
    <2>3. \A u \in DOMAIN Beats : u # q => Beats'[u] = Beats[u]
      BY <1>1, <2>1 DEF Beats
    <2> QED BY <2>2, <2>3 DEF Changes
  <1>3. /\ WaitsOK(Beats) /\ HeardOK(Beats, Links, Answered, Room)
        /\ \A u \in Sessions : /\ Lively(u, Session(u), Spent)
                               /\ endpoint_to_peer[u[1]][HomeAddr[u[2]]] = u[2]
    BY DEF AllOK, LivelyOK, BeatsOK
  <1>4. /\ Gap \in Nat /\ Room \in Int /\ Gap <= Room /\ Spent \in Nat
    BY RoomForGap DEF AllOK, LivelyOK, Serving
  <1>5. Room' = Room
    BY DEF Room
  <1>6. q \in Node \X Node /\ q[1] # q[2] /\ Sessions \subseteq Node \X Node
        /\ Reverse(q) = <<p, n>>
    BY DEF Sessions, Reverse
  <1>7. p \in Known(n) => q \in Sessions /\ Beats[q] = Beat(peers[n][p])
    BY DEF Sessions, Session, Beats
  <1>8. WaitsOK(Beats') /\ HeardOK(Beats', Links', Answered', Room)
    <2>1. \A v \in DOMAIN Beats' : Reverse(v) \in Links => Reverse(v) \in Links' \/ v = q
      BY <1>2
    <2>2. \/ Beats'[q].heard \subseteq {0}
          \/ /\ q \in DOMAIN Beats /\ Beats'[q].heard = Beats[q].heard
             /\ Answered' \subseteq Answered
             /\ Reverse(q) \in Links => Reverse(q) \in Links'
      BY <1>2, <1>6, <1>7
    <2>3. Asks(q) => /\ Beats'[q].wait \in 0..Gap
                     /\ \/ q \in Links' \/ q \in Answered \/ Beats'[q].wait = 0
                        \/ q \in DOMAIN Beats /\ Beats'[q].wait <= Beats[q].wait
      BY <1>2, <1>7
    <2>4. Answered' \subseteq Answered \cup {Reverse(q)}
      BY <1>6
    <2> HIDE DEF q
    <2> QED BY <1>2, <1>3, <1>4, <1>6, <2>1, <2>2, <2>3, <2>4, BeatsOne
  <1>9. ASSUME NEW u \in Sessions'
        PROVE  /\ Lively(u, Session(u)', Spent')
               /\ endpoint_to_peer'[u[1]][HomeAddr[u[2]]] = u[2]
    <2>1. CASE u = q
      BY <1>1, <2>1
    <2>2. CASE u # q
      <3>1. u \in Sessions /\ Session(u)' = Session(u)
        BY <1>1, <2>2
      <3>2. Session(u) \in PeerSession
        BY <3>1, Neighbours DEF AllOK, Serving, Sessions, Session
      <3>3. Lively(u, Session(u), Spent')
        BY <1>3, <1>4, <3>1, <3>2, InTimeMore DEF Lively
      <3> QED BY <1>3, <2>2, <3>1, <3>3
    <2> QED BY <2>1, <2>2
  <1>10. BeatsOK'
    BY <1>5, <1>8 DEF BeatsOK
  <1>11. \A u \in Sessions' : Lively(u, Session(u)', Spent') <=> Lively(u, Session(u), Spent)'
    BY DEF Lively, InTime, KeepalivePassed, Passed, IsInitiating, IsRekeying, IsReady
  <1> QED BY <1>9, <1>10, <1>11 DEF LivelyOK

(* What a send that may fail costs. *)
LEMMA ChargedBudget ==
  ASSUME IInv, BudgetOK, NEW ok \in SendOutcomes, ChargeError(ok)
  PROVE  /\ left'.loss = left.loss /\ BudgetOK'
         /\ Spent \in Nat /\ Spent' = Spent + (IF ok THEN 0 ELSE 1)
  <1> DEFINE errors == left.errors - 1
  <1>1. left \in Budgets /\ Budget \in Budgets
    BY TimingAssumption DEF IInv, WorldOK
  <1>2. left' = IF ok THEN left ELSE [left EXCEPT !.errors = errors]
    BY DEF ChargeError
  <1> HIDE DEF errors
  <1>3. /\ left'.loss = left.loss /\ left'.data = left.data
        /\ left'.errors = IF ok THEN left.errors ELSE errors
    BY <1>1, <1>2 DEF Budgets
  <1>4. /\ left.loss \in Nat /\ left.errors \in Nat /\ left.data \in Nat
        /\ Budget.loss \in Nat /\ Budget.errors \in Nat /\ Budget.data \in Nat
    BY <1>1 DEF Budgets
  <1> QED BY <1>3, <1>4 DEF BudgetOK, Spent, errors

(* Nothing is charged. *)
LEMMA UnchargedBudget ==
  ASSUME IInv, BudgetOK, left' = left
  PROVE  left'.loss = left.loss /\ BudgetOK' /\ Spent \in Nat /\ Spent' = Spent
  <1>1. left \in Budgets /\ Budget \in Budgets
    BY TimingAssumption DEF IInv, WorldOK
  <1> QED BY <1>1 DEF Budgets, BudgetOK, Spent

(* A session sends what it has to, or has a timer served. *)
LEMMA SentLively ==
  ASSUME AllOK, Serving, NEW n \in Node, NEW p \in Known(n),
         NEW r, r # Absent, Install(n, p, r),
         left'.loss = left.loss, BudgetOK', Spent' \in Nat, Spent <= Spent',
         endpoint_to_peer' = endpoint_to_peer,
         NEW S, \A x \in S : /\ x.src = HomeAddr[n] /\ x.dst = HomeAddr[p]
                             /\ Carried(x).type # "RESPONSE",
         net' = net (+) Delivered(S) \/ (S = {} /\ net' = net),
         Beat(r).heard = Beat(peers[n][p]).heard,
         Lively(<<n, p>>, r, Spent'),
         Asks(<<n, p>>) =>
             /\ Beat(r).wait \in 0..Gap
             /\ S # {} \/ Beat(r).wait = 0 \/ Beat(r).wait <= Beat(peers[n][p]).wait
  PROVE  LivelyOK'
  <1>1. /\ p \in Node /\ p # n /\ <<n, p>> \in Sessions
        /\ addr[n] = HomeAddr[n] /\ addr[p] = HomeAddr[p]
    BY Neighbours DEF AllOK, Serving
  <1>2. /\ InFlight \subseteq InFlight' /\ S \subseteq InFlight'
        /\ \A x \in InFlight' : x \in InFlight \/ x \in S
    <2>1. CASE net' = net (+) Delivered(S)
      <3>1. InFlight' = InFlight \cup {d \in S : \E k \in Node : addr[k] = d.dst}
        BY <2>1, DatagramsAdded DEF AllOK
      <3>2. \A x \in S : \E k \in Node : addr[k] = x.dst
        BY <1>1
      <3> QED BY <3>1, <3>2
    <2>2. CASE S = {} /\ net' = net
      BY <2>2 DEF InFlight
    <2> QED BY <2>1, <2>2
  <1>3. \A x \in InFlight' : x \in InFlight \/ Carried(x).type # "RESPONSE"
    BY <1>2
  <1>4. Links \subseteq Links' /\ Answered' \subseteq Answered
    BY <1>2, <1>3, LinksGrow DEF AllOK
  <1>5. S # {} => <<n, p>> \in Links'
    <2>1. <<n, p>> \in Node \X Node
      BY <1>1
    <2>2. \A x \in S : x \in InFlight' /\ x.src = HomeAddr[n] /\ x.dst = HomeAddr[p]
      BY <1>2
    <2> QED BY <2>1, <2>2 DEF Links
  <1>6. endpoint_to_peer'[n][HomeAddr[p]] = p
    BY <1>1 DEF AllOK, LivelyOK
  <1> QED BY <1>1, <1>4, <1>5, <1>6, OneLively

(* Who is heard, on which address. *)
LEMMA SenderAtHome ==
  ASSUME AllOK, Serving, NEW n \in Node, NEW d \in InFlight, Arrives(n, d),
         d.msg.type # "RELAY", NEW p, p = Sender(n, d.src, d.msg), p # None
  PROVE  /\ p \in Known(n) /\ p \in Node /\ p # n /\ d.src \in Addr
         /\ d.src = HomeAddr[p] /\ peers[n][p].endpoint = d.src
         /\ IsHandshake(d.msg) => d.msg.from = p
         /\ Rehome(n, p, d.src) => endpoint_to_peer' = endpoint_to_peer
  <1>1. /\ p \in Known(n) /\ peers[n][p].endpoint = d.src /\ d.src \in Addr
        /\ IsHandshake(d.msg) => d.msg.from = p
    BY SenderTrue DEF AllOK, Serving, DirectMesh
  <1>2. p \in Node /\ p # n /\ <<n, p>> \in Sessions /\ Session(<<n, p>>) = peers[n][p]
    BY <1>1, Neighbours DEF AllOK, Serving
  <1>3. peers[n][p].endpoint = HomeAddr[p]
    BY <1>2 DEF AllOK, LivelyOK, Lively
  <1> QED BY <1>1, <1>2, <1>3 DEF Rehome

(* A session hears a datagram, and perhaps answers it. *)
LEMMA HeardLively ==
  ASSUME AllOK, Serving, NEW n \in Node, NEW d \in InFlight, Arrives(n, d),
         NEW p \in Known(n), d.src = HomeAddr[p],
         NEW r, r # Absent, Install(n, p, r),
         NEW ok \in SendOutcomes, ChargeError(ok),
         endpoint_to_peer' = endpoint_to_peer,
         NEW x, Carried(x).type = "RESPONSE" => Asker(x) = <<p, n>>,
         \/ net' = Consume(d)
         \/ net' = Consume(d) (+) (IF ok THEN Delivered({x}) ELSE EmptyBag),
         IsReady(r) => r.last_rx_at = 0,
         Lively(<<n, p>>, r, Spent'),
         Asks(<<n, p>>) =>
             /\ Beat(r).wait \in 0..Gap
             /\ \/ <<n, p>> \in Answered \/ Beat(r).wait = 0
                \/ Beat(r).wait <= Beat(peers[n][p]).wait
  PROVE  LivelyOK'
  <1>1. p \in Node /\ p # n /\ <<n, p>> \in Sessions
    BY Neighbours DEF AllOK, Serving
  <1>2. /\ left'.loss = left.loss /\ BudgetOK' /\ Spent' \in Nat /\ Spent <= Spent'
    BY ChargedBudget DEF AllOK, LivelyOK
  <1>3. InFlight \ {d} \subseteq InFlight' /\ InFlight' \subseteq InFlight \cup {x}
    BY DatagramsTaken DEF AllOK
  <1>4. ASSUME NEW u \in Sessions, u # <<n, p>>, Reverse(u) \in Links
        PROVE  Reverse(u) \in Links'
    <2>1. /\ u[1] \in Node /\ u[2] \in Known(u[1]) /\ u = <<u[1], u[2]>>
          /\ Reverse(u) = <<u[2], u[1]>>
      BY DEF Sessions, Reverse
    <2>2. u[2] \in Node /\ \A k \in Node : addr[k] = HomeAddr[u[1]] => k = u[1]
      BY <2>1, Neighbours DEF AllOK, Serving
    <2>3. PICK f \in InFlight : f.src = HomeAddr[u[2]] /\ f.dst = HomeAddr[u[1]]
      BY <1>4, <2>1 DEF Links
    <2>4. f # d
      <3>1. SUFFICES ASSUME f = d PROVE FALSE
        OBVIOUS
      <3>2. addr[n] = HomeAddr[u[1]] /\ HomeAddr[p] = HomeAddr[u[2]]
        BY <2>3, <3>1 DEF Arrives
      <3>3. u[1] = n /\ u[2] = p
        BY <1>1, <2>2, <3>2 DEF Serving, DirectMesh, AddressesIdentify
      <3> QED BY <1>4, <2>1, <3>3
    <2>5. f \in InFlight'
      BY <1>3, <2>4
    <2> QED BY <2>1, <2>2, <2>3, <2>5 DEF Links
  <1>5. Answered' \subseteq Answered \cup {<<p, n>>}
    <2>1. \A f \in InFlight' : f \in InFlight \/ f = x
      BY <1>3
    <2> QED BY <2>1 DEF Answered, Handshakes
  <1>6. Beat(r).heard \subseteq {0}
    BY DEF Beat
  <1>7. endpoint_to_peer'[n][HomeAddr[p]] = p
    BY <1>1 DEF AllOK, LivelyOK
  <1> QED BY <1>1, <1>2, <1>4, <1>5, <1>6, <1>7, OneLively

-----------------------------------------------------------------------------
(* What a manager does on its own. *)

(* A new peer: an INIT is due at once, or the other side asks. *)
LEMMA AddPeerLively ==
  ASSUME AllOK, Serving, NEW n \in Node, NEW p \in Node, AddPeer(n, p)
  PROVE  LivelyOK'
  <1> DEFINE cfg == Config[n][p]
             r == NewSession(n, p, Fresh)
             home == HomeAddr[p]
  <1>1. /\ p # n /\ p \notin Known(n) /\ cfg # None /\ Install(n, p, r)
        /\ cfg.is_initiator => Fresh \in Ephemeral
        /\ net' = net /\ left' = left
        /\ endpoint_to_peer' = [endpoint_to_peer EXCEPT ![n][cfg.endpoint] = p]
    BY FreshOK DEF AddPeer
  <1>2. cfg.endpoint = home
    BY <1>1 DEF Serving, DirectMesh
  <1>3. Legal(r) /\ r # Absent /\ r.endpoint = home
    BY <1>1, <1>2, NewSessionLegal, NoneAssumption DEF Legal
  <1>4. /\ r.stale = FALSE /\ r.next_init_at = IF cfg.is_initiator THEN 0 ELSE None
        /\ IF cfg.is_initiator THEN IsInitiating(r) ELSE IsResponding(r)
    BY DEF NewSession, FreshResponder, IsInitiating, IsResponding
  <1> HIDE DEF r
  <1>5. /\ left'.loss = left.loss /\ BudgetOK' /\ Spent' \in Nat /\ Spent <= Spent'
    BY <1>1, UnchargedBudget DEF AllOK, LivelyOK
  <1>6. /\ Gap \in Nat /\ INIT_RETRY_INTERVAL \in Nat
    BY RoomForGap, TimingAssumption DEF AllOK, LivelyOK, Serving
  <1>7. Asks(<<n, p>>) <=> cfg.is_initiator
    BY <1>1 DEF Asks
  <1>8. Lively(<<n, p>>, r, Spent')
    BY <1>3, <1>4, <1>6, <1>7 DEF Lively, InTime
  <1>9. /\ Beat(r).heard = {}
        /\ cfg.is_initiator => Beat(r).wait = 0
    BY <1>4 DEF Beat, Wait, IsReady, IsInitiating, IsResponding
  <1>10. Links' = Links /\ Answered' = Answered
    BY <1>1 DEF Links, Answered, Handshakes, InFlight
  <1>11. /\ endpoint_to_peer \in [Node -> [Addr -> Node \cup {None}]]
         /\ \A k \in Node : HomeAddr[k] \in Addr
    BY ConfigAssumption DEF AllOK, IInv, TablesOK
  <1>12. endpoint_to_peer'[n][home] = p
    BY <1>1, <1>2, <1>11
  <1>13. ASSUME NEW u \in Sessions, u # <<n, p>>
         PROVE  endpoint_to_peer'[u[1]][HomeAddr[u[2]]] = endpoint_to_peer[u[1]][HomeAddr[u[2]]]
    <2>1. u[1] \in Node /\ u[2] \in Node /\ u = <<u[1], u[2]>>
      BY DEF Sessions
    <2>2. u[1] = n => HomeAddr[u[2]] # home
      BY <1>13, <2>1 DEF Serving, DirectMesh, AddressesIdentify
    <2> QED BY <1>1, <1>2, <1>11, <2>1, <2>2
  <1>14. /\ Beat(r).heard \subseteq {0} /\ Answered' \subseteq Answered \cup {<<p, n>>}
         /\ Asks(<<n, p>>) => Beat(r).wait \in 0..Gap /\ Beat(r).wait = 0
         /\ \A u \in Sessions : u # <<n, p>> => (Reverse(u) \in Links => Reverse(u) \in Links')
    BY <1>6, <1>7, <1>9, <1>10
  <1> HIDE DEF cfg
  <1> QED BY <1>1, <1>3, <1>5, <1>8, <1>12, <1>13, <1>14, OneLively

(* What is lively in a session. *)
LEMMA SessionLively ==
  ASSUME AllOK, Serving, NEW n \in Node, NEW p \in Known(n)
  PROVE  /\ p \in Node /\ p # n /\ peers[n][p] \in PeerSession /\ peers[n][p] # Absent
         /\ Lively(<<n, p>>, peers[n][p], Spent)
         /\ peers[n][p].endpoint = HomeAddr[p] /\ ~peers[n][p].stale
         /\ Asks(<<n, p>>) =>
                InTime(peers[n][p], Spent) /\ Beat(peers[n][p]).wait \in 0..Gap
  <1> DEFINE s == peers[n][p]
  <1>1. /\ p \in Node /\ p # n /\ s \in PeerSession /\ s # Absent
        /\ <<n, p>> \in Sessions /\ Session(<<n, p>>) = s
    BY Neighbours DEF AllOK, Serving
  <1>2. Lively(<<n, p>>, s, Spent)
    BY <1>1 DEF AllOK, LivelyOK
  <1>3. s.endpoint = HomeAddr[p] /\ ~s.stale /\ (Asks(<<n, p>>) => InTime(s, Spent))
    BY <1>2 DEF Lively
  <1>4. Asks(<<n, p>>) => Beat(s).wait \in 0..Gap
    <2>1. <<n, p>> \in DOMAIN Beats /\ Beats[<<n, p>>] = Beat(s)
      BY <1>1 DEF Beats
    <2> QED BY <2>1 DEF AllOK, LivelyOK, BeatsOK, WaitsOK
  <1> QED BY <1>1, <1>2, <1>3, <1>4

(* What it sends goes home. *)
LEMMA SentHome ==
  ASSUME AllOK, Serving, NEW n \in Node, NEW p \in Known(n),
         NEW m, m.type # "RELAY", m.type # "RESPONSE",
         NEW x, x = SendMaybeRelay(n, p, peers[n][p].endpoint, m)
  PROVE  x.src = HomeAddr[n] /\ x.dst = HomeAddr[p] /\ Carried(x).type # "RESPONSE"
  <1>1. Config[n][p].via_relay = None /\ addr[n] = HomeAddr[n]
    BY Neighbours DEF AllOK, Serving
  <1>2. peers[n][p].endpoint = HomeAddr[p]
    BY SessionLively
  <1>3. Carried(x) = m
    BY SentCarried
  <1> QED BY <1>1, <1>2, <1>3 DEF SendMaybeRelay

(* The INIT that is due, and sent or kept for the next pass. *)
LEMMA SendInitLively ==
  ASSUME AllOK, Serving, NEW n \in Node, NEW p \in Node, SendInit(n, p)
  PROVE  LivelyOK'
  <1> DEFINE s == peers[n][p]
             init == WriteInit(n, p, s.state.initiator)
             x == SendMaybeRelay(n, p, s.endpoint, init)
             S(ok) == IF ok THEN {x} ELSE {}
             r(ok) == IF ok THEN InitSent(s) ELSE s
  <1>1. /\ p \in Known(n) /\ IsInitiating(s) /\ InitDue(s)
        /\ endpoint_to_peer' = endpoint_to_peer
    BY DEF SendInit, tables
  <1>2. PICK ok \in SendOutcomes :
           /\ Install(n, p, r(ok))
           /\ net' = net (+) (IF ok THEN Delivered({x}) ELSE EmptyBag)
           /\ ChargeError(ok)
    BY DEF SendInit
  <1>3. /\ s \in PeerSession /\ s # Absent /\ s.endpoint = HomeAddr[p] /\ ~s.stale
        /\ x.src = HomeAddr[n] /\ x.dst = HomeAddr[p] /\ Carried(x).type # "RESPONSE"
    <2>1. init.type # "RELAY" /\ init.type # "RESPONSE"
      BY DEF WriteInit
    <2>2. x = SendMaybeRelay(n, p, peers[n][p].endpoint, init)
      OBVIOUS
    <2> HIDE DEF init, x
    <2>3. x.src = HomeAddr[n] /\ x.dst = HomeAddr[p] /\ Carried(x).type # "RESPONSE"
      BY <1>1, <2>1, <2>2, SentHome
    <2> QED BY <1>1, <2>3, SessionLively
  <1>4. /\ left'.loss = left.loss /\ BudgetOK' /\ Spent' \in Nat /\ Spent <= Spent'
    BY <1>2, ChargedBudget DEF AllOK, LivelyOK
  <1> HIDE DEF x, s
  <1>5. /\ r(ok) # Absent /\ r(ok).state = s.state /\ r(ok).endpoint = s.endpoint
        /\ r(ok).stale = s.stale /\ r(ok).next_init_at = IF ok THEN INIT_RETRY_INTERVAL ELSE 0
    <2>1. InitSent(s) \in PeerSession
      BY <1>3, TimingAssumption DEF InitSent, PeerSession
    <2>2. s.next_init_at = 0
      BY <1>1 DEF InitDue
    <2> QED BY <1>3, <2>1, <2>2, NoneAssumption DEF InitSent, PeerSession
  <1> HIDE DEF r
  <1>6. /\ Gap \in Nat /\ INIT_RETRY_INTERVAL \in Nat /\ INIT_RETRY_INTERVAL <= Gap
    BY RoomForGap, TimingAssumption DEF AllOK, LivelyOK, Serving
  <1>7. IsInitiating(r(ok)) /\ ~IsReady(r(ok)) /\ ~IsReady(s)
    BY <1>1, <1>5 DEF IsInitiating, IsReady
  <1>8. /\ Beat(r(ok)).heard = Beat(s).heard
        /\ Beat(r(ok)).wait = IF ok THEN INIT_RETRY_INTERVAL ELSE 0
    BY <1>5, <1>7 DEF Beat, Wait
  <1>9. Lively(<<n, p>>, r(ok), Spent')
    BY <1>3, <1>5, <1>6, <1>7 DEF Lively, InTime
  <1>10. net' = net (+) Delivered(S(ok))
    BY <1>2, MaybeDelivered
  <1>11. /\ \A y \in S(ok) : /\ y.src = HomeAddr[n] /\ y.dst = HomeAddr[p]
                             /\ Carried(y).type # "RESPONSE"
         /\ Beat(r(ok)).wait \in 0..Gap
         /\ S(ok) # {} \/ Beat(r(ok)).wait = 0
    BY <1>3, <1>6, <1>8
  <1> HIDE DEF S
  <1> QED BY <1>1, <1>2, <1>4, <1>5, <1>8, <1>9, <1>10, <1>11, SentLively DEF s

(* A timer that is cleared. *)
LEMMA ClearInitTimerLively ==
  ASSUME AllOK, Serving, NEW n \in Node, NEW p \in Node, ClearInitTimer(n, p)
  PROVE  LivelyOK'
  <1> DEFINE s == peers[n][p]
             r == InitDone(s)
  <1>1. /\ p \in Known(n) /\ ~IsInitiating(s) /\ Install(n, p, r)
        /\ endpoint_to_peer' = endpoint_to_peer /\ net' = net /\ left' = left
    BY DEF ClearInitTimer, tables
  <1>2. /\ s \in PeerSession /\ Lively(<<n, p>>, s, Spent)
        /\ Asks(<<n, p>>) => Beat(s).wait \in 0..Gap
    BY <1>1, SessionLively
  <1>3. /\ left'.loss = left.loss /\ BudgetOK' /\ Spent' \in Nat /\ Spent' = Spent
    BY <1>1, UnchargedBudget DEF AllOK, LivelyOK
  <1> HIDE DEF s
  <1>4. /\ r \in PeerSession /\ r.state = s.state /\ r.endpoint = s.endpoint /\ r.stale = s.stale
        /\ r.last_rx_at = s.last_rx_at /\ r.last_tx_at = s.last_tx_at
        /\ r.last_handshake_at = s.last_handshake_at
    BY <1>2 DEF InitDone, PeerSession
  <1> HIDE DEF r
  <1>5. Beat(r) = Beat(s)
    BY <1>1, <1>4 DEF Beat, Wait, KeepalivePassed, IsReady, IsRekeying, IsInitiating
  <1>6. Lively(<<n, p>>, r, Spent')
    BY <1>1, <1>2, <1>3, <1>4
       DEF Lively, InTime, KeepalivePassed, IsReady, IsRekeying, IsInitiating
  <1>7. Beat(r).wait <= Beat(s).wait \/ ~Asks(<<n, p>>)
    BY <1>2, <1>5, RoomForGap DEF AllOK, LivelyOK, Serving
  <1>8. PICK S : S = {}
    OBVIOUS
  <1>9. /\ r # Absent /\ Spent <= Spent' /\ Beat(r).heard = Beat(s).heard
        /\ Asks(<<n, p>>) => Beat(r).wait \in 0..Gap
        /\ \A x \in S : /\ x.src = HomeAddr[n] /\ x.dst = HomeAddr[p]
                         /\ Carried(x).type # "RESPONSE"
    BY <1>2, <1>3, <1>4, <1>5, <1>8, NoneAssumption
  <1> QED BY <1>1, <1>3, <1>6, <1>7, <1>8, <1>9, SentLively DEF s

(* A session stays as lively as it was if its nonces and its keepalive keep
   within what was spent. *)
LEMMA ReadyLively ==
  ASSUME NEW s \in PeerSession, IsReady(s), NEW r, IsReady(r),
         r.state.rehandshake = s.state.rehandshake,
         r.last_rx_at = s.last_rx_at, r.last_handshake_at = s.last_handshake_at,
         NEW m \in Nat, NEW k \in Nat, InTime(s, m),
         r.state.transport.send \in Nat,
         r.state.transport.send + (IF KeepalivePassed(r) THEN 1 ELSE 0)
            <= s.state.transport.send + (IF KeepalivePassed(s) THEN 1 ELSE 0) + k
  PROVE  InTime(r, m + k) /\ (IsRekeying(s) => Beat(r) = Beat(s))
  <1>1. (IsRekeying(r) <=> IsRekeying(s)) /\ ~IsInitiating(r) /\ ~IsInitiating(s)
    BY DEF IsRekeying, IsInitiating, IsReady
  <1>2. CASE IsRekeying(s)
    BY <1>1, <1>2 DEF InTime, Beat, Wait
  <1>3. CASE ~IsRekeying(s)
    <2> DEFINE after == r.state.transport.send + (IF KeepalivePassed(r) THEN 1 ELSE 0)
               before == s.state.transport.send + (IF KeepalivePassed(s) THEN 1 ELSE 0)
               hs == s.last_handshake_at
    <2>1. hs \in 0..(REKEY_AFTER + 1) /\ s.last_rx_at \in 0..hs /\ before <= hs + 1 + m
      BY <1>1, <1>3 DEF InTime
    <2>2. after \in Nat /\ before \in Nat /\ after <= before + k
      <3>1. s.state.transport.send \in Nat
        BY ReadyStates DEF ReadyState, Transport
      <3> QED BY <3>1
    <2> HIDE DEF after, before
    <2>3. after <= hs + 1 + (m + k)
      <3>1. hs \in Int
        BY <2>1
      <3> HIDE DEF hs
      <3> QED BY <2>1, <2>2, <3>1
    <2>4. InTime(r, m + k)
      BY <1>1, <1>3, <2>1, <2>3 DEF InTime, after, hs
    <2> QED BY <1>3, <2>4
  <1> QED BY <1>2, <1>3

(* What a packet from the TUN device costs. *)
LEMMA DispatchedBudget ==
  ASSUME IInv, BudgetOK, NEW ok \in SendOutcomes,
         left' = [left EXCEPT !.data = @ - 1, !.errors = IF ok THEN @ ELSE @ - 1]
  PROVE  /\ left'.loss = left.loss /\ BudgetOK'
         /\ Spent \in Nat /\ Spent' = Spent + (IF ok THEN 1 ELSE 2)
  <1> DEFINE data == left.data - 1
             errors == IF ok THEN left.errors ELSE left.errors - 1
  <1>1. left \in Budgets /\ Budget \in Budgets
    BY TimingAssumption DEF IInv, WorldOK
  <1>2. left' = [left EXCEPT !.data = data, !.errors = errors]
    OBVIOUS
  <1> HIDE DEF data, errors
  <1>3. left'.loss = left.loss /\ left'.data = data /\ left'.errors = errors
    BY <1>1, <1>2 DEF Budgets
  <1>4. /\ left.loss \in Nat /\ left.errors \in Nat /\ left.data \in Nat
        /\ Budget.loss \in Nat /\ Budget.errors \in Nat /\ Budget.data \in Nat
    BY <1>1 DEF Budgets
  <1> QED BY <1>3, <1>4 DEF BudgetOK, Spent, data, errors

(* A TUN packet. *)
LEMMA DispatchTunPacketLively ==
  ASSUME AllOK, Serving, NEW n \in Node, NEW p \in Node, DispatchTunPacket(n, p)
  PROVE  LivelyOK'
  <1> DEFINE s == peers[n][p]
             t == s.state.transport
             u == AfterEncrypt(t)
             tx(ok) == IF ok THEN 0 ELSE s.last_tx_at
             new(ok) == [s EXCEPT !.state.transport = u, !.last_tx_at = tx(ok)]
             ready == [s.state EXCEPT !.transport = u]
             x == SendMaybeRelay(n, p, s.endpoint, Encrypt(t))
             sent(ok) == IF ok THEN {x} ELSE {}
  <1>1. p \in Known(n) /\ IsReady(s) /\ endpoint_to_peer' = endpoint_to_peer
    BY DEF DispatchTunPacket, tables
  <1>2. PICK ok \in SendOutcomes :
           /\ Install(n, p, new(ok))
           /\ net' = net (+) (IF ok THEN Delivered({x}) ELSE EmptyBag)
           /\ left' = [left EXCEPT !.data = @ - 1, !.errors = IF ok THEN @ ELSE @ - 1]
    BY DEF DispatchTunPacket
  <1>3. /\ s \in PeerSession /\ s # Absent /\ Lively(<<n, p>>, s, Spent)
        /\ Asks(<<n, p>>) => InTime(s, Spent) /\ Beat(s).wait \in 0..Gap
    BY <1>1, SessionLively
  <1>4. x.src = HomeAddr[n] /\ x.dst = HomeAddr[p] /\ Carried(x).type # "RESPONSE"
    <2>1. Encrypt(t).type # "RELAY" /\ Encrypt(t).type # "RESPONSE"
      BY DEF Encrypt
    <2>2. x = SendMaybeRelay(n, p, peers[n][p].endpoint, Encrypt(t))
      OBVIOUS
    <2> HIDE DEF t, x
    <2> QED BY <1>1, <2>1, <2>2, SentHome
  <1>5. /\ left'.loss = left.loss /\ BudgetOK'
        /\ Spent \in Nat /\ Spent' = Spent + (IF ok THEN 1 ELSE 2)
    BY <1>2, DispatchedBudget DEF AllOK, LivelyOK
  <1>6. s.state \in ReadyState /\ t \in Transport /\ tx(ok) \in Nat \cup {None}
    BY <1>1, <1>3, ReadyStates DEF ReadyState, PeerSession
  <1>7. u \in Transport /\ t.send \in Nat /\ u.send = t.send + 1
    BY <1>6 DEF Transport, AfterEncrypt
  <1>8. new(ok) = [s EXCEPT !.state = ready, !.last_tx_at = tx(ok)]
    OBVIOUS
  <1>9. net' = net (+) Delivered(sent(ok))
    BY <1>2, MaybeDelivered
  <1> DEFINE r == new(ok)
             S == sent(ok)
  <1>10. S = IF ok THEN {x} ELSE {}
    OBVIOUS
  <1>11. Install(n, p, r) /\ net' = net (+) Delivered(S)
    BY <1>2, <1>9
  <1> HIDE DEF s, u, x, sent, S
  <1>12. /\ ready.tag = "Ready" /\ ready.transport = u
         /\ ready.rehandshake = s.state.rehandshake /\ ready \in PeerState
    <2>1. s.state.tag = "Ready"
      BY <1>6 DEF ReadyState
    <2> HIDE DEF t
    <2> QED BY <1>6, <1>7, <2>1 DEF PeerState, ReadyState
  <1>13. r = [s EXCEPT !.state = ready, !.last_tx_at = tx(ok)]
    BY <1>8
  <1>14. tx(ok) = IF ok THEN 0 ELSE s.last_tx_at
    OBVIOUS
  <1> HIDE DEF new, r, ready, tx
  <1>15. /\ r \in PeerSession /\ r.state = ready /\ r.endpoint = s.endpoint /\ r.stale = s.stale
         /\ r.last_rx_at = s.last_rx_at /\ r.last_tx_at = tx(ok)
         /\ r.last_handshake_at = s.last_handshake_at
    BY <1>3, <1>6, <1>12, <1>13 DEF PeerSession
  <1>16. IsReady(r) /\ (ok => ~KeepalivePassed(r)) /\ (~ok => (KeepalivePassed(r) <=> KeepalivePassed(s)))
    BY <1>12, <1>14, <1>15, TimingAssumption, NoneAssumption DEF IsReady, KeepalivePassed, Passed
  <1>17. Asks(<<n, p>>) => /\ InTime(r, Spent + 1)
                           /\ IsRekeying(s) => Beat(r) = Beat(s)
    <2> SUFFICES ASSUME Asks(<<n, p>>)
                 PROVE  InTime(r, Spent + 1) /\ (IsRekeying(s) => Beat(r) = Beat(s))
      OBVIOUS
    <2>1. /\ r.state.transport.send \in Nat
          /\ r.state.rehandshake = s.state.rehandshake
          /\ r.state.transport.send + (IF KeepalivePassed(r) THEN 1 ELSE 0)
                <= s.state.transport.send + (IF KeepalivePassed(s) THEN 1 ELSE 0) + 1
      BY <1>7, <1>12, <1>15, <1>16
    <2>2. InTime(s, Spent) /\ Spent \in Nat /\ 1 \in Nat
      BY <1>3, <1>5
    <2> HIDE DEF t
    <2> QED BY <1>1, <1>3, <1>15, <1>16, <2>1, <2>2, ReadyLively
  <1>18. Lively(<<n, p>>, r, Spent')
    <2>1. Spent + 1 \in Nat /\ Spent' \in Nat /\ Spent + 1 <= Spent'
      BY <1>5
    <2>2. Asks(<<n, p>>) => InTime(r, Spent')
      BY <1>15, <1>17, <2>1, InTimeMore
    <2> QED BY <1>3, <1>15, <2>2 DEF Lively
  <1>19. Beat(r).heard = Beat(s).heard
    BY <1>1, <1>15, <1>16 DEF Beat
  <1>20. Asks(<<n, p>>) =>
             /\ Beat(r).wait \in 0..Gap
             /\ S # {} \/ Beat(r).wait = 0 \/ Beat(r).wait <= Beat(s).wait
    <2> SUFFICES ASSUME Asks(<<n, p>>)
                 PROVE  /\ Beat(r).wait \in 0..Gap
                        /\ S # {} \/ Beat(r).wait = 0 \/ Beat(r).wait <= Beat(s).wait
      OBVIOUS
    <2>1. Gap \in Nat /\ KEEPALIVE \in Nat /\ KEEPALIVE + 1 <= Gap
      BY RoomForGap, TimingAssumption DEF AllOK, LivelyOK, Serving
    <2>2. Beat(s).wait \in 0..Gap
      BY <1>3
    <2>3. CASE IsRekeying(s)
      BY <1>17, <2>1, <2>2, <2>3
    <2>4. CASE ~IsRekeying(s)
      <3>1. /\ ~IsRekeying(r) /\ ~IsInitiating(r) /\ ~IsInitiating(s)
        BY <1>1, <1>12, <1>15, <1>16, <2>4 DEF IsRekeying, IsInitiating, IsReady
      <3>2. /\ Beat(s).wait = IF KeepalivePassed(s) THEN 0 ELSE KEEPALIVE + 1 - s.last_tx_at
            /\ Beat(r).wait = IF KeepalivePassed(r) THEN 0 ELSE KEEPALIVE + 1 - r.last_tx_at
        BY <2>4, <3>1 DEF Beat, Wait
      <3>3. CASE ok
        <4>1. Beat(r).wait = KEEPALIVE + 1 /\ S # {}
          BY <1>10, <1>14, <1>15, <1>16, <2>1, <3>2, <3>3
        <4> QED BY <2>1, <4>1
      <3>4. CASE ~ok
        <4>1. Beat(r).wait = Beat(s).wait
          BY <1>14, <1>15, <1>16, <3>2, <3>4
        <4> QED BY <2>1, <2>2, <4>1
      <3> QED BY <3>3, <3>4
    <2> QED BY <2>3, <2>4
  <1>21. /\ r # Absent /\ Spent' \in Nat /\ Spent <= Spent'
         /\ \A y \in S : /\ y.src = HomeAddr[n] /\ y.dst = HomeAddr[p]
                         /\ Carried(y).type # "RESPONSE"
    BY <1>4, <1>5, <1>10, <1>15, NoneAssumption
  <1> QED BY <1>1, <1>5, <1>11, <1>18, <1>19, <1>20, <1>21, SentLively DEF s

(* The retry of a rekey. *)
LEMMA RetryRekeyLively ==
  ASSUME AllOK, Serving, NEW n \in Node, NEW p \in Node, RetryRekey(n, p)
  PROVE  LivelyOK'
  <1> DEFINE s == peers[n][p]
             init == WriteInit(n, p, s.state.rehandshake.initiator)
             x == SendMaybeRelay(n, p, s.endpoint, init)
             sent(ok) == IF ok THEN {x} ELSE {}
             again == [s EXCEPT !.state.rehandshake.next_retry_at = INIT_RETRY_INTERVAL]
             rekey == [s.state.rehandshake EXCEPT !.next_retry_at = INIT_RETRY_INTERVAL]
             ready == [s.state EXCEPT !.rehandshake = rekey]
  <1>1. /\ p \in Known(n) /\ IsRekeying(s) /\ IsReady(s) /\ RetryDue(s)
        /\ endpoint_to_peer' = endpoint_to_peer
    BY DEF RetryRekey, Maintained, tables
  <1>2. PICK ok \in SendOutcomes :
           /\ Install(n, p, IF ok THEN again ELSE s)
           /\ net' = net (+) (IF ok THEN Delivered({x}) ELSE EmptyBag)
           /\ ChargeError(ok)
    BY DEF RetryRekey
  <1>3. /\ s \in PeerSession /\ s # Absent /\ Lively(<<n, p>>, s, Spent)
    BY <1>1, SessionLively
  <1>4. x.src = HomeAddr[n] /\ x.dst = HomeAddr[p] /\ Carried(x).type # "RESPONSE"
    <2>1. init.type # "RELAY" /\ init.type # "RESPONSE"
      BY DEF WriteInit
    <2>2. x = SendMaybeRelay(n, p, peers[n][p].endpoint, init)
      OBVIOUS
    <2> HIDE DEF init, x
    <2> QED BY <1>1, <2>1, <2>2, SentHome
  <1>5. /\ left'.loss = left.loss /\ BudgetOK' /\ Spent \in Nat /\ Spent' \in Nat /\ Spent <= Spent'
    BY <1>2, ChargedBudget DEF AllOK, LivelyOK
  <1>6. s.state \in ReadyState /\ s.state.rehandshake \in Rehandshake
    BY <1>1, <1>3, ReadyStates
  <1>7. rekey \in Rehandshake /\ rekey.next_retry_at = INIT_RETRY_INTERVAL
    BY <1>6, TimingAssumption DEF Rehandshake
  <1>8. again = [s EXCEPT !.state = ready]
    OBVIOUS
  <1>9. net' = net (+) Delivered(sent(ok))
    BY <1>2, MaybeDelivered
  <1> DEFINE S == sent(ok)
  <1>10. S = IF ok THEN {x} ELSE {}
    OBVIOUS
  <1> HIDE DEF s, rekey, again, x, sent, S
  <1>11. /\ ready \in PeerState /\ ready.tag = "Ready" /\ ready.rehandshake = rekey
    BY <1>6, <1>7 DEF PeerState, ReadyState
  <1> HIDE DEF ready
  <1>12. /\ again \in PeerSession /\ again.state = ready /\ again.endpoint = s.endpoint
         /\ again.stale = s.stale /\ again.last_rx_at = s.last_rx_at
    BY <1>3, <1>8, <1>11 DEF PeerSession
  <1>13. PICK r : r = IF ok THEN again ELSE s
    OBVIOUS
  <1>14. /\ Install(n, p, r) /\ r # Absent /\ r.endpoint = s.endpoint /\ r.stale = s.stale
         /\ r.last_rx_at = s.last_rx_at
         /\ r.state.rehandshake.next_retry_at = IF ok THEN INIT_RETRY_INTERVAL ELSE 0
    BY <1>1, <1>2, <1>3, <1>7, <1>11, <1>12, <1>13, NoneAssumption DEF RetryDue
  <1>15. IsRekeying(r) /\ IsReady(r) /\ ~IsInitiating(r)
    <2>1. rekey # None
      BY <1>7, NoneAssumption
    <2> QED BY <1>1, <1>11, <1>12, <1>13, <2>1 DEF IsRekeying, IsReady, IsInitiating
  <1>16. /\ Gap \in Nat /\ INIT_RETRY_INTERVAL \in Nat /\ INIT_RETRY_INTERVAL <= Gap
    BY RoomForGap, TimingAssumption DEF AllOK, LivelyOK, Serving
  <1>17. Lively(<<n, p>>, r, Spent')
    BY <1>3, <1>14, <1>15, <1>16 DEF Lively, InTime
  <1>18. /\ Beat(r).heard = Beat(s).heard
         /\ Beat(r).wait = IF ok THEN INIT_RETRY_INTERVAL ELSE 0
    BY <1>1, <1>14, <1>15 DEF Beat, Wait
  <1>19. /\ Beat(r).wait \in 0..Gap
         /\ S # {} \/ Beat(r).wait = 0
         /\ \A y \in S : /\ y.src = HomeAddr[n] /\ y.dst = HomeAddr[p]
                         /\ Carried(y).type # "RESPONSE"
    BY <1>4, <1>10, <1>16, <1>18
  <1>20. net' = net (+) Delivered(S)
    BY <1>9 DEF S
  <1> QED BY <1>1, <1>5, <1>14, <1>17, <1>18, <1>19, <1>20, SentLively DEF s

(* Nobody is silent for too long. *)
LEMMA NeverSilent ==
  ASSUME AllOK, Serving, NEW n \in Node, NEW p \in Known(n),
         IsReady(peers[n][p]), ~IsRekeying(peers[n][p])
  PROVE  ~SilentTooLong(peers[n][p])
  <1> DEFINE s == peers[n][p]
             q == <<n, p>>
  <1>1. /\ p \in Node /\ p # n /\ s \in PeerSession /\ (Asks(q) => InTime(s, Spent))
    BY SessionLively
  <1>2. REKEY_AFTER \in Nat /\ REJECT_AFTER \in Nat /\ REKEY_AFTER < REJECT_AFTER
    BY TimingAssumption DEF Serving, EnoughTime
  <1>3. CASE Asks(q)
    <2>1. /\ s.last_handshake_at \in 0..(REKEY_AFTER + 1)
          /\ s.last_rx_at \in 0..s.last_handshake_at
      BY <1>1, <1>3 DEF InTime, IsInitiating, IsReady
    <2> QED BY <1>2, <2>1 DEF SilentTooLong, Passed
  <1>4. CASE ~Asks(q)
    <2>1. q \in DOMAIN Views /\ Views[q] = View(s) /\ Agreement(Views, up, Handshakes)
      BY KnownView DEF AllOK, PromptOK, AgreementOK, Serving
    <2>2. View(s).holds # {}
      BY DEF View
    <2>3. Asks(Reverse(q))
      BY <1>4, <2>1, <2>2 DEF Agreement, Roles
    <2>4. q \in DOMAIN Beats /\ Beats[q].heard = {s.last_rx_at}
      BY <1>1 DEF Beats, Beat, Sessions, Session
    <2>5. s.last_rx_at \in 0..Room
      BY <2>3, <2>4 DEF AllOK, LivelyOK, BeatsOK, HeardOK
    <2>6. Room \in Int /\ Room <= REJECT_AFTER
      BY RoomForGap DEF AllOK, LivelyOK, Serving
    <2> QED BY <1>2, <2>5, <2>6 DEF SilentTooLong, Passed
  <1> QED BY <1>3, <1>4

(* So maintenance() marks nobody stale. *)
LEMMA MarkStaleLively ==
  ASSUME AllOK, Serving, NEW n \in Node, NEW p \in Node, MarkStale(n, p)
  PROVE  LivelyOK'
  BY NeverSilent DEF MarkStale, Maintained

(* Keepalives and the start of a rekey. *)
LEMMA KeepaliveOrRekeyLively ==
  ASSUME AllOK, Serving, NEW n \in Node, NEW p \in Node, KeepaliveOrRekey(n, p)
  PROVE  LivelyOK'
  <1> DEFINE s == peers[n][p]
             t == s.state.transport
             u == AfterEncrypt(t)
             keepalive == KeepaliveDue(s)
             rekey == RekeyDue(n, p, s)
             x == SendMaybeRelay(n, p, s.endpoint, Encrypt(t))
             y == SendMaybeRelay(n, p, s.endpoint, WriteInit(n, p, Fresh))
             probe == IF keepalive THEN {x} ELSE {}
             init == IF rekey THEN {y} ELSE {}
             tx(probed) == IF probed THEN 0 ELSE s.last_tx_at
             again == [initiator |-> Fresh, next_retry_at |-> INIT_RETRY_INTERVAL]
             ready(started) ==
                 [tag |-> "Ready",
                  transport |-> IF keepalive THEN u ELSE t,
                  rehandshake |-> IF started THEN again ELSE None]
             new(probed, started) ==
                 [s EXCEPT !.last_tx_at = tx(probed), !.state = ready(started)]
             sent(probed, started) ==
                 (IF probed THEN probe ELSE {}) \cup (IF started THEN init ELSE {})
             good(probed, started) == (keepalive => probed) /\ (rekey => started)
  <1>1. /\ p \in Known(n) /\ IsReady(s) /\ ~IsRekeying(s) /\ (keepalive \/ rekey)
        /\ endpoint_to_peer' = endpoint_to_peer
    BY DEF KeepaliveOrRekey, Maintained, tables
  <1>2. PICK probed \in BOOLEAN, started \in BOOLEAN :
           /\ started => rekey
           /\ probed => keepalive
           /\ good(probed, started) \in SendOutcomes
           /\ ChargeError(good(probed, started))
           /\ net' = net (+) Delivered(sent(probed, started))
           /\ Install(n, p, new(probed, started))
    BY DEF KeepaliveOrRekey
  <1>3. /\ s \in PeerSession /\ s # Absent /\ Lively(<<n, p>>, s, Spent)
        /\ Asks(<<n, p>>) => InTime(s, Spent) /\ Beat(s).wait \in 0..Gap
    BY <1>1, SessionLively
  <1>4. /\ x.src = HomeAddr[n] /\ x.dst = HomeAddr[p] /\ Carried(x).type # "RESPONSE"
        /\ y.src = HomeAddr[n] /\ y.dst = HomeAddr[p] /\ Carried(y).type # "RESPONSE"
    <2> DEFINE a == Encrypt(t)
               b == WriteInit(n, p, Fresh)
    <2>1. /\ a.type # "RELAY" /\ a.type # "RESPONSE"
          /\ b.type # "RELAY" /\ b.type # "RESPONSE"
      BY DEF Encrypt, WriteInit
    <2>2. /\ x = SendMaybeRelay(n, p, peers[n][p].endpoint, a)
          /\ y = SendMaybeRelay(n, p, peers[n][p].endpoint, b)
      OBVIOUS
    <2> HIDE DEF a, b, x, y
    <2>3. x.src = HomeAddr[n] /\ x.dst = HomeAddr[p] /\ Carried(x).type # "RESPONSE"
      BY <1>1, <2>1, <2>2, SentHome
    <2>4. y.src = HomeAddr[n] /\ y.dst = HomeAddr[p] /\ Carried(y).type # "RESPONSE"
      BY <1>1, <2>1, <2>2, SentHome
    <2> QED BY <2>3, <2>4
  <1> DEFINE ok == good(probed, started)
             r == new(probed, started)
             state == ready(started)
             S == sent(probed, started)
             last == tx(probed)
  <1>5. ok \in BOOLEAN /\ (~ok <=> (keepalive /\ ~probed) \/ (rekey /\ ~started))
    BY <1>2
  <1>6. /\ left'.loss = left.loss /\ BudgetOK'
        /\ Spent \in Nat /\ Spent' = Spent + (IF ok THEN 0 ELSE 1)
    <2>1. ok \in SendOutcomes /\ ChargeError(ok)
      BY <1>2
    <2> HIDE DEF ok
    <2> QED BY <2>1, ChargedBudget DEF AllOK, LivelyOK
  <1>7. s.state \in ReadyState /\ t \in Transport /\ s.state.rehandshake = None
    BY <1>1, <1>3, ReadyStates DEF ReadyState, IsRekeying
  <1>8. u \in Transport /\ t.send \in Nat /\ u.send = t.send + 1
    BY <1>7 DEF Transport, AfterEncrypt
  <1>9. r = [s EXCEPT !.last_tx_at = last, !.state = state]
    OBVIOUS
  <1>10. last \in Nat \cup {None} /\ last = IF probed THEN 0 ELSE s.last_tx_at
    BY <1>3 DEF PeerSession
  <1>11. /\ \A z \in S : z = x \/ z = y
         /\ probed \/ started => S # {}
    BY <1>2
  <1>12. Install(n, p, r) /\ net' = net (+) Delivered(S)
    BY <1>2
  <1>13. rekey => Fresh \in Ephemeral
    BY FreshOK DEF KeepaliveOrRekey
  <1>14. keepalive => KeepalivePassed(s)
    BY DEF KeepaliveDue, KeepalivePassed
  <1> HIDE DEF ok, r, S, s, u, keepalive, rekey, x, y, last
  <1>15. again.next_retry_at = INIT_RETRY_INTERVAL
         /\ (started => again \in Rehandshake /\ again # None)
    BY <1>2, <1>13, TimingAssumption, NoneAssumption DEF Rehandshake
  <1>16. /\ state.tag = "Ready" /\ state.transport = (IF keepalive THEN u ELSE t)
         /\ state.rehandshake = IF started THEN again ELSE None
    <2> HIDE DEF t, again
    <2> QED OBVIOUS
  <1>17. state \in PeerState
    <2> HIDE DEF t, again
    <2> QED BY <1>7, <1>8, <1>15 DEF PeerState, ReadyState
  <1> HIDE DEF state, again
  <1>18. /\ r \in PeerSession /\ r.state = state /\ r.endpoint = s.endpoint /\ r.stale = s.stale
         /\ r.last_rx_at = s.last_rx_at /\ r.last_tx_at = last
         /\ r.last_handshake_at = s.last_handshake_at
    BY <1>3, <1>9, <1>10, <1>17 DEF PeerSession
  <1>19. /\ IsReady(r) /\ ~IsInitiating(r) /\ ~IsInitiating(s) /\ (IsRekeying(r) <=> started)
    BY <1>1, <1>15, <1>16, <1>18 DEF IsReady, IsInitiating, IsRekeying
  <1>20. /\ probed => ~KeepalivePassed(r)
         /\ ~probed => (KeepalivePassed(r) <=> KeepalivePassed(s))
    BY <1>10, <1>18, TimingAssumption, NoneAssumption DEF KeepalivePassed, Passed
  <1>21. Gap \in Nat /\ KEEPALIVE \in Nat /\ KEEPALIVE + 1 <= Gap
         /\ INIT_RETRY_INTERVAL \in Nat /\ INIT_RETRY_INTERVAL <= Gap
    BY RoomForGap, TimingAssumption DEF AllOK, LivelyOK, Serving
  <1>22. Asks(<<n, p>>) => InTime(r, Spent')
    <2> SUFFICES ASSUME Asks(<<n, p>>) PROVE InTime(r, Spent')
      OBVIOUS
    <2>1. CASE started
      BY <1>15, <1>16, <1>18, <1>19, <1>21, <2>1 DEF InTime
    <2>2. CASE ~started
      <3> DEFINE k == IF ok THEN 0 ELSE 1
      <3>1. r.state.rehandshake = s.state.rehandshake
        BY <1>7, <1>16, <1>18, <2>2
      <3>2. /\ r.state.transport.send \in Nat
            /\ r.state.transport.send + (IF KeepalivePassed(r) THEN 1 ELSE 0)
                  <= s.state.transport.send + (IF KeepalivePassed(s) THEN 1 ELSE 0) + k
        <4>1. r.state.transport.send = t.send + (IF keepalive THEN 1 ELSE 0)
          BY <1>8, <1>16, <1>18
        <4>2. keepalive /\ ~probed => ~ok
          BY <1>5
        <4> QED BY <1>2, <1>8, <1>14, <1>20, <4>1, <4>2
      <3>3. k \in Nat /\ Spent + k = Spent' /\ InTime(s, Spent)
        BY <1>3, <1>6
      <3> HIDE DEF k, t
      <3>4. InTime(r, Spent + k)
        BY <1>1, <1>3, <1>6, <1>18, <1>19, <3>1, <3>2, <3>3, ReadyLively
      <3> QED BY <3>3, <3>4
    <2> QED BY <2>1, <2>2
  <1>23. Lively(<<n, p>>, r, Spent')
    BY <1>3, <1>18, <1>22 DEF Lively
  <1>24. Beat(r).heard = Beat(s).heard
    BY <1>1, <1>18, <1>19 DEF Beat
  <1>25. Asks(<<n, p>>) =>
             /\ Beat(r).wait \in 0..Gap
             /\ S # {} \/ Beat(r).wait = 0 \/ Beat(r).wait <= Beat(s).wait
    <2> SUFFICES ASSUME Asks(<<n, p>>)
                 PROVE  /\ Beat(r).wait \in 0..Gap
                        /\ S # {} \/ Beat(r).wait = 0 \/ Beat(r).wait <= Beat(s).wait
      OBVIOUS
    <2>1. Beat(s).wait \in 0..Gap
      BY <1>3
    <2>2. CASE started
      <3>1. Beat(r).wait = INIT_RETRY_INTERVAL
        BY <1>15, <1>16, <1>18, <1>19, <2>2 DEF Beat, Wait
      <3> QED BY <1>11, <1>21, <2>2, <3>1
    <2>3. CASE ~started
      <3>1. /\ Beat(s).wait = IF KeepalivePassed(s) THEN 0 ELSE KEEPALIVE + 1 - s.last_tx_at
            /\ Beat(r).wait = IF KeepalivePassed(r) THEN 0 ELSE KEEPALIVE + 1 - r.last_tx_at
        BY <1>1, <1>19, <2>3 DEF Beat, Wait
      <3>2. CASE probed
        <4>1. Beat(r).wait = KEEPALIVE + 1
          BY <1>10, <1>18, <1>20, <1>21, <3>1, <3>2
        <4> QED BY <1>11, <1>21, <3>2, <4>1
      <3>3. CASE ~probed
        <4>1. Beat(r).wait = Beat(s).wait
          BY <1>10, <1>18, <1>20, <3>1, <3>3
        <4> QED BY <1>21, <2>1, <4>1
      <3> QED BY <3>2, <3>3
    <2> QED BY <2>2, <2>3
  <1>26. /\ r # Absent /\ Spent' \in Nat /\ Spent <= Spent'
         /\ \A z \in S : /\ z.src = HomeAddr[n] /\ z.dst = HomeAddr[p]
                         /\ Carried(z).type # "RESPONSE"
    BY <1>4, <1>6, <1>11, <1>18, NoneAssumption
  <1> QED BY <1>1, <1>6, <1>12, <1>23, <1>24, <1>25, <1>26, SentLively DEF s

(* Every step of a manager on its own. *)
LEMMA PeerStepLively ==
  ASSUME AllOK, Serving, NEW n \in Node, NEW p \in Node, PeerStep(n, p)
  PROVE  LivelyOK'
  BY AddPeerLively, SendInitLively, ClearInitTimerLively, DispatchTunPacketLively,
     RetryRekeyLively, MarkStaleLively, KeepaliveOrRekeyLively DEF PeerStep, Maintenance

-----------------------------------------------------------------------------
(* What a manager receives. *)

(* A datagram that is heard, and counted if it is an INIT. *)
LEMMA HeardFields ==
  ASSUME NEW n, NEW p, peers[n][p] \in PeerSession, NEW src \in Addr
  PROVE  LET s == peers[n][p]
             h == Heard(n, p, src)
             c == CountInit(h)
         IN  /\ h \in PeerSession /\ h.state = s.state /\ h.stale = s.stale
             /\ h.endpoint = src /\ h.last_rx_at = 0 /\ h.last_tx_at = s.last_tx_at
             /\ h.next_init_at = s.next_init_at /\ h.last_handshake_at = s.last_handshake_at
             /\ c.stale = s.stale /\ c.last_rx_at = 0
  <1> DEFINE s == peers[n][p]
             h == Heard(n, p, src)
             count == IF h.init_rx_window_start >= RATE_WINDOW
                      THEN 1 ELSE h.init_rx_count + 1
             start == IF h.init_rx_window_start >= RATE_WINDOW
                      THEN 0 ELSE h.init_rx_window_start
             c == [h EXCEPT !.init_rx_count = count, !.init_rx_window_start = start]
  <1>1. h = [s EXCEPT !.endpoint = src, !.last_rx_at = 0]
    BY DEF Heard
  <1>2. CountInit(h) = c
    BY DEF CountInit
  <1> HIDE DEF s, h, count, start
  <1>3. /\ h \in PeerSession /\ h.state = s.state /\ h.stale = s.stale
        /\ h.endpoint = src /\ h.last_rx_at = 0 /\ h.last_tx_at = s.last_tx_at
        /\ h.next_init_at = s.next_init_at /\ h.last_handshake_at = s.last_handshake_at
    <2>1. s \in PeerSession
      BY DEF s
    <2> QED BY <1>1, <2>1 DEF PeerSession
  <1>4. c.stale = s.stale /\ c.last_rx_at = 0
    BY <1>3 DEF PeerSession
  <1> QED BY <1>2, <1>3, <1>4 DEF s, h

(* An INIT from p says that p asks, so n does not. *)
LEMMA AskedBy ==
  ASSUME AllOK, Serving, NEW n \in Node, NEW p \in Known(n), NEW d \in InFlight,
         Arrives(n, d), d.msg \in InitMessage \cup ResponseMessage, d.msg.from = p
  PROVE  /\ d.msg.to = n /\ d \in Handshakes /\ Carried(d) = d.msg
         /\ d.msg \in InitMessage => Asker(d) = <<p, n>> /\ ~Asks(<<n, p>>)
         /\ d.msg \in ResponseMessage => Asker(d) = <<n, p>>
  <1>1. /\ IsHandshake(d.msg) /\ Carried(d) = d.msg /\ d \in Handshakes
        /\ d.msg \in InitMessage => d.msg.type = "INIT"
        /\ d.msg \in ResponseMessage => d.msg.type = "RESPONSE"
        /\ d.msg.to \in Node
    BY DEF IsHandshake, Carried, Inner, Handshakes, InitMessage, ResponseMessage
  <1>2. d.msg.to = n
    <2>1. d.msg.to \in Node \ Roaming /\ addr[n] = HomeAddr[d.msg.to]
      BY <1>1 DEF AllOK, AttributionOK, TrueToAddress, Arrives
    <2> QED BY <2>1 DEF AllOK, AttributionOK, AddressesOK
  <1>3. /\ d.msg \in InitMessage => Asker(d) = <<p, n>>
        /\ d.msg \in ResponseMessage => Asker(d) = <<n, p>>
    BY <1>1, <1>2 DEF Asker
  <1>4. ASSUME d.msg \in InitMessage PROVE ~Asks(<<n, p>>)
    <2>1. Asks(<<p, n>>)
      BY <1>1, <1>3, <1>4 DEF AllOK, Serving, PromptOK, AgreementOK, Agreement, Roles
    <2>2. p \in Node /\ p # n
      BY Neighbours DEF AllOK, Serving
    <2> QED BY <2>1, <2>2 DEF Asks, OneSided, Serving
  <1> QED BY <1>1, <1>2, <1>3, <1>4

(* What an INIT makes of a session that is not stale. *)
LEMMA AnsweredFields ==
  ASSUME NEW s, LegalHeard(s), ~s.stale, NEW t \in Transport,
         NEW r, \/ r = s
                \/ IsReady(s) /\ r = RekeyAsResponder(s, t)
                \/ r = BecomeReady(s, t)
                \/ IsResponding(s) /\ r \in {[s EXCEPT !.state.spent = TRUE],
                                             [s EXCEPT !.state = FreshResponder]}
  PROVE  r # Absent /\ r.endpoint = s.endpoint /\ ~r.stale /\ r.last_rx_at = 0
  <1>1. s \in PeerSession /\ s.last_rx_at = 0 /\ s # Absent
    BY NoneAssumption DEF LegalHeard, Legal
  <1>2. CASE r = s
    BY <1>1, <1>2
  <1>3. CASE IsReady(s) /\ r = RekeyAsResponder(s, t)
    <2> DEFINE ready == [s.state EXCEPT !.transport = t]
    <2>1. r = [s EXCEPT !.state = ready, !.last_handshake_at = 0, !.stale = FALSE]
      BY <1>3 DEF RekeyAsResponder
    <2>2. Legal(r)
      BY <1>3, RekeyAsResponderLegal
    <2> HIDE DEF ready
    <2>3. r.endpoint = s.endpoint /\ r.stale = FALSE /\ r.last_rx_at = s.last_rx_at
      BY <1>1, <2>1 DEF PeerSession
    <2> QED BY <1>1, <2>2, <2>3, NoneAssumption DEF Legal
  <1>4. CASE r = BecomeReady(s, t)
    <2> DEFINE ready == Established(t)
    <2>1. r = [s EXCEPT !.state = ready, !.last_handshake_at = 0, !.last_rx_at = 0]
      BY <1>4 DEF BecomeReady
    <2>2. Legal(r)
      BY <1>1, <1>4, BecomeReadyLegal
    <2> HIDE DEF ready
    <2>3. r.endpoint = s.endpoint /\ r.stale = s.stale /\ r.last_rx_at = 0
      BY <1>1, <2>1 DEF PeerSession
    <2> QED BY <1>1, <2>2, <2>3, NoneAssumption DEF Legal
  <1>5. CASE IsResponding(s) /\ r \in {[s EXCEPT !.state.spent = TRUE],
                                       [s EXCEPT !.state = FreshResponder]}
    <2> DEFINE spent == [s.state EXCEPT !.spent = TRUE]
    <2>1. PICK state : r = [s EXCEPT !.state = state]
      <3>1. [s EXCEPT !.state.spent = TRUE] = [s EXCEPT !.state = spent]
        OBVIOUS
      <3> HIDE DEF spent
      <3> QED BY <1>5, <3>1
    <2>2. Legal(r)
      BY <1>1, <1>5, ResponderLegal
    <2>3. r.endpoint = s.endpoint /\ r.stale = s.stale /\ r.last_rx_at = s.last_rx_at
      BY <1>1, <2>1 DEF PeerSession
    <2> QED BY <1>1, <2>2, <2>3, NoneAssumption DEF Legal
  <1> QED BY <1>2, <1>3, <1>4, <1>5

(* Sessions end or stay, and with them what is under way to their nodes. *)
LEMMA FewerLively ==
  ASSUME AllOK, Serving, \A u \in Sessions' : u \in Sessions /\ Session(u)' = Session(u),
         left'.loss = left.loss, BudgetOK', Spent' \in Nat, Spent <= Spent',
         \A u \in Sessions' :
             /\ endpoint_to_peer'[u[1]][HomeAddr[u[2]]] = endpoint_to_peer[u[1]][HomeAddr[u[2]]]
             /\ Reverse(u) \in Links => Reverse(u) \in Links',
         Answered' \subseteq Answered
  PROVE  LivelyOK'
  <1>1. /\ WaitsOK(Beats) /\ HeardOK(Beats, Links, Answered, Room)
        /\ \A u \in Sessions : /\ Lively(u, Session(u), Spent)
                               /\ endpoint_to_peer[u[1]][HomeAddr[u[2]]] = u[2]
    BY DEF AllOK, LivelyOK, BeatsOK
  <1>2. Room \in Int /\ Spent \in Nat
    BY RoomForGap DEF AllOK, LivelyOK, Serving
  <1>3. Room' = Room
    BY DEF Room
  <1>4. /\ DOMAIN Beats = Sessions /\ DOMAIN Beats' = Sessions'
        /\ \A u \in Sessions' : Beats'[u] = Beats[u]
    BY BeatsPrimed DEF Beats
  <1>5. WaitsOK(Beats') /\ HeardOK(Beats', Links', Answered', Room)
    <2>1. /\ DOMAIN Beats' \subseteq DOMAIN Beats
          /\ \A u \in DOMAIN Beats' : Beats'[u] = Beats[u]
          /\ \A u \in DOMAIN Beats' : Reverse(u) \in Links => Reverse(u) \in Links'
      BY <1>4
    <2> QED BY <1>1, <1>2, <2>1, BeatsFewer
  <1>6. ASSUME NEW u \in Sessions'
        PROVE  /\ Lively(u, Session(u)', Spent')
               /\ endpoint_to_peer'[u[1]][HomeAddr[u[2]]] = u[2]
    <2>1. Session(u) \in PeerSession /\ u \in Sessions
      BY Neighbours DEF AllOK, Serving, Sessions, Session
    <2>2. Lively(u, Session(u), Spent')
      BY <1>1, <1>2, <2>1, InTimeMore DEF Lively
    <2> QED BY <1>1, <2>1, <2>2
  <1>7. BeatsOK'
    BY <1>3, <1>5 DEF BeatsOK
  <1>8. \A u \in Sessions' : Lively(u, Session(u)', Spent') <=> Lively(u, Session(u), Spent)'
    BY DEF Lively, InTime, KeepalivePassed, Passed, IsInitiating, IsRekeying, IsReady
  <1> QED BY <1>6, <1>7, <1>8 DEF LivelyOK

(* Which links the loss of d breaks. *)
LEMMA LinksLeft ==
  ASSUME AllOK, Serving, NEW d \in InFlight, net' = Consume(d), NEW u \in Sessions,
         d.src # HomeAddr[u[2]] \/ d.dst # addr[u[1]]
  PROVE  Reverse(u) \in Links => Reverse(u) \in Links'
  <1> SUFFICES ASSUME Reverse(u) \in Links PROVE Reverse(u) \in Links'
    OBVIOUS
  <1>1. u[1] \in Node /\ u[2] \in Known(u[1]) /\ Reverse(u) = <<u[2], u[1]>>
    BY DEF Sessions, Reverse
  <1>2. u[2] \in Node /\ addr[u[1]] = HomeAddr[u[1]]
    BY <1>1, Neighbours DEF AllOK, Serving
  <1>3. PICK f \in InFlight : f.src = HomeAddr[u[2]] /\ f.dst = HomeAddr[u[1]]
    BY <1>1 DEF Links
  <1>4. f # d
    BY <1>2, <1>3
  <1>5. f \in InFlight'
    <2>1. \E x : x = d
      OBVIOUS
    <2> QED BY <1>4, <2>1, DatagramsTaken DEF AllOK
  <1> QED BY <1>1, <1>2, <1>3, <1>5 DEF Links

(* The loss of a datagram answers nobody. *)
LEMMA AnswersLeft ==
  ASSUME AllOK, NEW d \in InFlight, net' = Consume(d)
  PROVE  Answered' \subseteq Answered
  BY DatagramsConsumed DEF AllOK, Answered, Handshakes

(* The end of a daemon: nobody else loses a link. *)
LEMMA DownLively ==
  ASSUME AllOK, Serving, NEW n \in Node, Down(n),
         left'.loss = left.loss, BudgetOK', Spent' \in Nat, Spent <= Spent',
         \/ net' = net
         \/ \E d \in InFlight : net' = Consume(d) /\ d.dst = addr[n]
  PROVE  LivelyOK'
  <1>1. \A u \in Node \X Node :
           IF u[1] = n THEN peers'[u[1]][u[2]] = Absent
           ELSE peers'[u[1]][u[2]] = peers[u[1]][u[2]]
    BY DEF AllOK, IInv, TablesOK, Down
  <1>2. \A u : /\ u \in Sessions <=> u \in Node \X Node /\ peers[u[1]][u[2]] # Absent
               /\ u \in Sessions' <=> u \in Node \X Node /\ peers'[u[1]][u[2]] # Absent
    BY DEF Sessions, Known
  <1>3. /\ \A u \in Sessions' : u \in Sessions /\ u[1] # n /\ u \in Node \X Node
        /\ \A u \in Sessions' : Session(u)' = Session(u)
    BY <1>1, <1>2 DEF Session
  <1>4. ASSUME NEW u \in Sessions'
        PROVE  endpoint_to_peer'[u[1]][HomeAddr[u[2]]] = endpoint_to_peer[u[1]][HomeAddr[u[2]]]
    <2>1. endpoint_to_peer \in [Node -> [Addr -> Node \cup {None}]]
      BY DEF AllOK, IInv, TablesOK
    <2> QED BY <1>3, <2>1 DEF Down
  <1>5. ASSUME NEW u \in Sessions' PROVE Reverse(u) \in Links => Reverse(u) \in Links'
    <2>1. CASE net' = net
      BY <2>1 DEF Links, InFlight
    <2>2. CASE \E d \in InFlight : net' = Consume(d) /\ d.dst = addr[n]
      <3>1. PICK d \in InFlight : net' = Consume(d) /\ d.dst = addr[n]
        BY <2>2
      <3>2. u \in Sessions /\ u[1] \in Node /\ u[2] \in Known(u[1]) /\ u[1] # n
        BY <1>3 DEF Sessions
      <3>3. addr[u[1]] = HomeAddr[u[1]] /\ (addr[n] = HomeAddr[u[1]] => n = u[1])
        BY <3>2, Neighbours DEF AllOK, Serving
      <3>4. d.dst # addr[u[1]]
        BY <3>1, <3>2, <3>3
      <3> QED BY <3>1, <3>2, <3>4, LinksLeft
    <2> QED BY <2>1, <2>2
  <1>6. Answered' \subseteq Answered
    <2>1. CASE net' = net
      BY <2>1 DEF Answered, Handshakes, InFlight
    <2> QED BY <2>1, AnswersLeft
  <1> QED BY <1>3, <1>4, <1>5, <1>6, FewerLively

(* An INIT: who asks for a key has been heard, and gets its answer. *)
LEMMA ReceiveInitLively ==
  ASSUME AllOK, Serving, NEW n \in Node, NEW d \in InFlight, ReceiveInit(n, d)
  PROVE  LivelyOK'
  <1> DEFINE p == Sender(n, d.src, d.msg)
             h == Heard(n, p, d.src)
             s == CountInit(h)
             m == d.msg
             t == NewTransport(Fresh, "responder", m.from)
             x == [src |-> addr[n], dst |-> d.src, msg |-> WriteResponse(n, m, Fresh)]
             spent == [s EXCEPT !.state.spent = TRUE]
             unspent == [s EXCEPT !.state = FreshResponder]
  <1>1. Arrives(n, d) /\ m.type = "INIT" /\ p # None
    BY DEF ReceiveInit
  <1>2. m \in InitMessage /\ IsHandshake(m)
    BY <1>1, DatagramTypes DEF AllOK, IInv, IsHandshake
  <1>3. /\ p \in Known(n) /\ p \in Node /\ d.src \in Addr /\ d.src = HomeAddr[p]
        /\ m.from = p
        /\ Rehome(n, p, d.src) => endpoint_to_peer' = endpoint_to_peer
    <2> HIDE DEF p
    <2>1. p = Sender(n, d.src, d.msg)
      BY DEF p
    <2> QED BY <1>1, <1>2, <2>1, SenderAtHome
  <1>4. m.to = n /\ ~Asks(<<n, p>>)
    <2> HIDE DEF p
    <2> QED BY <1>1, <1>2, <1>3, AskedBy
  <1>5. CASE OverLimit(s)
    <2>1. Down(n) /\ net' = Consume(d) /\ left' = left
      BY <1>5 DEF ReceiveInit
    <2>2. /\ left'.loss = left.loss /\ BudgetOK' /\ Spent' \in Nat /\ Spent <= Spent'
      BY <2>1, UnchargedBudget DEF AllOK, LivelyOK
    <2> QED BY <1>1, <2>1, <2>2, DownLively DEF Arrives
  <1>6. CASE ~OverLimit(s)
    <2>1. AnswerInit(n, p, s, d, m, FALSE) /\ endpoint_to_peer' = endpoint_to_peer
      BY <1>3, <1>6 DEF ReceiveInit
    <2>2. /\ LegalHeard(s) /\ s.endpoint = d.src /\ ~s.stale
      <3> HIDE DEF p
      <3>1. LegalHeard(h) /\ h.endpoint = d.src /\ peers[n][p] \in PeerSession /\ ~peers[n][p].stale
        <4>1. LegalHeard(Heard(n, p, d.src)) /\ Heard(n, p, d.src).endpoint = d.src
          BY <1>3, HeardLegal DEF AllOK, IInv
        <4>2. peers[n][p] \in PeerSession /\ ~peers[n][p].stale
          BY <1>3, SessionLively
        <4> QED BY <4>1, <4>2
      <3>2. s.stale = peers[n][p].stale
        BY <1>3, <3>1, HeardFields
      <3> HIDE DEF h
      <3>3. LegalHeard(s) /\ s.endpoint = h.endpoint
        BY <3>1, CountInitLegal
      <3> QED BY <3>1, <3>2, <3>3
    <2> DEFINE answers == IsResponding(s) \/ (IsReady(s) /\ ~FALSE)
               accepts == /\ ConsumesInit(n, m, age[m.eph])
                          /\ IsResponding(s) => ~s.state.spent
               session(ok) == CASE IsReady(s) /\ ok -> RekeyAsResponder(s, t)
                                [] IsReady(s) /\ ~ok -> s
                                [] ~IsReady(s) /\ ok -> BecomeReady(s, t)
                                [] OTHER -> spent
               outcomes == {s, spent, unspent, RekeyAsResponder(s, t), BecomeReady(s, t)}
    <2>3. \E ok \in SendOutcomes, r \in outcomes :
             /\ ChargeError(ok) /\ Install(n, p, r)
             /\ \/ net' = Consume(d)
                \/ net' = Consume(d) (+) (IF ok THEN Delivered({x}) ELSE EmptyBag)
             /\ \/ r = s
                \/ /\ t \in Transport
                   /\ \/ IsReady(s) /\ r = RekeyAsResponder(s, t)
                      \/ r = BecomeReady(s, t)
                \/ IsResponding(s) /\ r \in {spent, unspent}
      <3>1. CASE ~(answers /\ accepts)
        <4>1. /\ net' = Consume(d) /\ left' = left
              /\ Install(n, p, IF IsResponding(s) THEN unspent ELSE s)
          BY <2>1, <3>1 DEF AnswerInit
        <4>2. TRUE \in SendOutcomes /\ ChargeError(TRUE)
          BY <4>1 DEF SendOutcomes, ChargeError
        <4> HIDE DEF s, spent, unspent, x
        <4> QED BY <4>1, <4>2
      <3>2. CASE answers /\ accepts
        <4>1. /\ Unused # {}
              /\ \E ok \in SendOutcomes :
                    /\ net' = Consume(d) (+) (IF ok THEN Delivered({x}) ELSE EmptyBag)
                    /\ ChargeError(ok)
                    /\ Install(n, p, session(ok))
          BY <2>1, <3>2 DEF AnswerInit
        <4>2. PICK ok \in SendOutcomes :
                    /\ net' = Consume(d) (+) (IF ok THEN Delivered({x}) ELSE EmptyBag)
                    /\ ChargeError(ok)
                    /\ Install(n, p, session(ok))
          BY <4>1
        <4>3. t \in Transport
          BY <1>2, <4>1, FreshOK DEF NewTransport, Transport, Side, InitMessage
        <4>4. \/ session(ok) = s
              \/ IsReady(s) /\ session(ok) = RekeyAsResponder(s, t)
              \/ session(ok) = BecomeReady(s, t)
              \/ IsResponding(s) /\ session(ok) = spent
          BY <3>2
        <4> HIDE DEF s, t, spent, unspent, x, session
        <4> QED BY <4>2, <4>3, <4>4
      <3> QED BY <3>1, <3>2
    <2>4. PICK ok \in SendOutcomes, r \in outcomes :
             /\ ChargeError(ok) /\ Install(n, p, r)
             /\ \/ net' = Consume(d)
                \/ net' = Consume(d) (+) (IF ok THEN Delivered({x}) ELSE EmptyBag)
             /\ \/ r = s
                \/ /\ t \in Transport
                   /\ \/ IsReady(s) /\ r = RekeyAsResponder(s, t)
                      \/ r = BecomeReady(s, t)
                \/ IsResponding(s) /\ r \in {spent, unspent}
      BY <2>3
    <2>5. Carried(x).type = "RESPONSE" /\ Asker(x) = <<p, n>>
      <3>1. Carried(x) = WriteResponse(n, m, Fresh)
        BY DEF Carried, Inner, WriteResponse
      <3> QED BY <1>3, <3>1 DEF Asker, WriteResponse
    <2>6. r # Absent /\ r.endpoint = s.endpoint /\ ~r.stale /\ r.last_rx_at = 0
      <3>1. CASE t \in Transport
        <4> HIDE DEF s, t
        <4> QED BY <2>2, <2>4, <3>1, AnsweredFields
      <3>2. CASE r = s \/ (IsResponding(s) /\ r \in {spent, unspent})
        <4>1. PICK z \in Transport : TRUE
          <5>1. NewTransport(m.eph, "responder", n) \in Transport
            BY <1>2 DEF NewTransport, Transport, Side, InitMessage
          <5> QED BY <5>1
        <4> HIDE DEF s
        <4> QED BY <2>2, <3>2, <4>1, AnsweredFields
      <3> QED BY <2>4, <3>1, <3>2
    <2>7. Lively(<<n, p>>, r, Spent')
      <3> HIDE DEF s, p
      <3> QED BY <1>3, <1>4, <2>2, <2>6 DEF Lively
    <2> HIDE DEF p, s, t, x, m
    <2> QED BY <1>1, <1>3, <1>4, <2>1, <2>4, <2>5, <2>6, <2>7, HeardLively
  <1> QED BY <1>5, <1>6

(* A RESPONSE: the silence that counts begins anew. *)
LEMMA ReceiveResponseLively ==
  ASSUME AllOK, Serving, NEW n \in Node, NEW d \in InFlight, ReceiveResponse(n, d)
  PROVE  LivelyOK'
  <1>1. PICK p : p = Sender(n, d.src, d.msg)
    OBVIOUS
  <1>2. PICK m : m = d.msg
    OBVIOUS
  <1> DEFINE h == Heard(n, p, d.src)
             r == HandleResponse(h, m)
             new == Established(Initiated(m))
  <1>3. /\ Arrives(n, d) /\ m.type = "RESPONSE" /\ p # None /\ Rehome(n, p, d.src)
        /\ Install(n, p, r) /\ net' = Consume(d) /\ left' = left
    BY <1>1, <1>2 DEF ReceiveResponse
  <1>4. m \in ResponseMessage /\ IsHandshake(m)
    BY <1>2, <1>3, DatagramTypes DEF AllOK, IInv, IsHandshake
  <1>5. /\ p \in Known(n) /\ p \in Node /\ d.src \in Addr /\ d.src = HomeAddr[p]
        /\ m.from = p /\ endpoint_to_peer' = endpoint_to_peer
    BY <1>1, <1>2, <1>3, <1>4, SenderAtHome
  <1>6. d \in Handshakes /\ Carried(d) = m /\ Asker(d) = <<n, p>>
    BY <1>2, <1>3, <1>4, <1>5, AskedBy
  <1>7. <<n, p>> \in Answered
    BY <1>3, <1>6 DEF Answered
  <1>8. /\ h \in PeerSession /\ h.last_rx_at = 0 /\ h.endpoint = d.src /\ ~h.stale
        /\ LegalHeard(h) /\ View(h) = View(peers[n][p])
    <2>1. peers[n][p] \in PeerSession /\ ~peers[n][p].stale
      BY <1>5, SessionLively
    <2> QED BY <1>5, <2>1, HeardFields, HeardView DEF AllOK
  <1>9. Awaits(h, m.eph)
    <2>1. <<n, p>> \in DOMAIN Views /\ Views[<<n, p>>] = View(h)
      BY <1>5, <1>8, KnownView DEF AllOK
    <2>2. n \in up
      BY <1>3 DEF Arrives
    <2>3. m.eph \in View(h).asks
      BY <1>6, <2>1, <2>2 DEF AllOK, PromptOK, TokensOK, Tokens, Awaited
    <2> QED BY <2>3 DEF View
  <1> HIDE DEF h
  <1>10. r = [h EXCEPT !.state = new, !.last_handshake_at = 0]
    BY <1>9 DEF Awaits, HandleResponse, FirstResponse, RekeyResponse,
            ConsumesResponse, IsInitiating, IsRekeying, IsReady
  <1>11. /\ new.tag = "Ready" /\ new.transport.send = 0 /\ new.rehandshake = None
    BY DEF Established, Initiated, NewTransport
  <1>12. Legal(r)
    BY <1>4, <1>8, HandleResponseLegal
  <1> HIDE DEF new, r
  <1>13. /\ r \in PeerSession /\ r # Absent /\ r.state = new /\ r.endpoint = d.src /\ ~r.stale
         /\ r.last_rx_at = 0 /\ r.last_handshake_at = 0
    <2>1. r \in PeerSession /\ r # Absent
      BY <1>12, NoneAssumption DEF Legal
    <2>2. r.state = new /\ r.endpoint = h.endpoint /\ r.stale = h.stale
          /\ r.last_rx_at = h.last_rx_at /\ r.last_handshake_at = 0
      BY <1>8, <1>10 DEF PeerSession
    <2> QED BY <1>8, <2>1, <2>2
  <1>14. IsReady(r) /\ ~IsRekeying(r) /\ ~IsInitiating(r)
    BY <1>11, <1>13 DEF IsReady, IsRekeying, IsInitiating
  <1>15. /\ Gap \in Nat /\ KEEPALIVE \in Nat /\ KEEPALIVE + 1 <= Gap /\ REKEY_AFTER \in Nat
    BY RoomForGap, TimingAssumption DEF AllOK, LivelyOK, Serving
  <1>16. TRUE \in SendOutcomes /\ ChargeError(TRUE) /\ Spent' \in Nat
    BY <1>3, UnchargedBudget DEF AllOK, LivelyOK, SendOutcomes, ChargeError
  <1>17. InTime(r, Spent')
    <2>1. r.last_handshake_at \in 0..(REKEY_AFTER + 1) /\ r.last_rx_at \in 0..r.last_handshake_at
      BY <1>13, <1>15
    <2>2. r.state.transport.send + (IF KeepalivePassed(r) THEN 1 ELSE 0)
             <= r.last_handshake_at + 1 + Spent'
      BY <1>11, <1>13, <1>16
    <2> QED BY <1>14, <2>1, <2>2 DEF InTime
  <1>18. Lively(<<n, p>>, r, Spent')
    BY <1>5, <1>13, <1>17 DEF Lively
  <1>19. Beat(r).wait \in 0..Gap
    <2>1. Beat(r).wait = IF KeepalivePassed(r) THEN 0 ELSE KEEPALIVE + 1 - r.last_tx_at
      BY <1>14 DEF Beat, Wait
    <2>2. ~KeepalivePassed(r) => r.last_tx_at \in 0..KEEPALIVE
      BY <1>13, <1>15 DEF KeepalivePassed, Passed, PeerSession
    <2> QED BY <1>15, <2>1, <2>2
  <1>20. \E x : Carried(x).type = "RESPONSE" => Asker(x) = <<p, n>>
    <2>1. Carried([msg |-> [type |-> "INIT"]]).type # "RESPONSE"
      BY DEF Carried, Inner
    <2> QED BY <2>1
  <1>21. PICK x : Carried(x).type = "RESPONSE" => Asker(x) = <<p, n>>
    BY <1>20
  <1> QED BY <1>3, <1>5, <1>7, <1>13, <1>16, <1>18, <1>19, <1>21, HeardLively

(* A TRANSPORT that is heard changes nothing of what its receiver waits for. *)
LEMMA HeardInTime ==
  ASSUME NEW s \in PeerSession, NEW r,
         \/ r.state = s.state
         \/ IsReady(s) /\ r.state = [s.state EXCEPT !.transport = AfterDecrypt(@)],
         r.last_rx_at = 0, r.last_tx_at = s.last_tx_at, r.next_init_at = s.next_init_at,
         r.last_handshake_at = s.last_handshake_at, NEW m \in Nat
  PROVE  /\ InTime(s, m) => InTime(r, m)
         /\ Beat(r).wait = Beat(s).wait
  <1>1. /\ IsInitiating(r) <=> IsInitiating(s)
        /\ IsReady(r) <=> IsReady(s)
        /\ IsReady(s) => /\ r.state.rehandshake = s.state.rehandshake
                         /\ r.state.transport.send = s.state.transport.send
    <2>1. CASE r.state = s.state
      BY <2>1 DEF IsInitiating, IsReady
    <2>2. CASE IsReady(s) /\ r.state = [s.state EXCEPT !.transport = AfterDecrypt(@)]
      <3>1. s.state \in ReadyState /\ s.state.transport \in Transport
        BY <2>2, ReadyStates DEF ReadyState
      <3>2. /\ r.state.tag = s.state.tag /\ r.state.rehandshake = s.state.rehandshake
            /\ r.state.transport = AfterDecrypt(s.state.transport)
        BY <2>2, <3>1 DEF ReadyState
      <3>3. AfterDecrypt(s.state.transport).send = s.state.transport.send
        BY <3>1 DEF AfterDecrypt, Transport
      <3> QED BY <3>2, <3>3 DEF IsInitiating, IsReady
    <2> QED BY <2>1, <2>2
  <1>2. /\ IsRekeying(r) <=> IsRekeying(s)
        /\ KeepalivePassed(r) <=> KeepalivePassed(s)
    BY <1>1 DEF IsRekeying, KeepalivePassed
  <1>3. IsRekeying(s) => IsReady(s)
    BY DEF IsRekeying
  <1>4. Beat(r).wait = Beat(s).wait
    BY <1>1, <1>2, <1>3 DEF Beat, Wait
  <1>5. ASSUME InTime(s, m) PROVE InTime(r, m)
    <2>1. CASE IsInitiating(s) \/ IsRekeying(s)
      <3>1. \/ IsInitiating(s) /\ s.next_init_at \in 0..INIT_RETRY_INTERVAL
            \/ /\ IsRekeying(s)
               /\ s.state.rehandshake.next_retry_at \in 0..INIT_RETRY_INTERVAL
        BY <1>5, <2>1 DEF InTime, IsInitiating, IsRekeying, IsReady
      <3> QED BY <1>1, <1>2, <1>3, <3>1 DEF InTime
    <2>2. CASE ~(IsInitiating(s) \/ IsRekeying(s))
      <3>1. /\ IsReady(s) /\ ~IsRekeying(s)
            /\ s.last_handshake_at \in 0..(REKEY_AFTER + 1)
            /\ s.last_rx_at \in 0..s.last_handshake_at
            /\ s.state.transport.send + (IF KeepalivePassed(s) THEN 1 ELSE 0)
                  <= s.last_handshake_at + 1 + m
        BY <1>5, <2>2 DEF InTime
      <3>2. r.last_rx_at \in 0..r.last_handshake_at
        BY <3>1, TimingAssumption
      <3> QED BY <1>1, <1>2, <3>1, <3>2 DEF InTime
    <2> QED BY <2>1, <2>2
  <1> QED BY <1>4, <1>5

(* A TRANSPORT. *)
LEMMA ReceiveTransportLively ==
  ASSUME AllOK, Serving, NEW n \in Node, NEW d \in InFlight, ReceiveTransport(n, d)
  PROVE  LivelyOK'
  <1>1. PICK p : p = Sender(n, d.src, d.msg)
    OBVIOUS
  <1> DEFINE s == peers[n][p]
             h == Heard(n, p, d.src)
             r == HandleTransport(h, d.msg)
  <1>2. /\ Arrives(n, d) /\ d.msg.type = "TRANSPORT" /\ p # None /\ Rehome(n, p, d.src)
        /\ Install(n, p, r) /\ net' = Consume(d) /\ left' = left
    BY <1>1 DEF ReceiveTransport
  <1>3. /\ p \in Known(n) /\ p \in Node /\ d.src \in Addr /\ d.src = HomeAddr[p]
        /\ endpoint_to_peer' = endpoint_to_peer
    BY <1>1, <1>2, SenderAtHome
  <1>4. /\ s \in PeerSession /\ ~s.stale
        /\ Asks(<<n, p>>) => InTime(s, Spent) /\ Beat(s).wait \in 0..Gap
    BY <1>3, SessionLively
  <1>5. /\ h \in PeerSession /\ h.state = s.state /\ ~h.stale /\ h.endpoint = d.src
        /\ h.last_rx_at = 0 /\ h.last_tx_at = s.last_tx_at
        /\ h.next_init_at = s.next_init_at /\ h.last_handshake_at = s.last_handshake_at
    BY <1>3, <1>4, HeardFields
  <1>6. LegalHeard(h)
    BY <1>3, HeardLegal DEF AllOK, IInv
  <1>7. TRUE \in SendOutcomes /\ ChargeError(TRUE) /\ Spent \in Nat /\ Spent' = Spent
    BY <1>2, UnchargedBudget DEF AllOK, LivelyOK, SendOutcomes, ChargeError
  <1> HIDE DEF s, h
  <1>8. \/ r = h
        \/ IsReady(h) /\ r = [h EXCEPT !.state.transport = AfterDecrypt(@)]
    BY DEF HandleTransport, HandleRelayedTransport
  <1>9. Legal(r)
    BY <1>6, HandleTransportLegal
  <1> HIDE DEF r
  <1>10. /\ r.endpoint = d.src /\ ~r.stale /\ r.last_rx_at = 0
         /\ r.last_tx_at = s.last_tx_at /\ r.next_init_at = s.next_init_at
         /\ r.last_handshake_at = s.last_handshake_at
         /\ \/ r.state = s.state
            \/ IsReady(s) /\ r.state = [s.state EXCEPT !.transport = AfterDecrypt(@)]
    <2>1. CASE r = h
      BY <1>5, <2>1
    <2>2. CASE IsReady(h) /\ r = [h EXCEPT !.state.transport = AfterDecrypt(@)]
      <3> DEFINE state == [h.state EXCEPT !.transport = AfterDecrypt(@)]
      <3>1. r = [h EXCEPT !.state = state]
        BY <2>2
      <3>2. IsReady(s)
        BY <1>5, <2>2 DEF IsReady
      <3>3. state = [s.state EXCEPT !.transport = AfterDecrypt(@)]
        BY <1>5
      <3> HIDE DEF state
      <3>4. /\ r.state = state /\ r.endpoint = h.endpoint /\ r.stale = h.stale
            /\ r.last_rx_at = h.last_rx_at /\ r.last_tx_at = h.last_tx_at
            /\ r.next_init_at = h.next_init_at
            /\ r.last_handshake_at = h.last_handshake_at
        BY <1>5, <3>1 DEF PeerSession
      <3> QED BY <1>5, <3>2, <3>3, <3>4
    <2> QED BY <1>8, <2>1, <2>2
  <1>11. r # Absent
    BY <1>9, NoneAssumption DEF Legal
  <1>12. /\ InTime(s, Spent) => InTime(r, Spent)
         /\ Beat(r).wait = Beat(s).wait
    BY <1>4, <1>7, <1>10, HeardInTime
  <1>13. Lively(<<n, p>>, r, Spent')
    BY <1>3, <1>4, <1>7, <1>10, <1>12 DEF Lively
  <1>14. Asks(<<n, p>>) =>
             /\ Beat(r).wait \in 0..Gap
             /\ \/ <<n, p>> \in Answered \/ Beat(r).wait = 0
                \/ Beat(r).wait <= Beat(peers[n][p]).wait
    BY <1>4, <1>12, RoomForGap DEF s, AllOK, LivelyOK, Serving
  <1>15. PICK x : Carried(x).type = "RESPONSE" => Asker(x) = <<p, n>>
    <2>1. Carried([msg |-> [type |-> "INIT"]]).type # "RESPONSE"
      BY DEF Carried, Inner
    <2> QED BY <2>1
  <1> QED BY <1>2, <1>3, <1>7, <1>10, <1>11, <1>13, <1>14, <1>15, HeardLively

(* A datagram nobody expects at its destination. *)
LEMMA UnexpectedLively ==
  ASSUME AllOK, Serving, NEW d \in InFlight, net' = Consume(d), left' = left,
         peers' = peers, endpoint_to_peer' = endpoint_to_peer,
         \A u \in Sessions : d.src # HomeAddr[u[2]] \/ d.dst # addr[u[1]]
  PROVE  LivelyOK'
  <1>1. /\ left'.loss = left.loss /\ BudgetOK' /\ Spent' \in Nat /\ Spent <= Spent'
    BY UnchargedBudget DEF AllOK, LivelyOK
  <1>2. Sessions' = Sessions /\ \A u \in Sessions' : Session(u)' = Session(u)
    BY DEF Sessions, Session, Known
  <1>3. \A u \in Sessions' : Reverse(u) \in Links => Reverse(u) \in Links'
    BY <1>2, LinksLeft
  <1>4. Answered' \subseteq Answered
    BY AnswersLeft
  <1> QED BY <1>1, <1>2, <1>3, <1>4, FewerLively

(* Every datagram that arrives. *)
LEMMA ReceiveLively ==
  ASSUME AllOK, Serving, NEW n \in Node, NEW d \in InFlight, Receive(n, d)
  PROVE  LivelyOK'
  <1>1. \/ ReceiveInit(n, d) \/ ReceiveResponse(n, d) \/ ReceiveTransport(n, d)
        \/ IgnoreUnknownSource(n, d)
    BY DEF Receive, ReceiveRelayedInit, ReceiveRelayedResponse, ReceiveRelayedTransport,
           ForwardRelay, DropStrangersRelay, ArrivesRelayed, AllOK, NoRelays, Unrelayed
  <1>2. CASE IgnoreUnknownSource(n, d)
    <2>1. /\ Arrives(n, d) /\ Sender(n, d.src, d.msg) = None /\ net' = Consume(d)
          /\ left' = left /\ peers' = peers /\ endpoint_to_peer' = endpoint_to_peer
      BY <1>2 DEF IgnoreUnknownSource, tables
    <2>2. d.dst = addr[n]
      BY <2>1 DEF Arrives
    <2>3. ASSUME NEW u \in Sessions, d.src = HomeAddr[u[2]], d.dst = addr[u[1]]
          PROVE  FALSE
      <3>1. u[1] \in Node /\ u[2] \in Known(u[1])
        BY DEF Sessions
      <3>2. /\ u[2] \in Node /\ addr[u[1]] = HomeAddr[u[1]]
            /\ addr[n] = HomeAddr[u[1]] => n = u[1]
        BY <3>1, Neighbours DEF AllOK, Serving
      <3>3. n = u[1]
        BY <2>2, <2>3, <3>2
      <3>4. endpoint_to_peer[u[1]][HomeAddr[u[2]]] = u[2]
        BY DEF AllOK, LivelyOK
      <3>5. endpoint_to_peer[n][d.src] = u[2] /\ u[2] # None
        BY <2>3, <3>2, <3>3, <3>4, NoneAssumption
      <3> QED BY <2>1, <3>5 DEF Sender
    <2> QED BY <2>1, <2>3, UnexpectedLively
  <1> QED BY <1>1, <1>2, ReceiveInitLively, ReceiveResponseLively, ReceiveTransportLively

-----------------------------------------------------------------------------
(* Time, losses and restarts. *)

(* A time unit in which nothing is due brings what is waited for nearer. *)
LEMMA AgedInTime ==
  ASSUME NEW s \in PeerSession, NEW m \in Nat, InTime(s, m), REKEY_AFTER < REJECT_AFTER,
         IsInitiating(s) => ~InitDue(s), IsRekeying(s) => ~RetryDue(s),
         (IsReady(s) /\ ~IsRekeying(s)) =>
             ~KeepalivePassed(s) /\ ~Passed(s.last_handshake_at, REKEY_AFTER)
  PROVE  /\ InTime(Aged(s), m)
         /\ Beat(s).wait # 0 /\ Beat(Aged(s)).wait = Beat(s).wait - 1
  <1>1. PICK r : r = Aged(s)
    OBVIOUS
  <1>2. /\ r.next_init_at = Sooner(s.next_init_at)
        /\ r.last_rx_at = Older(s.last_rx_at, REJECT_AFTER)
        /\ r.last_tx_at = Older(s.last_tx_at, KEEPALIVE)
        /\ r.last_handshake_at = Older(s.last_handshake_at, REKEY_AFTER)
        /\ ~IsRekeying(s) => r.state = s.state
        /\ IsRekeying(s) =>
              /\ IsRekeying(r)
              /\ r.state.rehandshake.next_retry_at
                    = Sooner(s.state.rehandshake.next_retry_at)
    BY <1>1, AgedFields
  <1>3. /\ INIT_RETRY_INTERVAL \in Nat /\ KEEPALIVE \in Nat
        /\ REKEY_AFTER \in Nat /\ REJECT_AFTER \in Nat
    BY TimingAssumption
  <1>4. ~(IsInitiating(s) /\ IsReady(s)) /\ (IsRekeying(s) => IsReady(s))
    BY DEF IsInitiating, IsReady, IsRekeying
  <1>5. CASE IsInitiating(s)
    <2>1. IsInitiating(r) /\ ~IsRekeying(s)
      BY <1>2, <1>4, <1>5 DEF IsInitiating
    <2>2. s.next_init_at \in 1..INIT_RETRY_INTERVAL
      BY <1>3, <1>4, <1>5 DEF InTime, InitDue
    <2>3. r.next_init_at = s.next_init_at - 1
      BY <1>2, <2>2, NoneAssumption DEF Sooner
    <2>4. Beat(s).wait = s.next_init_at /\ Beat(r).wait = r.next_init_at
      BY <1>5, <2>1 DEF Beat, Wait
    <2> QED BY <1>1, <1>3, <2>1, <2>2, <2>3, <2>4 DEF InTime
  <1>6. CASE IsRekeying(s)
    <2>1. IsRekeying(r) /\ ~IsInitiating(r) /\ ~IsInitiating(s)
      BY <1>2, <1>4, <1>6 DEF IsInitiating, IsReady, IsRekeying
    <2>2. s.state.rehandshake.next_retry_at \in 1..INIT_RETRY_INTERVAL
      BY <1>3, <1>4, <1>6 DEF InTime, RetryDue
    <2>3. r.state.rehandshake.next_retry_at = s.state.rehandshake.next_retry_at - 1
      BY <1>2, <1>6, <2>2, NoneAssumption DEF Sooner
    <2>4. /\ Beat(s).wait = s.state.rehandshake.next_retry_at
          /\ Beat(r).wait = r.state.rehandshake.next_retry_at
      BY <1>6, <2>1 DEF Beat, Wait
    <2> QED BY <1>1, <1>3, <2>1, <2>2, <2>3, <2>4 DEF InTime
  <1>7. CASE IsReady(s) /\ ~IsRekeying(s)
    <2>1. IsReady(r) /\ ~IsRekeying(r) /\ ~IsInitiating(r) /\ ~IsInitiating(s)
      BY <1>2, <1>4, <1>7 DEF IsInitiating, IsReady, IsRekeying
    <2>2. /\ s.last_handshake_at \in 0..(REKEY_AFTER + 1)
          /\ s.last_rx_at \in 0..s.last_handshake_at
          /\ s.state.transport.send + (IF KeepalivePassed(s) THEN 1 ELSE 0)
                <= s.last_handshake_at + 1 + m
      BY <1>4, <1>7 DEF InTime
    <2>3. s.state.transport.send \in Nat /\ r.state.transport.send = s.state.transport.send
      BY <1>2, <1>7, ReadyStates DEF ReadyState, Transport
    <2>4. s.last_handshake_at \in 0..REKEY_AFTER
      BY <1>3, <1>7, <2>2, NoneAssumption DEF Passed
    <2>5. s.last_tx_at \in 0..KEEPALIVE
      BY <1>3, <1>7 DEF KeepalivePassed, Passed, PeerSession
    <2>6. /\ r.last_handshake_at = s.last_handshake_at + 1
          /\ r.last_rx_at = s.last_rx_at + 1 /\ r.last_tx_at = s.last_tx_at + 1
      BY <1>2, <1>3, <2>2, <2>4, <2>5, NoneAssumption DEF Older
    <2>7. KeepalivePassed(r) <=> s.last_tx_at = KEEPALIVE
      BY <1>3, <2>5, <2>6, NoneAssumption DEF KeepalivePassed, Passed
    <2>8. /\ Beat(s).wait = KEEPALIVE + 1 - s.last_tx_at
          /\ Beat(r).wait = IF KeepalivePassed(r) THEN 0 ELSE KEEPALIVE + 1 - r.last_tx_at
      BY <1>7, <2>1 DEF Beat, Wait
    <2>9. Beat(s).wait # 0 /\ Beat(r).wait = Beat(s).wait - 1
      BY <1>3, <2>5, <2>6, <2>7, <2>8
    <2>10. s.state.transport.send <= s.last_handshake_at + 1 + m
      BY <1>7, <2>2, <2>3, <2>4
    <2>11. /\ r.last_handshake_at \in 0..(REKEY_AFTER + 1)
           /\ r.last_rx_at \in 0..r.last_handshake_at
           /\ r.state.transport.send + (IF KeepalivePassed(r) THEN 1 ELSE 0)
                 <= r.last_handshake_at + 1 + m
      BY <1>3, <2>2, <2>3, <2>4, <2>6, <2>10
    <2> QED BY <1>1, <2>1, <2>9, <2>11 DEF InTime
  <1> QED BY <1>5, <1>6, <1>7 DEF InTime

(* A time unit passes only when nobody has anything to send: what a session
   that asks waits for is not due yet. *)
LEMMA NothingDue ==
  ASSUME AllOK, Serving, Tick, NEW n \in Node, NEW p \in Known(n), Asks(<<n, p>>)
  PROVE  LET s == peers[n][p]
         IN  /\ IsInitiating(s) => ~InitDue(s)
             /\ IsRekeying(s) => ~RetryDue(s)
             /\ (IsReady(s) /\ ~IsRekeying(s)) =>
                   ~KeepalivePassed(s) /\ ~Passed(s.last_handshake_at, REKEY_AFTER)
  <1> DEFINE s == peers[n][p]
  <1>1. /\ p \in Node /\ s \in PeerSession /\ InTime(s, Spent)
        /\ s.endpoint = HomeAddr[p] /\ ~s.stale
    BY SessionLively
  <1>2. n \in up
    <2>1. <<n, p>> \in DOMAIN Views
      BY <1>1, KnownView DEF AllOK
    <2> QED BY <2>1 DEF AllOK, PromptOK, TokensOK, Tokens, Unstuck
  <1>3. ~InitDue(s) /\ ~MaintenanceDue(n, p)
    BY <1>1, <1>2 DEF Tick, Serving, TimerDue
  <1>4. IsReady(s) => Maintained(n, p)
    BY <1>1, <1>2 DEF Maintained
  <1>5. CASE ~IsReady(s)
    BY <1>3, <1>5 DEF IsRekeying
  <1>6. CASE IsRekeying(s)
    BY <1>3, <1>4, <1>6 DEF MaintenanceDue, IsRekeying
  <1>7. CASE IsReady(s) /\ ~IsRekeying(s)
    <2>1. ~KeepaliveDue(s) /\ ~RekeyDue(n, p, s)
      BY <1>3, <1>4, <1>7 DEF MaintenanceDue
    <2>2. s.endpoint # Unspecified
      BY <1>1, ConfigAssumption
    <2>3. ~Passed(s.last_handshake_at, REKEY_AFTER)
      BY <2>1, <2>2 DEF RekeyDue, Asks
    <2>4. /\ s.last_handshake_at \in 0..(REKEY_AFTER + 1)
          /\ s.state.transport.send + (IF KeepalivePassed(s) THEN 1 ELSE 0)
                <= s.last_handshake_at + 1 + Spent
      BY <1>1, <1>7 DEF InTime, IsInitiating, IsReady
    <2>5. s.last_handshake_at <= REKEY_AFTER
      BY <2>3, <2>4, NoneAssumption, TimingAssumption DEF Passed
    <2>6. s.state.transport.send \in Nat
      BY <1>1, <1>7, ReadyStates DEF ReadyState, Transport
    <2>7. Spent \in Nat /\ Spent <= Budget.errors + Budget.data /\ REKEY_AFTER \in Nat
      BY RoomForGap, TimingAssumption DEF AllOK, LivelyOK, Serving
    <2>8. Budget.errors \in Nat /\ Budget.data \in Nat /\ MaxNonce \in Nat
      BY TimingAssumption DEF Budgets
    <2>9. ~KeepalivePassed(s)
      <3> SUFFICES ASSUME KeepalivePassed(s) PROVE FALSE
        OBVIOUS
      <3>1. s.state.transport.send >= MaxNonce
        BY <2>1, <2>6, <2>8 DEF KeepaliveDue, KeepalivePassed
      <3>2. s.state.transport.send + 1 <= s.last_handshake_at + 1 + Spent
        BY <2>4
      <3> QED BY <2>4, <2>5, <2>6, <2>7, <2>8, <3>1, <3>2 DEF Serving, EnoughTime
    <2> QED BY <1>7, <2>3, <2>9 DEF IsInitiating, IsReady
  <1> QED BY <1>5, <1>6, <1>7 DEF IsRekeying

(* A time unit. *)
LEMMA TickLively ==
  ASSUME AllOK, Serving, Tick
  PROVE  LivelyOK'
  <1>1. /\ peers' = [n \in Node |-> [p \in Node |->
                        IF p \in Known(n) THEN Aged(peers[n][p]) ELSE Absent]]
        /\ net' = net /\ InFlight = {} /\ endpoint_to_peer' = endpoint_to_peer
        /\ \A n \in Node : Known(n) = Configured(n)
    BY DEF Tick, PromptNetwork, Serving, tables
  <1>2. left'.loss = left.loss /\ BudgetOK' /\ Spent \in Nat /\ Spent' = Spent
    <2> DEFINE ticks == left.ticks - 1
    <2>1. left' = left \/ left' = [left EXCEPT !.ticks = ticks]
      BY DEF Tick
    <2>2. left \in Budgets /\ Budget \in Budgets /\ BudgetOK
      BY TimingAssumption DEF AllOK, LivelyOK, IInv, WorldOK
    <2> HIDE DEF ticks
    <2>3. /\ left'.loss = left.loss /\ left'.errors = left.errors /\ left'.data = left.data
      BY <2>1, <2>2 DEF Budgets
    <2> QED BY <2>2, <2>3 DEF Budgets, BudgetOK, Spent
  <1>3. \A u \in Sessions :
           /\ u[1] \in Node /\ u[2] \in Known(u[1]) /\ Session(u) = peers[u[1]][u[2]]
           /\ u = <<u[1], u[2]>>
           /\ Session(u) \in PeerSession /\ Legal(Session(u)) /\ Aged(Session(u)) # Absent
    <2> TAKE u \in Sessions
    <2>1. /\ u[1] \in Node /\ u[2] \in Known(u[1]) /\ Session(u) = peers[u[1]][u[2]]
          /\ u = <<u[1], u[2]>>
      BY DEF Sessions, Session
    <2>2. Legal(Session(u)) /\ Legal(Aged(Session(u)))
      BY <2>1, KnownSession, AgedLegal DEF AllOK, IInv
    <2> QED BY <2>1, <2>2, NoneAssumption DEF Legal
  <1>4. ASSUME NEW u \in Node \X Node
        PROVE  /\ u \in Sessions => Session(u)' = Aged(Session(u))
               /\ u \notin Sessions => Session(u)' = Absent
               /\ u \in Sessions' <=> Session(u)' # Absent
    BY <1>1 DEF Sessions, Session, Known
  <1>5. Sessions' = Sessions
    <2>1. Sessions' \subseteq Node \X Node /\ Sessions \subseteq Node \X Node
      BY DEF Sessions
    <2> QED BY <1>3, <1>4, <2>1
  <1>6. /\ DOMAIN Beats' = DOMAIN Beats /\ DOMAIN Beats = Sessions
        /\ \A u \in Sessions : /\ Beats[u] = Beat(Session(u))
                               /\ Beats'[u] = Beat(Aged(Session(u)))
    <2>1. Sessions \subseteq Node \X Node
      BY DEF Sessions
    <2> QED BY <1>4, <1>5, <2>1, BeatsPrimed DEF Beats
  <1>7. /\ REKEY_AFTER < REJECT_AFTER
        /\ Room \in Int /\ Gap \in Nat
    BY RoomForGap DEF AllOK, LivelyOK, Serving, EnoughTime
  <1>8. \A u \in Sessions : Lively(u, Session(u), Spent)
    BY DEF AllOK, LivelyOK
  <1>9. ASSUME NEW u \in Sessions, Asks(u)
        PROVE  /\ InTime(Aged(Session(u)), Spent)
               /\ Beat(Session(u)).wait # 0
               /\ Beat(Aged(Session(u))).wait = Beat(Session(u)).wait - 1
    <2>1. PICK s : s = Session(u)
      OBVIOUS
    <2>2. s \in PeerSession /\ InTime(s, Spent) /\ s = peers[u[1]][u[2]]
      BY <1>3, <1>8, <1>9, <2>1 DEF Lively
    <2>3. /\ IsInitiating(s) => ~InitDue(s)
          /\ IsRekeying(s) => ~RetryDue(s)
          /\ (IsReady(s) /\ ~IsRekeying(s)) =>
                ~KeepalivePassed(s) /\ ~Passed(s.last_handshake_at, REKEY_AFTER)
      <3>1. u[1] \in Node /\ u[2] \in Known(u[1]) /\ Asks(<<u[1], u[2]>>)
        BY <1>3, <1>9 DEF Asks
      <3> QED BY <2>2, <3>1, NothingDue
    <2> QED BY <1>2, <1>7, <2>1, <2>2, <2>3, AgedInTime
  <1>10. ASSUME NEW u \in Sessions, NEW t \in Beat(Aged(Session(u))).heard
         PROVE  \E k \in Beat(Session(u)).heard : t = k \/ t = k + 1
    <2>1. PICK s : s = Session(u)
      OBVIOUS
    <2>2. s \in PeerSession /\ HeardSinceHandshake(s)
      BY <1>3, <2>1 DEF Legal
    <2>3. IsReady(Aged(s)) /\ t = Aged(s).last_rx_at
      BY <1>10, <2>1 DEF Beat
    <2>4. IsReady(s)
      BY <2>2, <2>3, AgedFields DEF IsReady, IsRekeying
    <2>5. s.last_rx_at \in Nat /\ t = Older(s.last_rx_at, REJECT_AFTER)
      BY <2>2, <2>3, <2>4, AgedFields DEF HeardSinceHandshake
    <2>6. t = s.last_rx_at \/ t = s.last_rx_at + 1
      BY <2>5 DEF Older
    <2> QED BY <2>1, <2>4, <2>6 DEF Beat
  <1>11. ASSUME NEW u \in Sessions, Asks(Reverse(u)) PROVE Reverse(u) \in Sessions
    <2>1. /\ u[1] \in Node /\ u[2] \in Node /\ u[1] # u[2] /\ Reverse(u) = <<u[2], u[1]>>
      BY <1>3, Neighbours DEF Reverse, AllOK, Serving
    <2>2. Config[u[2]][u[1]] # None
      BY <1>11, <2>1 DEF Asks
    <2>3. u[1] \in Known(u[2])
      BY <1>1, <2>1, <2>2 DEF Configured
    <2> QED BY <2>1, <2>3 DEF Sessions
  <1>12. Links = {} /\ Links' = {} /\ Answered' = {} /\ Room' = Room
    BY <1>1, <1>2 DEF Links, Answered, Handshakes, InFlight, Room
  <1>13. WaitsOK(Beats') /\ HeardOK(Beats', {}, {}, Room)
    <2>1. WaitsOK(Beats) /\ HeardOK(Beats, {}, Answered, Room)
      BY <1>12 DEF AllOK, LivelyOK, BeatsOK
    <2>2. \A u \in DOMAIN Beats : Asks(Reverse(u)) =>
             /\ Reverse(u) \in DOMAIN Beats
             /\ \A t \in Beats'[u].heard : \E k \in Beats[u].heard : t = k \/ t = k + 1
      BY <1>6, <1>10, <1>11
    <2>3. \A u \in DOMAIN Beats : Asks(u) =>
             Beats[u].wait # 0 /\ Beats'[u].wait = Beats[u].wait - 1
      BY <1>6, <1>9
    <2> QED BY <1>6, <1>7, <2>1, <2>2, <2>3, BeatsTick
  <1>14. BeatsOK'
    BY <1>12, <1>13 DEF BeatsOK
  <1>15. ASSUME NEW u \in Sessions'
         PROVE  /\ Lively(u, Session(u), Spent)'
                /\ endpoint_to_peer'[u[1]][HomeAddr[u[2]]] = u[2]
    <2>1. u \in Sessions /\ u \in Node \X Node
      BY <1>5, <1>15 DEF Sessions
    <2>2. Session(u)' = Aged(Session(u)) /\ Session(u) \in PeerSession
      BY <1>3, <1>4, <2>1
    <2>3. Lively(u, Aged(Session(u)), Spent)
      <3>1. /\ Aged(Session(u)).endpoint = Session(u).endpoint
            /\ Aged(Session(u)).stale = Session(u).stale
        BY <2>2, AgedFields
      <3> QED BY <1>8, <1>9, <2>1, <3>1 DEF Lively
    <2>4. Lively(u, Session(u)', Spent')
      BY <1>2, <2>2, <2>3
    <2>5. Lively(u, Session(u)', Spent') <=> Lively(u, Session(u), Spent)'
      BY DEF Lively, InTime, KeepalivePassed, Passed, IsInitiating, IsRekeying, IsReady
    <2>6. endpoint_to_peer[u[1]][HomeAddr[u[2]]] = u[2]
      BY <2>1 DEF AllOK, LivelyOK
    <2> QED BY <1>1, <2>4, <2>5, <2>6
  <1> QED BY <1>2, <1>14, <1>15 DEF LivelyOK

(* A loss uses up a Gap of the silence that is allowed. *)
LEMMA LoseLively ==
  ASSUME AllOK, Serving, NEW d \in InFlight, Lose(d)
  PROVE  LivelyOK'
  <1> DEFINE loss == left.loss - 1
  <1>1. /\ net' = Consume(d) /\ peers' = peers /\ endpoint_to_peer' = endpoint_to_peer
        /\ left' = [left EXCEPT !.loss = loss] /\ left.loss > 0
    BY DEF Lose, tables
  <1>2. /\ left \in Budgets /\ Budget \in Budgets /\ BudgetOK
        /\ Room \in Int /\ Gap \in Nat
    BY TimingAssumption, RoomForGap DEF AllOK, LivelyOK, IInv, WorldOK, Serving
  <1>3. left'.loss = loss /\ left'.errors = left.errors /\ left'.data = left.data
    <2> HIDE DEF loss
    <2> QED BY <1>1, <1>2 DEF Budgets
  <1>4. BudgetOK' /\ Spent' = Spent
    BY <1>1, <1>2, <1>3 DEF BudgetOK, Budgets, Spent
  <1>5. Room' = Room + Gap
    <2>1. Gap' = Gap /\ left.loss \in Nat
      BY <1>2 DEF Gap, Budgets
    <2>2. (left.loss - 1) * Gap = left.loss * Gap - Gap
      BY <1>2, <2>1
    <2>3. left.loss * Gap \in Int
      BY <1>2, <2>1
    <2> HIDE DEF loss
    <2>4. Room' = REJECT_AFTER - loss * Gap
      BY <1>3, <2>1 DEF Room
    <2>5. loss * Gap = left.loss * Gap - Gap
      BY <2>2 DEF loss
    <2> QED BY <1>2, <2>3, <2>4, <2>5, TimingAssumption DEF Room
  <1>6. Sessions' = Sessions /\ \A u \in Sessions' : Session(u)' = Session(u)
    BY <1>1 DEF Sessions, Session, Known
  <1>7. Beats' = Beats
    <2>1. DOMAIN Beats' = DOMAIN Beats /\ \A u \in DOMAIN Beats : Beats'[u] = Beats[u]
      BY <1>6, BeatsPrimed DEF Beats
    <2> QED BY <2>1 DEF Beats
  <1>8. Answered' \subseteq Answered
    BY <1>1, AnswersLeft
  <1>9. WaitsOK(Beats) /\ HeardOK(Beats, Links, Answered, Room)
    BY DEF AllOK, LivelyOK, BeatsOK
  <1>10. BeatsOK'
    <2>1. HeardOK(Beats, Links', Answered', Room + Gap)
      BY <1>2, <1>8, <1>9, BeatsLost
    <2> QED BY <1>5, <1>7, <1>9, <2>1 DEF BeatsOK
  <1>11. ASSUME NEW u \in Sessions'
         PROVE  /\ Lively(u, Session(u), Spent)'
                /\ endpoint_to_peer'[u[1]][HomeAddr[u[2]]] = u[2]
    <2>1. /\ u \in Sessions /\ Lively(u, Session(u), Spent)
          /\ endpoint_to_peer[u[1]][HomeAddr[u[2]]] = u[2]
      BY <1>6 DEF AllOK, LivelyOK
    <2>2. Lively(u, Session(u)', Spent')
      BY <1>4, <1>6, <2>1
    <2>3. Lively(u, Session(u)', Spent') <=> Lively(u, Session(u), Spent)'
      BY DEF Lively, InTime, KeepalivePassed, Passed, IsInitiating, IsRekeying, IsReady
    <2> QED BY <1>1, <2>1, <2>2, <2>3
  <1> QED BY <1>4, <1>10, <1>11 DEF LivelyOK

(* The end of a daemon. *)
LEMMA StopLively ==
  ASSUME AllOK, Serving, NEW n \in Node, Stop(n)
  PROVE  LivelyOK'
  <1> DEFINE stops == left.stops - 1
  <1>1. Down(n) /\ net' = net /\ left' = [left EXCEPT !.stops = stops]
    BY DEF Stop
  <1>2. left \in Budgets /\ Budget \in Budgets /\ BudgetOK
    BY TimingAssumption DEF AllOK, LivelyOK, IInv, WorldOK
  <1>3. /\ left'.loss = left.loss /\ left'.errors = left.errors /\ left'.data = left.data
    <2> HIDE DEF stops
    <2> QED BY <1>1, <1>2 DEF Budgets
  <1>4. left'.loss = left.loss /\ BudgetOK' /\ Spent' \in Nat /\ Spent <= Spent'
    BY <1>2, <1>3 DEF Budgets, BudgetOK, Spent
  <1> QED BY <1>1, <1>4, DownLively

(* What concerns no session and no datagram: the start of a daemon, and the move
   of one nobody has as a peer. *)
LEMMA ElsewhereLively ==
  ASSUME AllOK, Serving, peers' = peers, net' = net, endpoint_to_peer' = endpoint_to_peer,
         left'.loss = left.loss, left'.errors = left.errors, left'.data = left.data
  PROVE  LivelyOK'
  <1>1. left \in Budgets /\ Budget \in Budgets /\ BudgetOK
    BY TimingAssumption DEF AllOK, LivelyOK, IInv, WorldOK
  <1>2. BudgetOK' /\ Spent' \in Nat /\ Spent <= Spent'
    BY <1>1 DEF Budgets, BudgetOK, Spent
  <1>3. Sessions' = Sessions /\ \A u \in Sessions' : Session(u)' = Session(u)
    BY DEF Sessions, Session, Known
  <1>4. Links' = Links /\ Answered' = Answered
    BY DEF Links, Answered, Handshakes, InFlight
  <1> QED BY <1>2, <1>3, <1>4, FewerLively

(* A datagram for a daemon that does not run: no session waits for it. *)
LEMMA VanishLively ==
  ASSUME AllOK, Serving, NEW d \in InFlight, Vanish(d)
  PROVE  LivelyOK'
  <1>1. /\ net' = Consume(d) /\ left' = left /\ peers' = peers
        /\ endpoint_to_peer' = endpoint_to_peer
        /\ \A n \in up : addr[n] # d.dst
    BY DEF Vanish, tables
  <1>2. ASSUME NEW u \in Sessions PROVE d.dst # addr[u[1]]
    <2>1. u \in DOMAIN Views
      BY DEF Views
    <2>2. u[1] \in up
      BY <2>1 DEF AllOK, PromptOK, TokensOK, Tokens, Unstuck
    <2> QED BY <1>1, <2>2
  <1> QED BY <1>1, <1>2, UnexpectedLively

(* At first nobody knows anybody. *)
LEMMA InitLively ==
  ASSUME Serving, Init
  PROVE  LivelyOK
  <1>1. Sessions = {}
    BY DEF Init, Sessions, Known
  <1>2. BudgetOK
    BY TimingAssumption DEF Init, BudgetOK, Budgets
  <1>3. BeatsOK
    BY <1>1 DEF BeatsOK, WaitsOK, HeardOK, Beats
  <1> QED BY <1>1, <1>2, <1>3 DEF LivelyOK

(* Every step keeps what sessions hear and send in time. *)
LEMMA NextKeepsLively ==
  ASSUME AllOK, Serving, [Next]_vars
  PROVE  LivelyOK'
  <1>1. left \in Budgets
    BY DEF AllOK, IInv, WorldOK
  <1>2. ASSUME NEW n \in Node, Start(n) PROVE LivelyOK'
    BY <1>2, ElsewhereLively DEF Start, tables
  <1>3. ASSUME NEW n \in Node, Stop(n) PROVE LivelyOK'
    BY <1>3, StopLively
  <1>4. ASSUME NEW n \in Node, NEW p \in Node, PeerStep(n, p) PROVE LivelyOK'
    BY <1>4, PeerStepLively
  <1>5. ASSUME NEW n \in Node, NEW d \in InFlight, Receive(n, d) PROVE LivelyOK'
    BY <1>5, ReceiveLively
  <1>6. ASSUME NEW d \in InFlight, Lose(d) \/ Duplicate(d) \/ Vanish(d) PROVE LivelyOK'
    <2>1. ~Duplicate(d)
      BY DEF Duplicate, AllOK, PromptOK, TokensOK, OneCopyEach
    <2> QED BY <1>6, <2>1, LoseLively, VanishLively
  <1>7. ASSUME NEW n \in Node, NEW a \in Addr, Rebind(n, a) PROVE LivelyOK'
    <2> DEFINE rebinds == left.rebinds - 1
    <2>1. /\ peers' = peers /\ net' = net /\ endpoint_to_peer' = endpoint_to_peer
          /\ left' = [left EXCEPT !.rebinds = rebinds]
      BY <1>7 DEF Rebind, tables
    <2>2. left'.loss = left.loss /\ left'.errors = left.errors /\ left'.data = left.data
      <3> HIDE DEF rebinds
      <3> QED BY <1>1, <2>1 DEF Budgets
    <2> QED BY <2>1, <2>2, ElsewhereLively
  <1>8. CASE UNCHANGED vars
    BY <1>8, ElsewhereLively DEF vars, tables
  <1>9. CASE Tick
    BY <1>9, TickLively
  <1> QED BY <1>2, <1>3, <1>4, <1>5, <1>6, <1>7, <1>8, <1>9 DEF Next

(* What sessions hear and send in time is kept in every execution. *)
LEMMA LivelyInvariance ==
  ASSUME NEW flags, FromDiscovery(flags), PlainFlags(flags), Direct, PromptNetwork,
         EnoughTime, {"nodes", "daemons"} \subseteq Prompt
  PROVE  Spec => []LivelyOK
  <1>1. Serving
    BY FlagsDirect, DiscoveryOneSided DEF Serving
  <1>2. (Init => NoRelays) /\ (Init => LivelyOK)
    BY <1>1, BagEmpty, InitLively DEF Init, NoRelays, InFlight
  <1>3. IInv /\ NoRelays /\ [Next]_vars => NoRelays'
    BY NextKeepsDirect
  <1>4. IInv /\ AttributionOK /\ PromptOK /\ NoRelays /\ LivelyOK /\ [Next]_vars => LivelyOK'
    BY <1>1, NextKeepsLively DEF AllOK
  <1>5. Spec => []IInv
    BY Invariance
  <1>6. Spec => []AttributionOK
    BY AttributionInvariance
  <1>7. Spec => []PromptOK
    BY PromptInvariance, PTL
  <1> QED BY <1>2, <1>3, <1>4, <1>5, <1>6, <1>7, PTL DEF Spec

(* In every execution of a mesh without relays whose loops are not blocked,
   whose datagrams arrive before time passes, and whose daemons run and know
   each other then, maintenance() gives nobody up: the initiator rekeys before
   it has been silent for REJECT_AFTER, and its keepalives, INITs and retries
   keep the responder hearing it, whichever messages are lost and sends fail
   within what EnoughTime leaves room for, and whenever daemons restart. *)
THEOREM SessionsNeverStale ==
  ASSUME NEW flags, FromDiscovery(flags), PlainFlags(flags), Direct, PromptNetwork,
         EnoughTime, {"nodes", "daemons"} \subseteq Prompt
  PROVE  Spec => []NeverStale
  <1>1. LivelyOK => NeverStale
    BY DEF LivelyOK, Lively, NeverStale
  <1> QED BY <1>1, LivelyInvariance, PTL
=============================================================================
