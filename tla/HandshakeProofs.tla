-------------------------- MODULE HandshakeProofs --------------------------
(***************************************************************************)
(* Proofs about the handshakes of the tunnel managers: whatever is lost,   *)
(* duplicated, reordered, retransmitted or restarted, no nonce is used     *)
(* twice under a key and no message is decrypted twice; and where one side *)
(* of every link is configured to wait, it waits.                          *)
(*                                                                         *)
(* The invariant KeysOK is about three things only: the transports of the  *)
(* Ready sessions, who waits for the answer to which Initiator, and the    *)
(* messages in flight.  NoncesFresh is not inductive: a RESPONSE that is   *)
(* duplicated could give its key to two sessions.  It does not, because    *)
(* the Initiator it answers is held by one session, which drops it as it   *)
(* takes the key (Unclaimed, OneWaiter, OneAnswer).  The first section is  *)
(* about such triples and has no state: what may end, begin, be encrypted, *)
(* decrypted, answered and consumed.  The second says what a step does to  *)
(* the three, and the rest is one lemma per handler.                       *)
(***************************************************************************)
EXTENDS TunnelProofs

(* The Initiator whose RESPONSE a session waits for. *)
Awaits(s, e) ==
    \/ IsInitiating(s) /\ s.state.initiator = e
    \/ IsRekeying(s) /\ s.state.rehandshake.initiator = e

(* What the argument needs of a state: who has which transport, who waits
   for an answer to which ephemeral, and which messages are in flight. *)
Transports == [q \in ReadySessions |-> TransportOf(q)]
Waits == {w \in Sessions \X Ephemeral : Awaits(Session(w[1]), w[2])}
Messages == {Inner(d.msg) : d \in InFlight}

IsResponse(m) == m.type = "RESPONSE"
IsTransport(m) == m.type = "TRANSPORT"

(* The conjuncts of NoncesFresh. *)
Behind(T, M) ==
    \A q \in DOMAIN T, m \in M :
        (IsTransport(m) /\ m.key = T[q].key /\ m.side = T[q].side)
            => m.nonce < T[q].send
OneUser(T) ==
    \A q, u \in DOMAIN T :
        (T[q].key = T[u].key /\ T[q].side = T[u].side) => q = u

(* ReplaysRejected. *)
NeverAhead(T) ==
    \A q, u \in DOMAIN T :
        (T[q].key = T[u].key /\ T[q].side # T[u].side) => T[q].recv <= T[u].send

(* An Initiator is held by one session, and a key answers one Initiator. *)
OneWaiter(W) == \A v, w \in W : v[2] = w[2] => v[1] = w[1]
OneAnswer(M) ==
    \A m, w \in M : (IsResponse(m) /\ IsResponse(w) /\ m.key = w.key) => m.eph = w.eph

(* The key of a RESPONSE that somebody still waits for has never been used at
   the initiator's side, however often the RESPONSE was duplicated. *)
Unclaimed(T, W, M) ==
    \A m \in M, w \in W :
        (IsResponse(m) /\ m.eph = w[2]) =>
            /\ \A q \in DOMAIN T :
                  T[q].key = m.key => T[q].side = "responder" /\ T[q].recv = 0
            /\ \A x \in M : ~ /\ IsTransport(x)
                              /\ x.key = m.key /\ x.side = "initiator"

Keys(T, W, M) ==
    /\ Behind(T, M) /\ OneUser(T) /\ NeverAhead(T)
    /\ OneWaiter(W) /\ OneAnswer(M) /\ Unclaimed(T, W, M)

(* Who waits as the initiator of a first handshake was configured to. *)
RolesKept ==
    \A q \in Sessions : IsInitiating(Session(q)) => Config[q[1]][q[2]].is_initiator

KeysOK == Keys(Transports, Waits, Messages)

Typed(T, M) == T \in [DOMAIN T -> Transport] /\ M \subseteq Message

-----------------------------------------------------------------------------
(* What may happen to transports, waiters and messages. *)

(* Things end: sessions, waiters and messages go, INITs may come. *)
LEMMA KeysLess ==
    ASSUME NEW T, NEW W, NEW M, Keys(T, W, M),
           NEW T2, NEW W2, NEW M2,
           DOMAIN T2 \subseteq DOMAIN T, \A q \in DOMAIN T2 : T2[q] = T[q],
           W2 \subseteq W, \A m \in M2 : m \in M \/ m.type = "INIT"
    PROVE  Keys(T2, W2, M2)
  BY DEF Keys, Behind, OneUser, NeverAhead, OneWaiter, OneAnswer, Unclaimed,
         IsResponse, IsTransport

(* A session draws a new ephemeral for an INIT. *)
LEMMA KeysDraw ==
    ASSUME NEW T, NEW W, NEW M, Keys(T, W, M), NEW q, NEW e, NEW W2,
           W2 \subseteq W \cup {<<q, e>>},
           \A w \in W : w[2] # e,
           \A m \in M : IsResponse(m) => m.eph # e
    PROVE  Keys(T, W2, M)
<1>1. OneWaiter(W2)
  BY DEF Keys, OneWaiter
<1>2. Unclaimed(T, W2, M)
  BY DEF Keys, Unclaimed
<1> QED
  BY <1>1, <1>2 DEF Keys

(* A session encrypts, and the message may be sent. *)
LEMMA KeysEncrypt ==
    ASSUME NEW T, NEW W, NEW M, Keys(T, W, M), Typed(T, M),
           NEW q \in DOMAIN T, NEW T2, NEW M2, DOMAIN T2 = DOMAIN T,
           T2[q] = AfterEncrypt(T[q]),
           \A u \in DOMAIN T : u # q => T2[u] = T[u],
           M2 \subseteq M \cup {Encrypt(T[q])}
    PROVE  Keys(T2, W, M2)
<1>1. T[q] \in Transport
  BY DEF Typed
<1>2. /\ T2[q].key = T[q].key /\ T2[q].side = T[q].side
      /\ T2[q].recv = T[q].recv /\ T2[q].send = T[q].send + 1
  BY <1>1 DEF AfterEncrypt, Transport
<1>3. \A u \in DOMAIN T :
         /\ T2[u].key = T[u].key /\ T2[u].side = T[u].side
         /\ T2[u].recv = T[u].recv /\ T[u].recv \in Nat /\ T[u].send \in Nat
         /\ T2[u].send = T[u].send \/ (u = q /\ T2[u].send = T[u].send + 1)
  BY <1>2 DEF Typed, Transport
<1>4. \A m \in M2 \ M : /\ IsTransport(m) /\ ~IsResponse(m)
                        /\ m.key = T[q].key /\ m.side = T[q].side
                        /\ m.nonce = T[q].send
  BY DEF Encrypt, IsTransport, IsResponse
<1>5. \A m \in M : IsTransport(m) => m.nonce \in Nat
  BY DEF Typed, Message, InitMessage, ResponseMessage, TransportMessage, IsTransport
<1>6. OneUser(T2)
  BY <1>3 DEF Keys, OneUser
<1>7. Behind(T2, M2)
  <2> SUFFICES ASSUME NEW u \in DOMAIN T, NEW m \in M2, IsTransport(m),
                      m.key = T2[u].key, m.side = T2[u].side
               PROVE  m.nonce < T2[u].send
    BY DEF Behind
  <2>1. CASE m \in M
    <3>1. m.nonce < T[u].send
      BY <1>3, <2>1 DEF Keys, Behind
    <3> QED BY <1>3, <1>5, <2>1, <3>1
  <2>2. CASE m \notin M
    <3>1. u = q
      BY <1>3, <1>4, <2>2 DEF Keys, OneUser
    <3> QED BY <1>2, <1>3, <1>4, <2>2, <3>1
  <2> QED BY <2>1, <2>2
<1>8. NeverAhead(T2)
  <2> SUFFICES ASSUME NEW u \in DOMAIN T, NEW v \in DOMAIN T,
                      T2[u].key = T2[v].key, T2[u].side # T2[v].side
               PROVE  T2[u].recv <= T2[v].send
    BY DEF NeverAhead
  <2>1. T[u].recv <= T[v].send
    BY <1>3 DEF Keys, NeverAhead
  <2> QED BY <1>3, <2>1
<1>9. OneAnswer(M2)
  BY <1>4 DEF Keys, OneAnswer
<1>10. Unclaimed(T2, W, M2)
  <2> SUFFICES ASSUME NEW m \in M2, NEW w \in W, IsResponse(m), m.eph = w[2]
               PROVE  /\ \A u \in DOMAIN T : T[u].key = m.key
                                => T[u].side = "responder" /\ T[u].recv = 0
                      /\ \A x \in M2 : ~ /\ IsTransport(x)
                                         /\ x.key = m.key /\ x.side = "initiator"
    BY <1>3 DEF Unclaimed
  <2>1. m \in M
    BY <1>4
  <2> QED
    BY <1>4, <2>1 DEF Keys, Unclaimed
<1> QED
  BY <1>6, <1>7, <1>8, <1>9, <1>10 DEF Keys

(* A session decrypts the next message. *)
LEMMA KeysDecrypt ==
    ASSUME NEW T, NEW W, NEW M, Keys(T, W, M), Typed(T, M),
           NEW q \in DOMAIN T, NEW T2, DOMAIN T2 = DOMAIN T,
           NEW m \in M, IsTransport(m), Decrypts(T[q], m),
           T2[q] = AfterDecrypt(T[q]),
           \A u \in DOMAIN T : u # q => T2[u] = T[u]
    PROVE  Keys(T2, W, M)
<1>1. T[q] \in Transport
  BY DEF Typed
<1>2. /\ T2[q].key = T[q].key /\ T2[q].side = T[q].side
      /\ T2[q].send = T[q].send /\ T2[q].recv = T[q].recv + 1
  BY <1>1 DEF AfterDecrypt, Transport
<1>3. \A u \in DOMAIN T :
         /\ T2[u].key = T[u].key /\ T2[u].side = T[u].side
         /\ T2[u].send = T[u].send /\ T[u].recv \in Nat /\ T[u].send \in Nat
         /\ T[u].side \in {"initiator", "responder"}
         /\ u # q => T2[u].recv = T[u].recv
  BY <1>2 DEF Typed, Transport, Side
<1>4. /\ m.key = T[q].key /\ m.side # T[q].side /\ m.nonce = T[q].recv
      /\ m.side \in {"initiator", "responder"}
  BY DEF Decrypts, Typed, Message, InitMessage, ResponseMessage,
         TransportMessage, IsTransport, Side
<1>5. Behind(T2, M) /\ OneUser(T2)
  BY <1>3 DEF Keys, Behind, OneUser
<1>6. NeverAhead(T2)
  <2> SUFFICES ASSUME NEW u \in DOMAIN T, NEW v \in DOMAIN T,
                      T[u].key = T[v].key, T[u].side # T[v].side
               PROVE  T2[u].recv <= T[v].send
    BY <1>3 DEF NeverAhead
  <2>1. CASE u # q
    BY <1>3, <2>1 DEF Keys, NeverAhead
  <2>2. CASE u = q
    <3>1. m.key = T[v].key /\ m.side = T[v].side
      BY <1>3, <1>4, <2>2
    <3>2. m.nonce < T[v].send
      BY <3>1 DEF Keys, Behind
    <3> QED BY <1>2, <1>3, <1>4, <2>2, <3>2
  <2> QED BY <2>1, <2>2
<1>7. Unclaimed(T2, W, M)
  <2> SUFFICES ASSUME NEW x \in M, NEW w \in W, IsResponse(x), x.eph = w[2],
                      NEW u \in DOMAIN T, T[u].key = x.key
               PROVE  T2[u].side = "responder" /\ T2[u].recv = 0
    BY <1>3 DEF Keys, Unclaimed
  <2>1. /\ T[u].side = "responder" /\ T[u].recv = 0
        /\ ~(m.key = x.key /\ m.side = "initiator")
    BY DEF Keys, Unclaimed
  <2>2. u # q
    BY <1>4, <2>1
  <2> QED BY <1>3, <2>1, <2>2
<1> QED
  BY <1>5, <1>6, <1>7 DEF Keys

(* A session takes a transport with a new key, and its RESPONSE may be sent. *)
LEMMA KeysAnswer ==
    ASSUME NEW T, NEW W, NEW M, Keys(T, W, M), Typed(T, M),
           NEW q, NEW k, NEW T2, NEW M2, NEW n, NEW init, NEW remote,
           DOMAIN T2 = DOMAIN T \cup {q},
           T2[q] = NewTransport(k, "responder", remote),
           \A u \in DOMAIN T : u # q => T2[u] = T[u],
           M2 \subseteq M \cup {WriteResponse(n, init, k)},
           \A u \in DOMAIN T : T[u].key # k,
           \A m \in M : (IsResponse(m) \/ IsTransport(m)) => m.key # k
    PROVE  Keys(T2, W, M2)
<1>1. /\ T2[q].key = k /\ T2[q].side = "responder"
      /\ T2[q].send = 0 /\ T2[q].recv = 0
  BY DEF NewTransport
<1>2. \A u \in DOMAIN T2 : u = q \/ (u \in DOMAIN T /\ T2[u] = T[u] /\ T2[u].key # k)
  OBVIOUS
<1>3. \A m \in M2 \ M : IsResponse(m) /\ ~IsTransport(m) /\ m.key = k
  BY DEF WriteResponse, IsResponse, IsTransport
<1>4. \A m, x \in M2 \ M : m = x
  OBVIOUS
<1>5. OneUser(T2)
  BY <1>1, <1>2 DEF Keys, OneUser
<1>6. Behind(T2, M2)
  BY <1>1, <1>2, <1>3 DEF Keys, Behind
<1>7. NeverAhead(T2)
  BY <1>1, <1>2 DEF Keys, NeverAhead
<1>8. OneAnswer(M2)
  BY <1>3, <1>4 DEF Keys, OneAnswer
<1>9. Unclaimed(T2, W, M2)
  <2> SUFFICES ASSUME NEW m \in M2, NEW w \in W, IsResponse(m), m.eph = w[2]
               PROVE  /\ \A u \in DOMAIN T2 : T2[u].key = m.key
                                => T2[u].side = "responder" /\ T2[u].recv = 0
                      /\ \A x \in M2 : ~ /\ IsTransport(x)
                                         /\ x.key = m.key /\ x.side = "initiator"
    BY DEF Unclaimed
  <2>1. CASE m \in M
    BY <1>1, <1>2, <1>3, <2>1 DEF Keys, Unclaimed
  <2>2. CASE m \notin M
    BY <1>1, <1>2, <1>3, <2>2
  <2> QED BY <2>1, <2>2
<1> QED
  BY <1>5, <1>6, <1>7, <1>8, <1>9 DEF Keys

(* A session takes the key of the RESPONSE it waits for, and waits no more. *)
LEMMA KeysConsume ==
    ASSUME NEW T, NEW W, NEW M, Keys(T, W, M), Typed(T, M),
           NEW q, NEW m \in M, IsResponse(m), <<q, m.eph>> \in W,
           NEW T2, NEW W2, NEW remote,
           DOMAIN T2 = DOMAIN T \cup {q},
           T2[q] = NewTransport(m.key, "initiator", remote),
           \A u \in DOMAIN T : u # q => T2[u] = T[u],
           W2 \subseteq {w \in W : w[1] # q}
    PROVE  Keys(T2, W2, M)
<1>1. /\ T2[q].key = m.key /\ T2[q].side = "initiator"
      /\ T2[q].send = 0 /\ T2[q].recv = 0
  BY DEF NewTransport
<1>2. \A u \in DOMAIN T2 : u = q \/ (u \in DOMAIN T /\ T2[u] = T[u])
  OBVIOUS
<1>3. /\ \A u \in DOMAIN T : T[u].key = m.key
            => T[u].side = "responder" /\ T[u].recv = 0
      /\ \A x \in M : ~(IsTransport(x) /\ x.key = m.key /\ x.side = "initiator")
  BY DEF Keys, Unclaimed
<1>4. \A w \in W2 : w \in W /\ w[2] # m.eph
  BY DEF Keys, OneWaiter
<1>5. \A u \in DOMAIN T : T[u].send \in Nat /\ T[u].recv \in Nat
  BY DEF Typed, Transport
<1>6. OneUser(T2)
  BY <1>1, <1>2, <1>3 DEF Keys, OneUser
<1>7. Behind(T2, M)
  BY <1>1, <1>2, <1>3 DEF Keys, Behind
<1>8. NeverAhead(T2)
  BY <1>1, <1>2, <1>3, <1>5 DEF Keys, NeverAhead
<1>9. OneWaiter(W2)
  BY <1>4 DEF Keys, OneWaiter
<1>10. Unclaimed(T2, W2, M)
  <2> SUFFICES ASSUME NEW x \in M, NEW w \in W2, IsResponse(x), x.eph = w[2],
                      NEW u \in DOMAIN T2, T2[u].key = x.key
               PROVE  T2[u].side = "responder" /\ T2[u].recv = 0
    BY <1>4 DEF Keys, Unclaimed
  <2>1. x.key # m.key
    BY <1>4 DEF Keys, OneAnswer
  <2>2. u # q
    BY <1>1, <2>1
  <2> QED
    BY <1>2, <1>4, <2>2 DEF Keys, Unclaimed
<1> QED
  BY <1>6, <1>7, <1>8, <1>9, <1>10 DEF Keys

-----------------------------------------------------------------------------
(* What is in flight, after a step. *)

(* The type of a message decides its other fields. *)
LEMMA MessageTypes ==
    ASSUME NEW m \in Message
    PROVE  /\ m.type # "RELAY"
           /\ m.type = "INIT" => m \in InitMessage
           /\ m.type = "RESPONSE" => m \in ResponseMessage
           /\ m.type = "TRANSPORT" => m \in TransportMessage
  BY DEF Message, InitMessage, ResponseMessage, TransportMessage

(* Transports and messages are typed. *)
LEMMA KeysTyped == IInv => Typed(Transports, Messages)
<1> SUFFICES ASSUME IInv PROVE Typed(Transports, Messages)
  OBVIOUS
<1>1. ASSUME NEW q \in ReadySessions
      PROVE  TransportOf(q) \in Transport
  <2>1. /\ q[1] \in Node /\ q[2] \in Known(q[1])
        /\ IsReady(Session(q)) /\ Session(q) = peers[q[1]][q[2]]
    BY DEF ReadySessions, Sessions, Session
  <2>2. Session(q).state \in ReadyState
    BY <2>1, KnownSession, ReadyStates DEF IInv, Legal
  <2> QED
    BY <2>2 DEF ReadyState, TransportOf
<1>2. ASSUME NEW d \in InFlight
      PROVE  Inner(d.msg) \in Message
  <2>1. d \in Datagram
    BY DEF IInv, WorldOK
  <2>2. CASE d.msg.type = "RELAY"
    <3>1. d.msg \in RelayMessage
      BY <2>2, DatagramTypes DEF IInv
    <3> QED BY <2>2, <3>1 DEF Inner, RelayMessage
  <2>3. CASE d.msg.type # "RELAY"
    <3>1. d.msg \in Message \cup RelayMessage
      BY <2>1 DEF Datagram
    <3>2. d.msg \notin RelayMessage
      BY <2>3 DEF RelayMessage
    <3> QED BY <2>3, <3>1, <3>2 DEF Inner
  <2> QED
    BY <2>2, <2>3
<1>3. DOMAIN Transports = ReadySessions /\ Transports \in [ReadySessions -> Transport]
  BY <1>1 DEF Transports
<1> QED
  BY <1>2, <1>3 DEF Typed, Messages

(* Receiving and losing add no message. *)
LEMMA MessagesConsumed ==
    ASSUME IInv, NEW d, net' = Consume(d)
    PROVE  Messages' \subseteq Messages
<1>1. InFlight' \subseteq InFlight
  BY BagDifference DEF IInv, WorldOK, InFlight, Consume
<1> QED
  BY <1>1 DEF Messages

(* Sending adds the message that is sent, received or not the one before. *)
LEMMA MessagesSent ==
    ASSUME IInv, NEW B, IsABag(B), BagToSet(B) \subseteq InFlight,
           NEW S, net' = B (+) Delivered(S)
    PROVE  Messages' \subseteq Messages \cup {Inner(x.msg) : x \in S}
<1>1. /\ IsABag(Delivered(S)) /\ BagToSet(Delivered(S)) \subseteq S
  BY BagOfSet DEF Delivered
<1>2. InFlight' \subseteq InFlight \cup S
  BY <1>1, BagSum DEF InFlight
<1> QED
  BY <1>2 DEF Messages

(* The same of a send that may fail. *)
LEMMA MessagesMaybeSent ==
    ASSUME IInv, NEW B, IsABag(B), BagToSet(B) \subseteq InFlight,
           NEW x, NEW ok, net' = B (+) (IF ok THEN Delivered({x}) ELSE EmptyBag)
    PROVE  /\ Messages' \subseteq Messages \cup {Inner(x.msg)}
           /\ ~ok => Messages' \subseteq Messages
<1>1. CASE ok
  <2>1. Messages' \subseteq Messages \cup {Inner(y.msg) : y \in {x}}
    BY <1>1, MessagesSent
  <2> QED BY <1>1, <2>1
<1>2. CASE ~ok
  <2>1. InFlight' \subseteq InFlight
    BY <1>2, BagEmpty, BagSum DEF InFlight
  <2> QED BY <2>1 DEF Messages
<1> QED BY <1>1, <1>2

(* What is left of the bag after a datagram has been received. *)
LEMMA Consumed ==
    ASSUME IInv, NEW d
    PROVE  IsABag(Consume(d)) /\ BagToSet(Consume(d)) \subseteq InFlight
  BY BagDifference DEF IInv, WorldOK, InFlight, Consume

(* send_maybe_relay does not change the message. *)
LEMMA SentInner ==
    ASSUME NEW n, NEW p, NEW x, NEW m, m.type # "RELAY"
    PROVE  Inner(SendMaybeRelay(n, p, x, m).msg) = m
  BY DEF SendMaybeRelay, Inner

(* A new ephemeral is nobody's. *)
LEMMA FreshUnused ==
    ASSUME IInv, Unused # {}
    PROVE  /\ \A q \in ReadySessions : TransportOf(q).key # Fresh
           /\ \A w \in Waits : w[2] # Fresh
           /\ \A m \in Messages :
                 /\ (IsResponse(m) \/ IsTransport(m)) => m.key # Fresh
                 /\ IsResponse(m) => m.eph # Fresh
<1>1. Fresh \notin LiveEphemerals
  BY DEF Fresh, Unused
<1>2. ASSUME NEW q \in Sessions
      PROVE  Fresh \notin SessionEphemerals(Session(q))
  <2> DEFINE mine(n) == UNION {SessionEphemerals(peers[n][p]) : p \in Known(n)}
  <2>1. q[1] \in Node /\ q[2] \in Known(q[1])
    BY DEF Sessions
  <2>2. SessionEphemerals(Session(q)) \subseteq mine(q[1])
    BY <2>1 DEF Session
  <2> DEFINE sent == UNION {EphemeralsOf(Inner(d.msg)) : d \in InFlight}
             all == UNION {mine(n) : n \in Node}
  <2>3. LiveEphemerals = sent \cup all
    BY Zenon DEF LiveEphemerals
  <2> HIDE DEF mine, sent
  <2> QED
    BY <1>1, <2>1, <2>2, <2>3
<1>3. ASSUME NEW m \in Messages
      PROVE  Fresh \notin EphemeralsOf(m)
  BY <1>1 DEF LiveEphemerals, Messages
<1>4. ASSUME NEW q \in ReadySessions
      PROVE  TransportOf(q).key # Fresh
  <2>1. Fresh \notin SessionEphemerals(Session(q)) /\ IsReady(Session(q))
    BY <1>2 DEF ReadySessions
  <2>2. ~IsInitiating(Session(q))
    BY <2>1 DEF IsReady, IsInitiating
  <2> QED
    BY <2>1, <2>2 DEF SessionEphemerals, TransportOf
<1>5. ASSUME NEW w \in Waits
      PROVE  w[2] # Fresh
  <2>1. w[1] \in Sessions /\ Awaits(Session(w[1]), w[2])
    BY DEF Waits
  <2>2. Fresh \notin SessionEphemerals(Session(w[1]))
    BY <1>2, <2>1
  <2>3. CASE IsInitiating(Session(w[1]))
    BY <2>1, <2>2, <2>3 DEF Awaits, SessionEphemerals, IsInitiating, IsRekeying, IsReady
  <2>4. CASE ~IsInitiating(Session(w[1]))
    BY <2>1, <2>2, <2>4 DEF Awaits, SessionEphemerals
  <2> QED BY <2>3, <2>4
<1>6. ASSUME NEW m \in Messages
      PROVE  /\ (IsResponse(m) \/ IsTransport(m)) => m.key # Fresh
             /\ IsResponse(m) => m.eph # Fresh
  BY <1>3 DEF EphemeralsOf, IsResponse, IsTransport
<1> QED
  BY <1>4, <1>5, <1>6

-----------------------------------------------------------------------------
(* What a step does to one session. *)

(* A session is put into the peer table, the others stay. *)
LEMMA OneSession ==
    ASSUME IInv, NEW n \in Node, NEW p \in Node, NEW s, s # Absent,
           Install(n, p, s)
    PROVE  LET q == <<n, p>> IN
           /\ Sessions' = Sessions \cup {q}
           /\ Session(q)' = s
           /\ \A u \in Sessions : u # q => Session(u)' = Session(u)
<1> DEFINE q == <<n, p>>
<1>1. /\ peers \in [Node -> [Node -> PeerSession \cup {Absent}]]
      /\ peers' = [peers EXCEPT ![n][p] = s]
  BY DEF IInv, TablesOK, Install
<1>2. /\ peers'[n][p] = s
      /\ \A u \in Node \X Node : u # q => peers'[u[1]][u[2]] = peers[u[1]][u[2]]
  BY <1>1
<1>3. \A u \in Node \X Node : /\ u \in Sessions <=> peers[u[1]][u[2]] # Absent
                              /\ u \in Sessions' <=> peers'[u[1]][u[2]] # Absent
  BY DEF Sessions, Known
<1>4. Sessions \subseteq Node \X Node /\ Sessions' \subseteq Node \X Node
  BY DEF Sessions
<1>5. Sessions' = Sessions \cup {q}
  BY <1>2, <1>3, <1>4
<1> QED
  BY <1>2, <1>4, <1>5 DEF Session

(* The transports and the waiting sessions afterwards. *)
LEMMA OneSessionKeys ==
    ASSUME IInv, NEW n \in Node, NEW p \in Node, NEW s, s # Absent,
           Install(n, p, s)
    PROVE  LET q == <<n, p>> IN
           /\ DOMAIN Transports' \ {q} = DOMAIN Transports \ {q}
           /\ q \in DOMAIN Transports' <=> IsReady(s)
           /\ IsReady(s) => Transports'[q] = s.state.transport
           /\ \A u \in DOMAIN Transports : u # q => Transports'[u] = Transports[u]
           /\ Waits' = {w \in Waits : w[1] # q}
                         \cup {<<q, e>> : e \in {x \in Ephemeral : Awaits(s, x)}}
<1> DEFINE q == <<n, p>>
<1>1. /\ Sessions' = Sessions \cup {q}
      /\ Session(q)' = s
      /\ \A u \in Sessions : u # q => Session(u)' = Session(u)
  BY OneSession
<1>2. /\ DOMAIN Transports = ReadySessions
      /\ DOMAIN Transports' = ReadySessions'
      /\ \A u \in ReadySessions : Transports[u] = Session(u).state.transport
      /\ \A u \in ReadySessions' : Transports'[u] = Session(u)'.state.transport
  BY DEF Transports, TransportOf
<1>3. /\ \A u : u \in ReadySessions <=> u \in Sessions /\ IsReady(Session(u))
      /\ \A u : u \in ReadySessions' <=> u \in Sessions' /\ IsReady(Session(u)')
  BY DEF ReadySessions, IsReady
<1>4. \A u : u # q => (u \in ReadySessions <=> u \in ReadySessions')
  BY <1>1, <1>3
<1>5. /\ DOMAIN Transports' \ {q} = DOMAIN Transports \ {q}
      /\ q \in DOMAIN Transports' <=> IsReady(s)
  BY <1>1, <1>2, <1>3, <1>4
<1>6. IsReady(s) => Transports'[q] = s.state.transport
  BY <1>1, <1>2, <1>5
<1>7. \A u \in DOMAIN Transports : u # q => Transports'[u] = Transports[u]
  <2> TAKE u \in DOMAIN Transports
  <2> HAVE u # q
  <2>1. u \in ReadySessions /\ u \in ReadySessions' /\ u \in Sessions
    BY <1>2, <1>3, <1>4
  <2> QED BY <1>1, <1>2, <2>1
<1>8. Waits' = {w \in Waits : w[1] # q}
                 \cup {<<q, e>> : e \in {x \in Ephemeral : Awaits(s, x)}}
  <2>1. Waits' = {w \in Sessions' \X Ephemeral : Awaits(Session(w[1])', w[2])}
    BY DEF Waits, Awaits, IsInitiating, IsRekeying, IsReady
  <2> DEFINE mine == {<<q, e>> : e \in {x \in Ephemeral : Awaits(s, x)}}
             others == {w \in Waits : w[1] # q}
  <2>2. ASSUME NEW u \in Sessions', NEW e \in Ephemeral
        PROVE  <<u, e>> \in Waits' <=> <<u, e>> \in others \cup mine
    <3>1. <<u, e>> \in Waits' <=> Awaits(Session(u)', e)
      BY <2>1
    <3>2. CASE u = q
      BY <1>1, <3>1, <3>2
    <3>3. CASE u # q
      BY <1>1, <3>1, <3>3 DEF Waits
    <3> QED BY <3>2, <3>3
  <2>3. /\ Waits' \subseteq Sessions' \X Ephemeral
        /\ others \subseteq Sessions' \X Ephemeral
        /\ mine \subseteq Sessions' \X Ephemeral
    BY <1>1, <2>1 DEF Waits
  <2> HIDE DEF mine, others
  <2>4. \A w \in Sessions' \X Ephemeral : w = <<w[1], w[2]>> /\ w[1] \in Sessions' /\ w[2] \in Ephemeral
    OBVIOUS
  <2>5. Waits' = others \cup mine
    BY <2>2, <2>3, <2>4
  <2> QED BY <2>5 DEF mine, others
<1> QED
  BY <1>5, <1>6, <1>7, <1>8

(* The invariant of this module: KeysOK and the configured roles. *)
HandshakesOK == KeysOK /\ RolesKept

(* Who may wait for the answer to a first INIT, after a step. *)
LEMMA OneSessionRoles ==
    ASSUME IInv, RolesKept, NEW n \in Node, NEW p \in Node, NEW s, s # Absent,
           Install(n, p, s), IsInitiating(s) => Config[n][p].is_initiator
    PROVE  RolesKept'
<1> DEFINE q == <<n, p>>
<1>1. /\ Sessions' = Sessions \cup {q}
      /\ Session(q)' = s
      /\ \A u \in Sessions : u # q => Session(u)' = Session(u)
  BY OneSession
<1> SUFFICES ASSUME NEW u \in Sessions', IsInitiating(Session(u)')
             PROVE  Config[u[1]][u[2]].is_initiator
  BY DEF RolesKept, IsInitiating
<1>2. CASE u = q
  BY <1>1, <1>2
<1>3. CASE u # q
  BY <1>1, <1>3 DEF RolesKept
<1> QED BY <1>2, <1>3

(* Sessions and messages that a step leaves alone. *)
LEMMA SamePeers ==
    ASSUME HandshakesOK, UNCHANGED peers,
           \A m \in Messages' : m \in Messages \/ m.type = "INIT"
    PROVE  HandshakesOK'
<1>1. Transports' = Transports /\ Waits' = Waits
  BY DEF Transports, Waits, TransportOf, Session, Sessions, ReadySessions,
         Known, Awaits, IsReady, IsRekeying, IsInitiating
<1>2. Keys(Transports', Waits', Messages')
  BY <1>1, KeysLess DEF HandshakesOK, KeysOK
<1>3. RolesKept'
  BY DEF HandshakesOK, RolesKept, Session, Sessions, Known, IsInitiating
<1> QED
  BY <1>2, <1>3 DEF HandshakesOK, KeysOK

(* A session that keeps its transport or loses it, and waits for no more
   than before. *)
LEMMA SessionKept ==
    ASSUME IInv, HandshakesOK, NEW n \in Node, NEW p \in Known(n),
           NEW s, s # Absent, Install(n, p, s),
           IsReady(s) => /\ IsReady(peers[n][p])
                         /\ s.state.transport = peers[n][p].state.transport,
           \A e \in Ephemeral : Awaits(s, e) => Awaits(peers[n][p], e),
           IsInitiating(s) => IsInitiating(peers[n][p]),
           \A m \in Messages' : m \in Messages \/ m.type = "INIT"
    PROVE  HandshakesOK'
<1> DEFINE q == <<n, p>>
<1>1. p \in Node /\ q \in Sessions /\ Session(q) = peers[n][p]
  BY DEF Known, Sessions, Session
<1>2. /\ DOMAIN Transports' \ {q} = DOMAIN Transports \ {q}
      /\ q \in DOMAIN Transports' <=> IsReady(s)
      /\ IsReady(s) => Transports'[q] = s.state.transport
      /\ \A u \in DOMAIN Transports : u # q => Transports'[u] = Transports[u]
      /\ Waits' = {w \in Waits : w[1] # q}
                    \cup {<<q, e>> : e \in {x \in Ephemeral : Awaits(s, x)}}
  BY <1>1, OneSessionKeys
<1>3. IsReady(Session(q)) => /\ q \in DOMAIN Transports
                             /\ Transports[q] = Session(q).state.transport
  BY <1>1 DEF Transports, ReadySessions, TransportOf
<1>4. /\ DOMAIN Transports' \subseteq DOMAIN Transports
      /\ \A u \in DOMAIN Transports' : Transports'[u] = Transports[u]
  BY <1>1, <1>2, <1>3
<1>5. Waits' \subseteq Waits
  BY <1>1, <1>2 DEF Waits
<1>6. Keys(Transports', Waits', Messages')
  BY <1>4, <1>5, KeysLess DEF HandshakesOK, KeysOK
<1>7. RolesKept'
  <2>1. IsInitiating(s) => Config[n][p].is_initiator
    BY <1>1 DEF HandshakesOK, RolesKept
  <2> QED BY <1>1, <2>1, OneSessionRoles DEF HandshakesOK
<1> QED
  BY <1>6, <1>7 DEF HandshakesOK, KeysOK

(* A session whose state stays. *)
LEMMA SameState ==
    ASSUME IInv, HandshakesOK, NEW n \in Node, NEW p \in Known(n),
           NEW r \in PeerSession, r.state = peers[n][p].state, Install(n, p, r),
           \A m \in Messages' : m \in Messages \/ m.type = "INIT"
    PROVE  HandshakesOK'
<1>1. /\ r # Absent
      /\ IsReady(r) <=> IsReady(peers[n][p])
      /\ IsInitiating(r) <=> IsInitiating(peers[n][p])
      /\ \A e \in Ephemeral : Awaits(r, e) <=> Awaits(peers[n][p], e)
  BY NoneAssumption DEF Awaits, IsReady, IsRekeying, IsInitiating
<1> QED
  BY <1>1, SessionKept

(* What the counters and endpoints of a session do not change. *)
LEMMA HeardState ==
    ASSUME IInv, NEW n \in Node, NEW p \in Known(n), NEW src \in Addr
    PROVE  /\ LegalHeard(Heard(n, p, src))
           /\ Heard(n, p, src).state = peers[n][p].state
           /\ LegalHeard(HeardRelayed(n, p))
           /\ HeardRelayed(n, p).state = peers[n][p].state
<1>1. peers[n][p] \in PeerSession
  BY KnownSession DEF IInv, Legal
<1>2. /\ Heard(n, p, src).state = peers[n][p].state
      /\ HeardRelayed(n, p).state = peers[n][p].state
  BY <1>1 DEF Heard, HeardRelayed, PeerSession
<1> QED
  BY <1>2, HeardLegal DEF IInv

(* handle_response: the key of the RESPONSE is taken by the session that
   waits for it, and by no other. *)
LEMMA ResponseKeys ==
    ASSUME IInv, HandshakesOK, NEW n \in Node, NEW p \in Known(n),
           NEW h, LegalHeard(h), h.state = peers[n][p].state,
           NEW m \in Messages, m \in ResponseMessage,
           Install(n, p, HandleResponse(h, m)), Messages' \subseteq Messages
    PROVE  HandshakesOK'
<1> DEFINE q == <<n, p>>
           r == HandleResponse(h, m)
<1>1. h \in PeerSession /\ p \in Node /\ IsResponse(m) /\ m.eph \in Ephemeral
  BY DEF LegalHeard, Legal, Known, IsResponse, ResponseMessage
<1>2. Legal(r) /\ r # Absent /\ r \in PeerSession
  BY HandleResponseLegal, NoneAssumption DEF Legal
<1>3. CASE Awaits(h, m.eph)
  <2>1. r.state = Established(Initiated(m))
    <3>1. r = [h EXCEPT !.state = Established(Initiated(m)), !.last_handshake_at = 0]
      BY <1>3 DEF Awaits, HandleResponse, FirstResponse, RekeyResponse,
              ConsumesResponse, IsInitiating, IsRekeying, IsReady
    <3> QED BY <1>1, <3>1 DEF PeerSession
  <2>2. /\ IsReady(r) /\ ~IsInitiating(r) /\ ~IsRekeying(r)
        /\ r.state.transport = NewTransport(m.key, "initiator", m.from)
    BY <2>1 DEF Established, IsReady, IsInitiating, IsRekeying, Initiated
  <2>3. <<q, m.eph>> \in Waits
    BY <1>1, <1>3 DEF Waits, Awaits, Sessions, Session, IsInitiating, IsRekeying,
                      IsReady
  <2> HIDE DEF r
  <2>4. /\ DOMAIN Transports' \ {q} = DOMAIN Transports \ {q}
        /\ q \in DOMAIN Transports' <=> IsReady(r)
        /\ IsReady(r) => Transports'[q] = r.state.transport
        /\ \A u \in DOMAIN Transports : u # q => Transports'[u] = Transports[u]
        /\ Waits' = {w \in Waits : w[1] # q}
                      \cup {<<q, e>> : e \in {x \in Ephemeral : Awaits(r, x)}}
    BY <1>1, <1>2, OneSessionKeys DEF r
  <2>5. DOMAIN Transports' = DOMAIN Transports \cup {q}
    BY <2>2, <2>4
  <2>6. Waits' \subseteq {w \in Waits : w[1] # q}
    BY <2>2, <2>4 DEF Awaits
  <2>7. Keys(Transports', Waits', Messages)
    BY <1>1, <2>2, <2>3, <2>4, <2>5, <2>6, KeysTyped, KeysConsume
       DEF HandshakesOK, KeysOK
  <2>8. Keys(Transports', Waits', Messages')
    BY <2>7, KeysLess
  <2>9. RolesKept'
    BY <1>1, <1>2, <2>2, OneSessionRoles DEF HandshakesOK, r
  <2> QED
    BY <2>8, <2>9 DEF HandshakesOK, KeysOK
<1>4. CASE ~Awaits(h, m.eph)
  <2>1. CASE IsRekeying(h)
    <3> DEFINE ready == [h.state EXCEPT !.rehandshake = None]
    <3>1. h.state \in ReadyState
      BY <1>1, <2>1, ReadyStates DEF IsRekeying
    <3>2. r = [h EXCEPT !.state = ready]
      BY <1>4, <2>1 DEF Awaits, HandleResponse, RekeyResponse, ConsumesResponse
    <3>3. r.state = ready
      <4> HIDE DEF ready
      <4> QED BY <1>1, <3>2 DEF PeerSession
    <3>4. /\ ready.tag = "Ready" /\ ready.transport = h.state.transport
          /\ ready.rehandshake = None
      BY <3>1 DEF ReadyState
    <3>5. /\ IsReady(peers[n][p])
          /\ r.state.transport = peers[n][p].state.transport
          /\ ~IsInitiating(r) /\ \A e \in Ephemeral : ~Awaits(r, e)
      BY <2>1, <3>1, <3>3, <3>4
         DEF Awaits, IsReady, IsRekeying, IsInitiating, ReadyState
    <3> QED
      BY <1>2, <3>5, SessionKept
  <2>2. CASE ~IsRekeying(h)
    <3>1. r = [h EXCEPT !.state = [tag |-> "Init"]]
      BY <1>4, <2>2 DEF Awaits, HandleResponse, FirstResponse, ConsumesResponse
    <3>2. r.state = [tag |-> "Init"]
      BY <1>1, <3>1 DEF PeerSession
    <3>3. ~IsReady(r) /\ ~IsInitiating(r) /\ \A e \in Ephemeral : ~Awaits(r, e)
      BY <3>2 DEF Awaits, IsReady, IsRekeying, IsInitiating
    <3> QED
      BY <1>2, <3>3, SessionKept
  <2> QED
    BY <2>1, <2>2
<1> QED
  BY <1>3, <1>4

(* handle_transport and its twin behind a relay: a message is decrypted in
   its turn, or not at all. *)
LEMMA TransportKeys ==
    ASSUME IInv, HandshakesOK, NEW n \in Node, NEW p \in Known(n),
           NEW h, LegalHeard(h), h.state = peers[n][p].state,
           NEW m \in Messages, m.type = "TRANSPORT",
           NEW r \in {h, HandleRelayedTransport(h, m)}, Install(n, p, r),
           Messages' \subseteq Messages
    PROVE  HandshakesOK'
<1> DEFINE q == <<n, p>>
<1>1. /\ h \in PeerSession /\ p \in Node /\ IsTransport(m)
      /\ q \in Sessions /\ Session(q) = peers[n][p]
  BY DEF LegalHeard, Legal, Known, IsTransport, Sessions, Session
<1>2. Legal(r) /\ r # Absent
  BY HandleRelayedTransportLegal, NoneAssumption DEF Legal, LegalHeard
<1>3. CASE r = h
  BY <1>1, <1>3, SameState
<1>4. CASE r # h
  <2> DEFINE t == AfterDecrypt(h.state.transport)
             ready == [h.state EXCEPT !.transport = t]
  <2>1. /\ IsReady(h) /\ Decrypts(h.state.transport, m)
        /\ r = [h EXCEPT !.state = ready]
    BY <1>4 DEF HandleRelayedTransport
  <2>2. h.state \in ReadyState
    BY <1>1, <2>1, ReadyStates
  <2> HIDE DEF t
  <2>3. /\ ready.tag = "Ready" /\ ready.transport = t
        /\ ready.rehandshake = h.state.rehandshake
    BY <2>2 DEF ReadyState
  <2>4. r.state = ready
    <3> HIDE DEF ready
    <3> QED BY <1>1, <2>1 DEF PeerSession
  <2>5. /\ IsReady(r) /\ r.state.transport = t /\ ~IsInitiating(r)
        /\ \A e \in Ephemeral : Awaits(r, e) => Awaits(Session(q), e)
    <3>1. Session(q).state = h.state /\ h.state.tag = "Ready"
      BY <1>1, <2>1 DEF IsReady
    <3> HIDE DEF ready, q
    <3>2. IsReady(r) /\ r.state.transport = t /\ ~IsInitiating(r)
      BY <2>3, <2>4 DEF IsReady, IsInitiating
    <3>3. ASSUME NEW e \in Ephemeral, Awaits(r, e)
          PROVE  Awaits(Session(q), e)
      <4>1. IsReady(Session(q)) /\ ~IsInitiating(Session(q))
        BY <3>1 DEF IsReady, IsInitiating
      <4>2. Session(q).state.rehandshake = r.state.rehandshake
        BY <2>3, <2>4, <3>1
      <4> QED
        BY <3>2, <3>3, <4>1, <4>2 DEF Awaits, IsRekeying
    <3> QED
      BY <3>2, <3>3
  <2>6. q \in DOMAIN Transports /\ Transports[q] = h.state.transport
    BY <1>1, <2>1 DEF Transports, ReadySessions, TransportOf, IsReady
  <2>7. /\ DOMAIN Transports' \ {q} = DOMAIN Transports \ {q}
        /\ q \in DOMAIN Transports' <=> IsReady(r)
        /\ IsReady(r) => Transports'[q] = r.state.transport
        /\ \A u \in DOMAIN Transports : u # q => Transports'[u] = Transports[u]
        /\ Waits' = {w \in Waits : w[1] # q}
                      \cup {<<q, e>> : e \in {x \in Ephemeral : Awaits(r, x)}}
    BY <1>1, <1>2, OneSessionKeys
  <2>8. /\ DOMAIN Transports' = DOMAIN Transports
        /\ Transports'[q] = AfterDecrypt(Transports[q])
        /\ Decrypts(Transports[q], m)
    BY <2>1, <2>5, <2>6, <2>7 DEF t
  <2>9. Waits' \subseteq Waits
    BY <1>1, <2>5, <2>7 DEF Waits
  <2>10. Keys(Transports', Waits, Messages)
    BY <1>1, <2>6, <2>7, <2>8, KeysTyped, KeysDecrypt DEF HandshakesOK, KeysOK
  <2>11. Keys(Transports', Waits', Messages')
    BY <2>9, <2>10, KeysLess
  <2>12. RolesKept'
    BY <1>1, <1>2, <2>5, OneSessionRoles DEF HandshakesOK
  <2> QED
    BY <2>11, <2>12 DEF HandshakesOK, KeysOK
<1> QED
  BY <1>3, <1>4

(* handle_init and handle_init_via_relay: every answer draws a new key. *)
LEMMA AnswerKeys ==
    ASSUME IInv, HandshakesOK, NEW n \in Node, NEW p \in Known(n),
           NEW s, LegalHeard(s), s.state = peers[n][p].state,
           NEW d \in InFlight, NEW m \in InitMessage, NEW relayed \in BOOLEAN,
           AnswerInit(n, p, s, d, m, relayed)
    PROVE  HandshakesOK'
<1> DEFINE q == <<n, p>>
           answers == IsResponding(s) \/ (IsReady(s) /\ ~relayed)
           accepts == /\ ConsumesInit(n, m, age[m.eph])
                      /\ IsResponding(s) => ~s.state.spent
           t == NewTransport(Fresh, "responder", m.from)
           response == WriteResponse(n, m, Fresh)
           reply == [src |-> addr[n], dst |-> d.src,
                     msg |-> IF relayed
                             THEN [type |-> "RELAY", from |-> n, dest |-> p,
                                   inner |-> response]
                             ELSE response]
           spent == [s EXCEPT !.state.spent = TRUE]
           unspent == [s EXCEPT !.state = FreshResponder]
<1>1. /\ s \in PeerSession /\ s # Absent /\ Legal(s) /\ p \in Node
      /\ q \in Sessions /\ Session(q) = peers[n][p]
  BY NoneAssumption DEF LegalHeard, Legal, Known, Sessions, Session
<1>2. IsResponding(s) => ~IsReady(s) /\ ~IsInitiating(s) /\ ~IsRekeying(s)
  BY DEF IsResponding, IsReady, IsInitiating, IsRekeying
<1>3. ASSUME NEW r \in {s, spent, unspent}, Install(n, p, r), r # s => IsResponding(s),
             Messages' \subseteq Messages
      PROVE  HandshakesOK'
  <2>1. CASE r = s
    BY <1>1, <1>3, <2>1, SameState
  <2>2. CASE r # s
    <3>1. s.state \in ResponderState /\ Legal(r)
      BY <1>1, <1>3, <2>2, ReadyStates, ResponderLegal
    <3> DEFINE state == IF r = spent THEN [s.state EXCEPT !.spent = TRUE]
                        ELSE FreshResponder
    <3>2. r = [s EXCEPT !.state = state] /\ state.tag = "HandshakingAsResponder"
      BY <1>3, <2>2, <3>1 DEF ResponderState, FreshResponder
    <3> HIDE DEF state
    <3>3. r.state.tag = "HandshakingAsResponder" /\ r # Absent
      BY <1>1, <3>1, <3>2, NoneAssumption DEF PeerSession, Legal
    <3>4. ~IsReady(r) /\ ~IsInitiating(r) /\ \A e \in Ephemeral : ~Awaits(r, e)
      BY <3>3 DEF Awaits, IsReady, IsRekeying, IsInitiating
    <3> QED
      BY <1>3, <3>3, <3>4, SessionKept
  <2> QED BY <2>1, <2>2
<1>4. CASE ~(answers /\ accepts)
  <2>1. net' = Consume(d)
    BY <1>4 DEF AnswerInit
  <2>2. Install(n, p, IF IsResponding(s) THEN unspent ELSE s)
    BY <1>4 DEF AnswerInit
  <2>3. Messages' \subseteq Messages
    BY <2>1, MessagesConsumed
  <2> HIDE DEF spent, unspent
  <2> QED
    BY <1>3, <2>2, <2>3
<1>5. CASE answers /\ accepts
  <2> DEFINE session(ok) == CASE IsReady(s) /\ ok -> RekeyAsResponder(s, t)
                              [] IsReady(s) /\ ~ok -> s
                              [] ~IsReady(s) /\ ok -> BecomeReady(s, t)
                              [] OTHER -> spent
  <2>1. /\ Unused # {}
        /\ \E ok \in SendOutcomes :
              /\ net' = Consume(d) (+)
                        (IF ok THEN Delivered({reply}) ELSE EmptyBag)
              /\ Install(n, p, session(ok))
    BY <1>5 DEF AnswerInit
  <2>2. PICK ok \in SendOutcomes :
              /\ net' = Consume(d) (+)
                        (IF ok THEN Delivered({reply}) ELSE EmptyBag)
              /\ Install(n, p, session(ok))
    BY <2>1
  <2>3. /\ Messages' \subseteq Messages \cup {Inner(reply.msg)}
        /\ ~ok => Messages' \subseteq Messages
    <3> HIDE DEF reply
    <3> QED BY <2>2, Consumed, MessagesMaybeSent
  <2>4. Inner(reply.msg) = response
    BY DEF Inner, WriteResponse
  <2>5. CASE ~ok
    <3>1. session(ok) = IF IsReady(s) THEN s ELSE spent
      BY <2>5
    <3> HIDE DEF session, spent
    <3> QED
      BY <1>3, <1>5, <2>2, <2>3, <2>5, <3>1
  <2>6. CASE ok
    <3> DEFINE r == IF IsReady(s) THEN RekeyAsResponder(s, t) ELSE BecomeReady(s, t)
               state == IF IsReady(s) THEN [s.state EXCEPT !.transport = t]
                                      ELSE Established(t)
    <3>1. Install(n, p, r)
      BY <2>2, <2>6
    <3>2. Fresh \in Ephemeral /\ t \in Transport
      BY <2>1, FreshOK DEF NewTransport, Transport, Side, InitMessage
    <3>3. Legal(r) /\ r # Absent
      <4> HIDE DEF t
      <4>1. Legal(r)
        BY <1>1, <3>2, RekeyAsResponderLegal, BecomeReadyLegal
      <4> QED BY <4>1, NoneAssumption DEF Legal
    <3> HIDE DEF t
    <3>4. /\ state.tag = "Ready" /\ state.transport = t
          /\ state.rehandshake = IF IsReady(s) THEN s.state.rehandshake ELSE None
      BY <1>1, ReadyStates DEF ReadyState, Established
    <3>5. r.state = state
      <4> HIDE DEF state
      <4>1. CASE IsReady(s)
        <5>1. r = [s EXCEPT !.state = state, !.last_handshake_at = 0, !.stale = FALSE]
          BY <4>1 DEF RekeyAsResponder, state
        <5> QED BY <1>1, <5>1 DEF PeerSession
      <4>2. CASE ~IsReady(s)
        <5>1. r = [s EXCEPT !.state = state, !.last_handshake_at = 0, !.last_rx_at = 0]
          BY <4>2 DEF BecomeReady, state
        <5> QED BY <1>1, <5>1 DEF PeerSession
      <4> QED BY <4>1, <4>2
    <3>6. /\ IsReady(r) /\ ~IsInitiating(r) /\ r.state.transport = t
          /\ \A e \in Ephemeral : Awaits(r, e) => Awaits(Session(q), e)
      BY <1>1, <3>4, <3>5 DEF Awaits, IsReady, IsRekeying, IsInitiating
    <3> HIDE DEF r, state
    <3>7. /\ DOMAIN Transports' \ {q} = DOMAIN Transports \ {q}
          /\ q \in DOMAIN Transports' <=> IsReady(r)
          /\ IsReady(r) => Transports'[q] = r.state.transport
          /\ \A u \in DOMAIN Transports : u # q => Transports'[u] = Transports[u]
          /\ Waits' = {w \in Waits : w[1] # q}
                        \cup {<<q, e>> : e \in {x \in Ephemeral : Awaits(r, x)}}
      BY <1>1, <3>1, <3>3, OneSessionKeys
    <3>8. DOMAIN Transports' = DOMAIN Transports \cup {q}
      BY <3>6, <3>7
    <3>9. Waits' \subseteq Waits
      BY <1>1, <3>6, <3>7 DEF Waits
    <3>10. /\ \A u \in DOMAIN Transports : Transports[u].key # Fresh
           /\ \A x \in Messages : (IsResponse(x) \/ IsTransport(x)) => x.key # Fresh
      BY <2>1, FreshUnused DEF Transports
    <3>11. /\ Transports'[q] = NewTransport(Fresh, "responder", m.from)
           /\ Messages' \subseteq Messages \cup {WriteResponse(n, m, Fresh)}
      BY <2>3, <2>4, <3>6, <3>7 DEF t
    <3>12. Keys(Transports', Waits, Messages')
      <4>1. Keys(Transports, Waits, Messages) /\ Typed(Transports, Messages)
        BY KeysTyped DEF HandshakesOK, KeysOK
      <4>2. \A u \in DOMAIN Transports : u # q => Transports'[u] = Transports[u]
        BY <3>7
      <4> HIDE DEF q
      <4> QED
        BY <3>8, <3>10, <3>11, <4>1, <4>2, KeysAnswer
    <3>13. Keys(Transports', Waits', Messages')
      BY <3>9, <3>12, KeysLess
    <3>14. RolesKept'
      BY <1>1, <3>1, <3>3, <3>6, OneSessionRoles DEF HandshakesOK
    <3> QED
      BY <3>13, <3>14 DEF HandshakesOK, KeysOK
  <2> QED
    BY <2>5, <2>6
<1> QED
  BY <1>4, <1>5

-----------------------------------------------------------------------------
(* Every receipt keeps the invariant. *)

(* The message a datagram carries is in flight. *)
LEMMA InnerInFlight ==
    ASSUME NEW d \in InFlight
    PROVE  Inner(d.msg) \in Messages
  BY DEF Messages

(* The end of a daemon ends its sessions. *)
LEMMA DownKeys ==
    ASSUME IInv, HandshakesOK, NEW n \in Node, Down(n), Messages' \subseteq Messages
    PROVE  HandshakesOK'
<1>1. \A u \in Node \X Node : peers'[u[1]][u[2]] # Absent
         => peers[u[1]][u[2]] # Absent /\ peers'[u[1]][u[2]] = peers[u[1]][u[2]]
  BY DEF IInv, TablesOK, Down
<1>2. ASSUME NEW u \in Sessions'
      PROVE  u \in Sessions /\ Session(u)' = Session(u)
  <2>1. u \in Node \X Node /\ peers'[u[1]][u[2]] # Absent
    BY DEF Sessions, Known
  <2> QED BY <1>1, <2>1 DEF Sessions, Known, Session
<1>3. /\ DOMAIN Transports' \subseteq DOMAIN Transports
      /\ \A u \in DOMAIN Transports' : Transports'[u] = Transports[u]
  BY <1>2 DEF Transports, ReadySessions, TransportOf, IsReady
<1>4. Waits' \subseteq Waits
  BY <1>2 DEF Waits, Awaits, IsInitiating, IsRekeying, IsReady
<1>5. Keys(Transports', Waits', Messages')
  BY <1>3, <1>4, KeysLess DEF HandshakesOK, KeysOK
<1>6. RolesKept'
  BY <1>2 DEF HandshakesOK, RolesKept, IsInitiating
<1> QED
  BY <1>5, <1>6 DEF HandshakesOK, KeysOK

(* An INIT, answered or not, or one too many. *)
LEMMA ReceiveInitKeys ==
    ASSUME IInv, HandshakesOK, NEW n \in Node, NEW d \in InFlight, ReceiveInit(n, d)
    PROVE  HandshakesOK'
<1> DEFINE p == Sender(n, d.src, d.msg)
           h == Heard(n, p, d.src)
           s == CountInit(h)
<1>1. p \in Known(n) /\ d.src \in Addr /\ d.msg \in InitMessage
  BY SenderKnown, DatagramTypes DEF ReceiveInit, IInv
<1>2. LegalHeard(s) /\ s.state = peers[n][p].state
  <2>1. LegalHeard(h) /\ h.state = peers[n][p].state
    BY <1>1, HeardState
  <2> HIDE DEF h
  <2> QED
    BY <2>1, CountInitLegal
<1>3. CASE OverLimit(s)
  <2>1. Down(n) /\ net' = Consume(d)
    BY <1>3 DEF ReceiveInit
  <2> QED
    BY <2>1, DownKeys, MessagesConsumed
<1>4. CASE ~OverLimit(s)
  <2>1. AnswerInit(n, p, s, d, d.msg, FALSE)
    BY <1>4 DEF ReceiveInit
  <2> HIDE DEF s, p
  <2> QED
    BY <1>1, <1>2, <2>1, AnswerKeys
<1> QED
  BY <1>3, <1>4

(* An INIT through a relay. *)
LEMMA ReceiveRelayedInitKeys ==
    ASSUME IInv, HandshakesOK, NEW n \in Node, NEW d \in InFlight,
           ReceiveRelayedInit(n, d)
    PROVE  HandshakesOK'
<1> DEFINE p == OriginalSender(n, d)
           h == HeardRelayed(n, p)
<1>1. /\ d.msg \in RelayMessage /\ d.src \in Addr /\ p \in Known(n)
      /\ d.msg.inner \in InitMessage
  BY DatagramTypes, InnerTypes
     DEF ReceiveRelayedInit, ArrivesRelayed, OriginalSender, IInv
<1>2. LegalHeard(h) /\ h.state = peers[n][p].state
  BY <1>1, HeardState
<1>3. AnswerInit(n, p, h, d, d.msg.inner, TRUE)
  BY DEF ReceiveRelayedInit
<1> HIDE DEF h, p
<1> QED
  BY <1>1, <1>2, <1>3, AnswerKeys

(* A RESPONSE, on either path. *)
LEMMA ReceiveResponseKeys ==
    ASSUME IInv, HandshakesOK, NEW n \in Node, NEW d \in InFlight,
           ReceiveResponse(n, d) \/ ReceiveRelayedResponse(n, d)
    PROVE  HandshakesOK'
<1>1. Messages' \subseteq Messages
  BY MessagesConsumed DEF ReceiveResponse, ReceiveRelayedResponse
<1>2. CASE ReceiveResponse(n, d)
  <2> DEFINE p == Sender(n, d.src, d.msg)
             h == Heard(n, p, d.src)
  <2>1. p \in Known(n) /\ d.src \in Addr /\ d.msg \in ResponseMessage
    BY <1>2, SenderKnown, DatagramTypes DEF ReceiveResponse, IInv
  <2>2. d.msg \in Messages
    BY <1>2, InnerInFlight DEF ReceiveResponse, Inner
  <2>3. LegalHeard(h) /\ h.state = peers[n][p].state
    BY <2>1, HeardState
  <2>4. Install(n, p, HandleResponse(h, d.msg))
    BY <1>2 DEF ReceiveResponse
  <2> HIDE DEF h, p
  <2> QED
    BY <1>1, <2>1, <2>2, <2>3, <2>4, ResponseKeys
<1>3. CASE ReceiveRelayedResponse(n, d)
  <2> DEFINE p == OriginalSender(n, d)
             h == HeardRelayed(n, p)
             m == d.msg.inner
  <2>1. /\ d.msg \in RelayMessage /\ d.src \in Addr /\ p \in Known(n)
        /\ m \in ResponseMessage
    BY <1>3, DatagramTypes, InnerTypes
       DEF ReceiveRelayedResponse, ArrivesRelayed, OriginalSender, IInv
  <2>2. m \in Messages
    BY <2>1, InnerInFlight DEF RelayMessage, Inner
  <2>3. LegalHeard(h) /\ h.state = peers[n][p].state
    BY <2>1, HeardState
  <2>4. Install(n, p, HandleResponse(h, m))
    BY <1>3 DEF ReceiveRelayedResponse
  <2> HIDE DEF h, p, m
  <2> QED
    BY <1>1, <2>1, <2>2, <2>3, <2>4, ResponseKeys
<1> QED
  BY <1>2, <1>3

(* A TRANSPORT, on either path. *)
LEMMA ReceiveTransportKeys ==
    ASSUME IInv, HandshakesOK, NEW n \in Node, NEW d \in InFlight,
           ReceiveTransport(n, d) \/ ReceiveRelayedTransport(n, d)
    PROVE  HandshakesOK'
<1>1. Messages' \subseteq Messages
  BY MessagesConsumed DEF ReceiveTransport, ReceiveRelayedTransport
<1>2. CASE ReceiveTransport(n, d)
  <2> DEFINE p == Sender(n, d.src, d.msg)
             h == Heard(n, p, d.src)
  <2>1. p \in Known(n) /\ d.src \in Addr /\ d.msg.type = "TRANSPORT"
    BY <1>2, SenderKnown, DatagramTypes DEF ReceiveTransport, IInv
  <2>2. d.msg \in Messages
    BY <2>1, InnerInFlight DEF Inner
  <2>3. LegalHeard(h) /\ h.state = peers[n][p].state
    BY <2>1, HeardState
  <2> HIDE DEF h
  <2>4. \E r \in {h, HandleRelayedTransport(h, d.msg)} : Install(n, p, r)
    BY <1>2 DEF ReceiveTransport, HandleTransport, h
  <2> HIDE DEF p
  <2> QED
    BY <1>1, <2>1, <2>2, <2>3, <2>4, TransportKeys
<1>3. CASE ReceiveRelayedTransport(n, d)
  <2> DEFINE p == OriginalSender(n, d)
             h == HeardRelayed(n, p)
             m == d.msg.inner
  <2>1. /\ d.msg \in RelayMessage /\ d.src \in Addr /\ p \in Known(n)
        /\ m.type = "TRANSPORT"
    BY <1>3, DatagramTypes
       DEF ReceiveRelayedTransport, ArrivesRelayed, OriginalSender, IInv
  <2>2. m \in Messages
    BY <2>1, InnerInFlight DEF RelayMessage, Inner
  <2>3. LegalHeard(h) /\ h.state = peers[n][p].state
    BY <2>1, HeardState
  <2>4. Install(n, p, HandleRelayedTransport(h, m))
    BY <1>3 DEF ReceiveRelayedTransport
  <2> HIDE DEF h, p, m
  <2> QED
    BY <1>1, <2>1, <2>2, <2>3, <2>4, TransportKeys
<1> QED
  BY <1>2, <1>3

(* A relay forwards a message, and keeps what is in it. *)
LEMMA ForwardRelayKeys ==
    ASSUME IInv, HandshakesOK, NEW n \in Node, NEW d \in InFlight, ForwardRelay(n, d)
    PROVE  HandshakesOK'
<1> DEFINE p == d.msg.from
           h == HeardRelayed(n, p)
           x == [src |-> addr[n], msg |-> d.msg, dst |-> ForwardAddress(n, d.msg.dest)]
<1>1. p \in Known(n) /\ d.src \in Addr
  BY DatagramTypes DEF ForwardRelay, ArrivesRelayed, IInv
<1>2. LegalHeard(h) /\ h.state = peers[n][p].state
  BY <1>1, HeardState
<1>3. Install(n, p, h)
  BY DEF ForwardRelay
<1>4. Messages' \subseteq Messages
  <2>1. CASE d.msg.dest \in Known(n)
    <3>1. \E ok \in SendOutcomes :
             net' = Consume(d) (+) (IF ok THEN Delivered({x}) ELSE EmptyBag)
      BY <2>1 DEF ForwardRelay
    <3>2. Inner(x.msg) \in Messages
      BY InnerInFlight
    <3> HIDE DEF x
    <3> QED
      BY <3>1, <3>2, Consumed, MessagesMaybeSent
  <2>2. CASE d.msg.dest \notin Known(n)
    BY <2>2, MessagesConsumed DEF ForwardRelay
  <2> QED BY <2>1, <2>2
<1>5. h \in PeerSession
  BY <1>2 DEF LegalHeard, Legal
<1> HIDE DEF h, p
<1> QED
  BY <1>1, <1>2, <1>3, <1>4, <1>5, SameState

(* Every datagram. *)
LEMMA ReceiveKeys ==
    ASSUME IInv, HandshakesOK, NEW n \in Node, NEW d \in InFlight, Receive(n, d)
    PROVE  HandshakesOK'
<1>1. ASSUME IgnoreUnknownSource(n, d) \/ DropStrangersRelay(n, d)
      PROVE  HandshakesOK'
  BY <1>1, SamePeers, MessagesConsumed DEF IgnoreUnknownSource, DropStrangersRelay
<1> QED
  BY <1>1, ReceiveInitKeys, ReceiveResponseKeys, ReceiveTransportKeys,
     ReceiveRelayedInitKeys, ForwardRelayKeys DEF Receive

-----------------------------------------------------------------------------
(* Every step of a manager on its own keeps the invariant. *)

(* A Ready session that may encrypt one message and may start a rekey. *)
LEMMA SessionSends ==
    ASSUME IInv, HandshakesOK, NEW n \in Node, NEW p \in Known(n),
           NEW r \in PeerSession, Install(n, p, r),
           IsReady(peers[n][p]), IsReady(r),
           NEW t, t = peers[n][p].state.transport,
           r.state.transport \in {t, AfterEncrypt(t)},
           \A e \in Ephemeral : Awaits(r, e) =>
               Awaits(peers[n][p], e) \/ (e = Fresh /\ Unused # {}),
           \A m \in Messages' :
               \/ m \in Messages \/ m.type = "INIT"
               \/ m = Encrypt(t) /\ r.state.transport = AfterEncrypt(t)
    PROVE  HandshakesOK'
<1> DEFINE q == <<n, p>>
           M == IF r.state.transport = AfterEncrypt(t)
                THEN Messages \cup {Encrypt(t)} ELSE Messages
<1>1. /\ p \in Node /\ r # Absent /\ ~IsInitiating(r)
      /\ q \in Sessions /\ Session(q) = peers[n][p]
  BY NoneAssumption DEF Known, Sessions, Session, IsReady, IsInitiating
<1>2. q \in DOMAIN Transports /\ Transports[q] = t
  BY <1>1 DEF Transports, ReadySessions, TransportOf
<1>3. /\ DOMAIN Transports' \ {q} = DOMAIN Transports \ {q}
      /\ q \in DOMAIN Transports' <=> IsReady(r)
      /\ IsReady(r) => Transports'[q] = r.state.transport
      /\ \A u \in DOMAIN Transports : u # q => Transports'[u] = Transports[u]
      /\ Waits' = {w \in Waits : w[1] # q}
                    \cup {<<q, e>> : e \in {x \in Ephemeral : Awaits(r, x)}}
  BY <1>1, OneSessionKeys
<1>4. /\ DOMAIN Transports' = DOMAIN Transports
      /\ Transports'[q] \in {Transports[q], AfterEncrypt(Transports[q])}
  BY <1>2, <1>3
<1>5. Waits' \subseteq Waits \/ (Unused # {} /\ Waits' \subseteq Waits \cup {<<q, Fresh>>})
  BY <1>1, <1>3 DEF Waits
<1>6. Keys(Transports, Waits, Messages) /\ Typed(Transports, Messages)
  BY KeysTyped DEF HandshakesOK, KeysOK
<1>7. Keys(Transports', Waits, M)
  <2>1. CASE r.state.transport = AfterEncrypt(t)
    <3>1. /\ Transports'[q] = AfterEncrypt(Transports[q])
          /\ M \subseteq Messages \cup {Encrypt(Transports[q])}
      BY <1>2, <1>3, <2>1
    <3>2. \A u \in DOMAIN Transports : u # q => Transports'[u] = Transports[u]
      BY <1>3
    <3> HIDE DEF q, M
    <3> QED
      BY <1>2, <1>4, <1>6, <3>1, <3>2, KeysEncrypt
  <2>2. CASE r.state.transport # AfterEncrypt(t)
    <3>1. \A u \in DOMAIN Transports' : Transports'[u] = Transports[u]
      BY <1>2, <1>3, <1>4, <2>2
    <3> QED
      BY <1>4, <1>6, <2>2, <3>1, KeysLess
  <2> QED BY <2>1, <2>2
<1>8. Keys(Transports', Waits', M)
  <2>1. CASE Waits' \subseteq Waits
    <3> HIDE DEF M
    <3> QED BY <1>7, <2>1, KeysLess
  <2>2. CASE Unused # {} /\ Waits' \subseteq Waits \cup {<<q, Fresh>>}
    <3>1. /\ \A w \in Waits : w[2] # Fresh
          /\ \A m \in M : IsResponse(m) => m.eph # Fresh
      BY <2>2, FreshUnused DEF Encrypt, IsResponse
    <3> HIDE DEF q, M
    <3> QED BY <1>7, <2>2, <3>1, KeysDraw
  <2> QED BY <1>5, <2>1, <2>2
<1>9. Keys(Transports', Waits', Messages')
  <2>1. \A m \in Messages' : m \in M \/ m.type = "INIT"
    OBVIOUS
  <2> HIDE DEF M
  <2> QED BY <1>8, <2>1, KeysLess
<1>10. RolesKept'
  BY <1>1, OneSessionRoles DEF HandshakesOK
<1> QED
  BY <1>9, <1>10 DEF HandshakesOK, KeysOK

(* An INIT that is sent, for the first time or again. *)
LEMMA InitSentKeys ==
    ASSUME IInv, NEW n, NEW p, NEW x, NEW e, NEW ok,
           net' = net (+) (IF ok
                           THEN Delivered({SendMaybeRelay(n, p, x, WriteInit(n, p, e))})
                           ELSE EmptyBag)
    PROVE  \A m \in Messages' : m \in Messages \/ m.type = "INIT"
<1> DEFINE init == WriteInit(n, p, e)
           y == SendMaybeRelay(n, p, x, init)
<1>1. Inner(y.msg) = init /\ init.type = "INIT"
  <2>1. init.type = "INIT"
    BY DEF WriteInit
  <2> HIDE DEF init
  <2> QED BY <2>1, SentInner
<1>2. IsABag(net) /\ BagToSet(net) \subseteq InFlight
  BY DEF IInv, WorldOK, InFlight
<1> HIDE DEF y
<1>3. Messages' \subseteq Messages \cup {Inner(y.msg)}
  BY <1>2, MessagesMaybeSent DEF y
<1> QED
  BY <1>1, <1>3

(* The due INITs. *)
LEMMA SendInitKeys ==
    ASSUME IInv, HandshakesOK, NEW n \in Node, NEW p \in Node, SendInit(n, p)
    PROVE  HandshakesOK'
<1> DEFINE s == peers[n][p]
<1>1. p \in Known(n) /\ s \in PeerSession
  BY KnownSession DEF SendInit, IInv, Legal
<1>2. PICK ok \in SendOutcomes :
         /\ Install(n, p, IF ok THEN InitSent(s) ELSE s)
         /\ net' = net (+)
              (IF ok
               THEN Delivered({SendMaybeRelay(n, p, s.endpoint,
                                 WriteInit(n, p, s.state.initiator))})
               ELSE EmptyBag)
  BY DEF SendInit
<1>3. \A m \in Messages' : m \in Messages \/ m.type = "INIT"
  BY <1>2, InitSentKeys
<1> HIDE DEF s
<1>4. InitSent(s) \in PeerSession /\ InitSent(s).state = s.state
  BY <1>1, TimingAssumption DEF InitSent, PeerSession
<1>5. PICK r \in PeerSession : r.state = s.state /\ Install(n, p, r)
  BY <1>1, <1>2, <1>4
<1> QED
  BY <1>1, <1>3, <1>5, SameState DEF s

(* A timer that is cleared, and a peer that goes stale. *)
LEMMA QuietKeys ==
    ASSUME IInv, HandshakesOK, NEW n \in Node, NEW p \in Node,
           ClearInitTimer(n, p) \/ MarkStale(n, p)
    PROVE  HandshakesOK'
<1> DEFINE s == peers[n][p]
           stale == [s EXCEPT !.stale = TRUE]
<1>1. p \in Known(n) /\ s \in PeerSession
  BY KnownSession DEF ClearInitTimer, MarkStale, Maintained, IInv, Legal
<1>2. Messages' = Messages
  BY DEF ClearInitTimer, MarkStale, Messages, InFlight
<1>3. \E r \in {InitDone(s), stale} : Install(n, p, r)
  BY DEF ClearInitTimer, MarkStale
<1> HIDE DEF s
<1>4. /\ InitDone(s) \in PeerSession /\ InitDone(s).state = s.state
      /\ stale \in PeerSession /\ stale.state = s.state
  BY <1>1 DEF InitDone, PeerSession
<1> QED
  BY <1>1, <1>2, <1>3, <1>4, SameState DEF s

(* The retry of a rekey. *)
LEMMA RetryRekeyKeys ==
    ASSUME IInv, HandshakesOK, NEW n \in Node, NEW p \in Node, RetryRekey(n, p)
    PROVE  HandshakesOK'
<1> DEFINE s == peers[n][p]
           again == [s EXCEPT !.state.rehandshake.next_retry_at = INIT_RETRY_INTERVAL]
           t == s.state.transport
<1>1. p \in Known(n) /\ s \in PeerSession /\ IsRekeying(s) /\ IsReady(s)
  BY KnownSession DEF RetryRekey, Maintained, IInv, Legal
<1>2. PICK ok \in SendOutcomes :
         /\ Install(n, p, IF ok THEN again ELSE s)
         /\ net' = net (+)
              (IF ok
               THEN Delivered({SendMaybeRelay(n, p, s.endpoint,
                                 WriteInit(n, p, s.state.rehandshake.initiator))})
               ELSE EmptyBag)
  BY DEF RetryRekey
<1>3. \A m \in Messages' : m \in Messages \/ m.type = "INIT"
  BY <1>2, InitSentKeys
<1>4. s.state \in ReadyState /\ s.state.rehandshake \in Rehandshake
  BY <1>1, ReadyStates
<1> DEFINE rekey == [s.state.rehandshake EXCEPT !.next_retry_at = INIT_RETRY_INTERVAL]
           ready == [s.state EXCEPT !.rehandshake = rekey]
<1>5. rekey \in Rehandshake /\ rekey.initiator = s.state.rehandshake.initiator
  BY <1>4, TimingAssumption DEF Rehandshake
<1>6. again = [s EXCEPT !.state = ready]
  OBVIOUS
<1> HIDE DEF s, rekey
<1>7. /\ ready \in PeerState /\ ready.tag = "Ready"
      /\ ready.transport = t /\ ready.rehandshake = rekey
  BY <1>4, <1>5 DEF PeerState, ReadyState
<1> HIDE DEF ready
<1>8. again \in PeerSession /\ again.state = ready
  <2> HIDE DEF again
  <2> QED BY <1>1, <1>6, <1>7 DEF PeerSession
<1> HIDE DEF again
<1>9. CASE ok
  <2>1. IsReady(again) /\ again.state.transport = t
    BY <1>7, <1>8 DEF IsReady
  <2>2. \A e \in Ephemeral : Awaits(again, e) => Awaits(s, e)
    BY <1>1, <1>5, <1>7, <1>8 DEF Awaits, IsInitiating, IsRekeying, IsReady
  <2> HIDE DEF t
  <2> QED
    BY <1>1, <1>2, <1>3, <1>8, <1>9, <2>1, <2>2, SessionSends DEF s, t
<1>10. CASE ~ok
  BY <1>1, <1>2, <1>3, <1>10, SameState DEF s
<1> QED
  BY <1>9, <1>10

(* A TUN packet. *)
LEMMA DispatchTunPacketKeys ==
    ASSUME IInv, HandshakesOK, NEW n \in Node, NEW p \in Node,
           DispatchTunPacket(n, p)
    PROVE  HandshakesOK'
<1> DEFINE s == peers[n][p]
           t == s.state.transport
           u == AfterEncrypt(t)
           tx(ok) == IF ok THEN 0 ELSE s.last_tx_at
           r(ok) == [s EXCEPT !.state.transport = u, !.last_tx_at = tx(ok)]
           ready == [s.state EXCEPT !.transport = u]
           x == SendMaybeRelay(n, p, s.endpoint, Encrypt(t))
<1>1. p \in Known(n) /\ s \in PeerSession /\ IsReady(s)
  BY KnownSession DEF DispatchTunPacket, IInv, Legal
<1>2. PICK ok \in SendOutcomes :
         /\ Install(n, p, r(ok))
         /\ net' = net (+) (IF ok THEN Delivered({x}) ELSE EmptyBag)
  BY DEF DispatchTunPacket
<1>3. s.state \in ReadyState /\ u \in Transport /\ tx(ok) \in Nat \cup {None}
  BY <1>1, ReadyStates DEF ReadyState, Transport, AfterEncrypt, PeerSession
<1>4. r(ok) = [s EXCEPT !.state = ready, !.last_tx_at = tx(ok)]
  OBVIOUS
<1>5. Inner(x.msg) = Encrypt(t)
  <2>1. Encrypt(t).type = "TRANSPORT"
    BY DEF Encrypt
  <2> QED BY <2>1, SentInner
<1> HIDE DEF s, u, tx, x
<1>6. /\ ready \in PeerState /\ ready.tag = "Ready" /\ ready.transport = u
      /\ ready.rehandshake = s.state.rehandshake
  BY <1>3 DEF PeerState, ReadyState
<1> HIDE DEF ready, r
<1>7. r(ok) \in PeerSession /\ r(ok).state = ready
  BY <1>1, <1>3, <1>4, <1>6 DEF PeerSession
<1>8. IsReady(r(ok)) /\ r(ok).state.transport = u
  BY <1>6, <1>7 DEF IsReady
<1>9. \A e \in Ephemeral : Awaits(r(ok), e) => Awaits(s, e)
  BY <1>1, <1>6, <1>7 DEF Awaits, IsInitiating, IsRekeying, IsReady
<1>10. Messages' \subseteq Messages \cup {Encrypt(t)}
  <2>1. IsABag(net) /\ BagToSet(net) \subseteq InFlight
    BY DEF IInv, WorldOK, InFlight
  <2> QED BY <1>2, <1>5, <2>1, MessagesMaybeSent
<1> HIDE DEF t
<1> QED
  BY <1>1, <1>2, <1>7, <1>8, <1>9, <1>10, SessionSends DEF s, t, u

(* Keepalives and the start of a rekey. *)
LEMMA KeepaliveOrRekeyKeys ==
    ASSUME IInv, HandshakesOK, NEW n \in Node, NEW p \in Node,
           KeepaliveOrRekey(n, p)
    PROVE  HandshakesOK'
<1> DEFINE s == peers[n][p]
           t == s.state.transport
           u == AfterEncrypt(t)
           keepalive == KeepaliveDue(s)
           rekey == RekeyDue(n, p, s)
           x == SendMaybeRelay(n, p, s.endpoint, Encrypt(t))
           y == SendMaybeRelay(n, p, s.endpoint, WriteInit(n, p, Fresh))
           probe == IF keepalive THEN {x} ELSE {}
           init == IF rekey THEN {y} ELSE {}
           tx(probed) == IF probed THEN 0 ELSE s.last_tx_at
           ready(started) ==
               [tag |-> "Ready",
                transport |-> IF keepalive THEN u ELSE t,
                rehandshake |-> IF started
                                THEN [initiator |-> Fresh,
                                      next_retry_at |-> INIT_RETRY_INTERVAL]
                                ELSE None]
           r(probed, started) ==
               [s EXCEPT !.last_tx_at = tx(probed), !.state = ready(started)]
<1>1. p \in Known(n) /\ s \in PeerSession /\ IsReady(s)
  BY KnownSession DEF KeepaliveOrRekey, Maintained, IInv, Legal
<1>2. PICK probed \in BOOLEAN, started \in BOOLEAN :
         /\ started => rekey
         /\ probed => keepalive
         /\ net' = net (+) Delivered((IF probed THEN probe ELSE {})
                                     \cup (IF started THEN init ELSE {}))
         /\ Install(n, p, r(probed, started))
  BY DEF KeepaliveOrRekey
<1>3. started => Unused # {}
  BY <1>2 DEF KeepaliveOrRekey
<1>4. /\ Inner(x.msg) = Encrypt(t)
      /\ Inner(y.msg).type = "INIT"
  <2>1. Encrypt(t).type = "TRANSPORT" /\ WriteInit(n, p, Fresh).type = "INIT"
    BY DEF Encrypt, WriteInit
  <2> QED BY <2>1, SentInner
<1>5. s.state \in ReadyState /\ t \in Transport /\ u \in Transport
  BY <1>1, ReadyStates DEF ReadyState, Transport, AfterEncrypt
<1>6. /\ tx(probed) \in Nat \cup {None}
      /\ started => [initiator |-> Fresh, next_retry_at |-> INIT_RETRY_INTERVAL]
                       \in Rehandshake
  BY <1>1, <1>3, FreshOK, TimingAssumption DEF PeerSession, Rehandshake
<1> HIDE DEF s, u, keepalive, rekey, x, y, tx
<1>7. Messages' \subseteq Messages \cup {Inner(z.msg) : z \in {v \in {x, y} : v = x => keepalive \/ x = y}}
  <2> DEFINE S == (IF probed THEN probe ELSE {}) \cup (IF started THEN init ELSE {})
  <2>1. IsABag(net) /\ BagToSet(net) \subseteq InFlight
    BY DEF IInv, WorldOK, InFlight
  <2>2. S \subseteq {v \in {x, y} : v = x => keepalive \/ x = y}
    BY <1>2
  <2> HIDE DEF S, probe, init
  <2>3. Messages' \subseteq Messages \cup {Inner(z.msg) : z \in S}
    BY <1>2, <2>1, MessagesSent DEF S
  <2> QED BY <2>2, <2>3
<1>8. \A m \in Messages' :
         \/ m \in Messages \/ m.type = "INIT"
         \/ m = Encrypt(t) /\ keepalive
  <2> HIDE DEF t
  <2> QED BY <1>4, <1>7
<1> DEFINE q == r(probed, started)
           state == ready(started)
<1>9. /\ state \in PeerState /\ state.tag = "Ready"
      /\ state.transport = IF keepalive THEN u ELSE t
      /\ state.rehandshake # None => started /\ state.rehandshake.initiator = Fresh
  <2> HIDE DEF t
  <2> QED BY <1>5, <1>6 DEF PeerState, ReadyState
<1> HIDE DEF ready, state
<1>10. q = [s EXCEPT !.last_tx_at = tx(probed), !.state = state]
  BY DEF state
<1> HIDE DEF r
<1>11. q \in PeerSession /\ q.state = state
  <2> HIDE DEF q
  <2> QED BY <1>1, <1>6, <1>9, <1>10 DEF PeerSession
<1> HIDE DEF t
<1>12. IsReady(q) /\ q.state.transport \in {t, u}
  BY <1>9, <1>11 DEF IsReady
<1>13. \A e \in Ephemeral : Awaits(q, e) => e = Fresh /\ Unused # {}
  BY <1>3, <1>9, <1>11 DEF Awaits, IsInitiating, IsRekeying, IsReady
<1>14. keepalive => q.state.transport = u
  BY <1>9, <1>11
<1> QED
  BY <1>1, <1>2, <1>8, <1>11, <1>12, <1>13, <1>14, SessionSends DEF s, t, u

(* A new peer: an Initiator is new, and only who is configured to has one. *)
LEMMA AddPeerKeys ==
    ASSUME IInv, HandshakesOK, NEW n \in Node, NEW p \in Node, AddPeer(n, p)
    PROVE  HandshakesOK'
<1> DEFINE q == <<n, p>>
           r == NewSession(n, p, Fresh)
           cfg == Config[n][p]
<1>1. /\ p \notin Known(n) /\ cfg # None /\ Install(n, p, r) /\ net' = net
      /\ cfg.is_initiator => Unused # {}
  BY DEF AddPeer
<1>2. cfg.is_initiator => Fresh \in Ephemeral
  BY <1>1, FreshOK
<1>3. r # Absent
  BY <1>1, <1>2, NewSessionLegal, NoneAssumption DEF Legal
<1>4. /\ ~IsReady(r)
      /\ IsInitiating(r) => cfg.is_initiator
      /\ \A e \in Ephemeral : Awaits(r, e) => cfg.is_initiator /\ e = Fresh
  BY DEF NewSession, FreshResponder, Awaits, IsReady, IsRekeying, IsInitiating
<1> HIDE DEF r, cfg
<1>5. /\ DOMAIN Transports' \ {q} = DOMAIN Transports \ {q}
      /\ q \in DOMAIN Transports' <=> IsReady(r)
      /\ \A u \in DOMAIN Transports : u # q => Transports'[u] = Transports[u]
      /\ Waits' = {w \in Waits : w[1] # q}
                    \cup {<<q, e>> : e \in {x \in Ephemeral : Awaits(r, x)}}
  BY <1>1, <1>3, OneSessionKeys
<1>6. /\ DOMAIN Transports' \subseteq DOMAIN Transports
      /\ \A u \in DOMAIN Transports' : Transports'[u] = Transports[u]
  BY <1>4, <1>5
<1>7. Messages' = Messages
  BY <1>1 DEF Messages, InFlight
<1>8. Keys(Transports, Waits', Messages)
  <2>1. CASE Unused # {}
    <3>1. /\ \A w \in Waits : w[2] # Fresh
          /\ \A m \in Messages : IsResponse(m) => m.eph # Fresh
      BY <2>1, FreshUnused
    <3>2. Waits' \subseteq Waits \cup {<<q, Fresh>>}
      BY <1>4, <1>5
    <3>3. Keys(Transports, Waits, Messages)
      BY DEF HandshakesOK, KeysOK
    <3> HIDE DEF q
    <3> QED BY <3>1, <3>2, <3>3, KeysDraw
  <2>2. CASE Unused = {}
    <3>1. Waits' \subseteq Waits
      BY <1>1, <1>4, <1>5, <2>2
    <3> QED BY <3>1, KeysLess DEF HandshakesOK, KeysOK
  <2> QED BY <2>1, <2>2
<1>9. Keys(Transports', Waits', Messages')
  BY <1>6, <1>7, <1>8, KeysLess
<1>10. RolesKept'
  BY <1>1, <1>3, <1>4, OneSessionRoles DEF HandshakesOK, cfg
<1> QED
  BY <1>9, <1>10 DEF HandshakesOK, KeysOK

-----------------------------------------------------------------------------
(* Time and the network keep the invariant. *)

(* Time leaves transports and Initiators alone. *)
LEMMA AgedKeeps ==
    ASSUME NEW s \in PeerSession
    PROVE  /\ IsReady(Aged(s)) <=> IsReady(s)
           /\ IsReady(s) => Aged(s).state.transport = s.state.transport
           /\ IsInitiating(Aged(s)) <=> IsInitiating(s)
           /\ \A e : Awaits(Aged(s), e) <=> Awaits(s, e)
<1> DEFINE r == Aged(s)
           state == AgedState(s)
           init == Sooner(s.next_init_at)
           rx == Older(s.last_rx_at, REJECT_AFTER)
           tx == Older(s.last_tx_at, KEEPALIVE)
           hs == Older(s.last_handshake_at, REKEY_AFTER)
           start == IF s.init_rx_window_start < RATE_WINDOW
                    THEN s.init_rx_window_start + 1 ELSE s.init_rx_window_start
<1>1. r = [s EXCEPT !.next_init_at = init, !.last_rx_at = rx, !.last_tx_at = tx,
                    !.last_handshake_at = hs, !.init_rx_window_start = start,
                    !.state = state]
  BY DEF Aged
<1>2. r.state = state
  <2> HIDE DEF r, state, init, rx, tx, hs, start
  <2> QED BY <1>1 DEF PeerSession
<1>3. CASE IsRekeying(s)
  <2> DEFINE retry == Sooner(s.state.rehandshake.next_retry_at)
             rekey == [s.state.rehandshake EXCEPT !.next_retry_at = retry]
  <2>1. s.state \in ReadyState /\ s.state.rehandshake \in Rehandshake
    BY <1>3, ReadyStates DEF IsRekeying
  <2>2. state = [s.state EXCEPT !.rehandshake = rekey]
    BY <1>3 DEF AgedState
  <2> HIDE DEF retry
  <2>3. rekey.initiator = s.state.rehandshake.initiator /\ rekey # None
    <3>1. s.state.rehandshake.next_retry_at \in Nat
      BY <2>1 DEF Rehandshake
    <3>2. retry \in Nat
      BY <3>1, OlderTyped DEF retry
    <3>3. rekey \in Rehandshake
      BY <2>1, <3>2 DEF Rehandshake
    <3> QED BY <2>1, <3>3, NoneAssumption DEF Rehandshake
  <2> HIDE DEF r, state, rekey
  <2>4. /\ state.tag = "Ready" /\ state.transport = s.state.transport
        /\ state.rehandshake = rekey
    BY <2>1, <2>2 DEF ReadyState
  <2> QED
    BY <1>2, <1>3, <2>3, <2>4 DEF r, Awaits, IsReady, IsRekeying, IsInitiating
<1>4. CASE ~IsRekeying(s)
  <2>1. r.state = s.state
    BY <1>2, <1>4 DEF AgedState
  <2> HIDE DEF r
  <2> QED
    BY <2>1 DEF r, Awaits, IsReady, IsRekeying, IsInitiating
<1> QED
  BY <1>3, <1>4

(* Tick. *)
LEMMA TickKeys ==
    ASSUME IInv, HandshakesOK, Tick
    PROVE  HandshakesOK'
<1>1. /\ peers' = [n \in Node |-> [p \in Node |->
                      IF p \in Known(n) THEN Aged(peers[n][p]) ELSE Absent]]
      /\ net' = net
  BY DEF Tick
<1>2. \A u \in Sessions : /\ u \in Node \X Node
                          /\ Session(u) \in PeerSession /\ Aged(Session(u)) # Absent
  <2> TAKE u \in Sessions
  <2>1. u \in Node \X Node /\ u[1] \in Node /\ u[2] \in Known(u[1])
        /\ Session(u) = peers[u[1]][u[2]]
    BY DEF Sessions, Session
  <2>2. Legal(Session(u)) /\ Legal(Aged(Session(u)))
    BY <2>1, KnownSession, AgedLegal DEF IInv
  <2> QED BY <2>1, <2>2, NoneAssumption DEF Legal
<1>3. ASSUME NEW u \in Node \X Node
      PROVE  /\ u \in Sessions => Session(u)' = Aged(Session(u))
             /\ u \notin Sessions => Session(u)' = Absent
             /\ u \in Sessions' <=> Session(u)' # Absent
  BY <1>1 DEF Sessions, Session, Known
<1>4. Sessions' = Sessions
  <2>1. Sessions' \subseteq Node \X Node /\ Sessions \subseteq Node \X Node
    BY DEF Sessions
  <2> QED BY <1>2, <1>3, <2>1
<1>5. \A u \in Sessions :
         /\ IsReady(Session(u)') <=> IsReady(Session(u))
         /\ IsReady(Session(u)) => Session(u)'.state.transport = Session(u).state.transport
         /\ IsInitiating(Session(u)') <=> IsInitiating(Session(u))
         /\ \A e : Awaits(Session(u)', e) <=> Awaits(Session(u), e)
  BY <1>2, <1>3, AgedKeeps
<1>6. ReadySessions' = ReadySessions
  BY <1>4, <1>5 DEF ReadySessions, IsReady
<1>7. /\ DOMAIN Transports' \subseteq DOMAIN Transports
      /\ \A u \in DOMAIN Transports' : Transports'[u] = Transports[u]
  <2>1. \A u \in ReadySessions : u \in Sessions /\ IsReady(Session(u))
    BY DEF ReadySessions
  <2> QED BY <1>5, <1>6, <2>1 DEF Transports, TransportOf
<1>8. Waits' \subseteq Waits
  <2>1. Waits' = {w \in Sessions' \X Ephemeral : Awaits(Session(w[1])', w[2])}
    BY DEF Waits, Awaits, IsInitiating, IsRekeying, IsReady
  <2> QED BY <1>4, <1>5, <2>1 DEF Waits
<1>9. Messages' = Messages
  BY <1>1 DEF Messages, InFlight
<1>10. Keys(Transports', Waits', Messages')
  BY <1>7, <1>8, <1>9, KeysLess DEF HandshakesOK, KeysOK
<1>11. RolesKept'
  BY <1>4, <1>5 DEF HandshakesOK, RolesKept, IsInitiating
<1> QED
  BY <1>10, <1>11 DEF HandshakesOK, KeysOK

(* Loss, duplication, datagrams to nobody, roaming, starts and stops. *)
LEMMA WorldKeys ==
    ASSUME IInv, HandshakesOK,
           \/ \E d \in InFlight : Lose(d) \/ Duplicate(d) \/ Vanish(d)
           \/ \E n \in Node, a \in Addr : Rebind(n, a)
           \/ \E n \in Node : Start(n) \/ Stop(n)
    PROVE  HandshakesOK'
<1>1. ASSUME NEW d \in InFlight, Lose(d) \/ Duplicate(d) \/ Vanish(d)
      PROVE  HandshakesOK'
  <2>1. Messages' \subseteq Messages
    <3>1. CASE Duplicate(d)
      <4>1. IsABag(net) /\ BagToSet(net) = InFlight
        BY DEF IInv, WorldOK, InFlight
      <4>2. InFlight' = InFlight \cup {d}
        BY <3>1, <4>1, BagOfSet, BagSum DEF Duplicate, InFlight
      <4> QED BY <4>2 DEF Messages
    <3>2. CASE ~Duplicate(d)
      BY <1>1, <3>2, MessagesConsumed DEF Lose, Vanish
    <3> QED BY <3>1, <3>2
  <2> QED
    BY <1>1, <2>1, SamePeers DEF Lose, Duplicate, Vanish
<1>2. ASSUME NEW n \in Node, NEW a \in Addr, Rebind(n, a)
      PROVE  HandshakesOK'
  <2>1. UNCHANGED peers /\ Messages' = Messages
    BY <1>2 DEF Rebind, Messages, InFlight
  <2> QED BY <2>1, SamePeers
<1>3. ASSUME NEW n \in Node, Start(n) \/ Stop(n)
      PROVE  HandshakesOK'
  <2>1. Messages' = Messages
    BY <1>3 DEF Start, Stop, Messages, InFlight
  <2> QED
    BY <1>3, <2>1, SamePeers, DownKeys DEF Start, Stop
<1> QED
  BY <1>1, <1>2, <1>3

-----------------------------------------------------------------------------

(* HandshakesOK holds initially: nobody has a session. *)
LEMMA InitKeys == Init => HandshakesOK
<1> SUFFICES ASSUME Init PROVE HandshakesOK
  OBVIOUS
<1>1. Sessions = {} /\ InFlight = {}
  BY BagEmpty DEF Init, Sessions, Known, InFlight
<1>2. DOMAIN Transports = {} /\ Waits = {} /\ Messages = {}
  BY <1>1 DEF Transports, ReadySessions, Waits, Messages
<1>3. Keys(Transports, Waits, Messages)
  BY <1>2 DEF Keys, Behind, OneUser, NeverAhead, OneWaiter, OneAnswer, Unclaimed
<1> QED
  BY <1>1, <1>3 DEF HandshakesOK, KeysOK, RolesKept

(* HandshakesOK is inductive relative to IInv: one step per disjunct of
   Next. *)
LEMMA NextKeepsKeys == IInv /\ HandshakesOK /\ [Next]_vars => HandshakesOK'
<1> SUFFICES ASSUME IInv, HandshakesOK, [Next]_vars PROVE HandshakesOK'
  OBVIOUS
<1>1. CASE UNCHANGED vars
  <2>1. UNCHANGED peers /\ Messages' = Messages
    BY <1>1 DEF vars, Messages, InFlight
  <2> QED BY <2>1, SamePeers
<1>2. ASSUME NEW n \in Node, NEW p \in Node, PeerStep(n, p) PROVE HandshakesOK'
  BY <1>2, AddPeerKeys, SendInitKeys, QuietKeys, DispatchTunPacketKeys,
     RetryRekeyKeys, KeepaliveOrRekeyKeys DEF PeerStep, Maintenance
<1>3. ASSUME NEW n \in Node, NEW d \in InFlight, Receive(n, d) PROVE HandshakesOK'
  BY <1>3, ReceiveKeys
<1>4. CASE Tick
  BY <1>4, TickKeys
<1> QED
  BY <1>1, <1>2, <1>3, <1>4, WorldKeys DEF Next

(* The parts of KeysOK are the properties. *)
LEMMA FreshFromKeys == KeysOK => NoncesFresh /\ ReplaysRejected
<1> SUFFICES ASSUME KeysOK PROVE NoncesFresh /\ ReplaysRejected
  OBVIOUS
<1>1. /\ DOMAIN Transports = ReadySessions
      /\ \A q \in ReadySessions : Transports[q] = TransportOf(q)
  BY DEF Transports
<1>2. NoncesFresh
  BY <1>1 DEF KeysOK, Keys, Behind, OneUser, Messages, IsTransport, NoncesFresh
<1>3. ReplaysRejected
  BY <1>1 DEF KeysOK, Keys, NeverAhead, ReplaysRejected
<1> QED BY <1>2, <1>3

(* HandshakesOK holds in every reachable state. *)
THEOREM HandshakeInvariance == Spec => []HandshakesOK
  BY InitKeys, NextKeepsKeys, Invariance, PTL DEF Spec

(* In every execution, whatever INITs and RESPONSEs the network loses, delays,
   duplicates or reorders and the managers retransmit or answer again, and
   whoever restarts, no two sessions ever encrypt with the same side of the
   same key, and no session encrypts twice with one nonce. *)
THEOREM NoncesStayFresh == Spec => []NoncesFresh
<1>1. HandshakesOK => NoncesFresh
  BY FreshFromKeys DEF HandshakesOK
<1> QED
  BY <1>1, HandshakeInvariance, PTL

(* In every execution, a side of a key has decrypted at most as many messages
   as the other side has encrypted: nothing is delivered to a TUN device twice,
   however often the network duplicates it. *)
THEOREM ReplaysStayRejected == Spec => []ReplaysRejected
<1>1. HandshakesOK => ReplaysRejected
  BY FreshFromKeys DEF HandshakesOK
<1> QED
  BY <1>1, HandshakeInvariance, PTL

-----------------------------------------------------------------------------
(* Roles, with the configurations that discovery makes. *)

(* Of two nodes at most one is configured to initiate. *)
OneSided ==
    \A n, p \in Node :
        (n # p /\ Config[n][p] # None /\ Config[p][n] # None)
            => ~(Config[n][p].is_initiator /\ Config[p][n].is_initiator)

D == INSTANCE Discovery

(* Of two nodes that do not both run with --relay exactly one initiates: the
   role override of cmd_up and its comparison of keys never leave a pair
   without an initiator, nor with two. *)
THEOREM OneInitiator ==
    ASSUME NEW f, NEW g, f.rank \in Nat, g.rank \in Nat, f.rank # g.rank,
           f.relay = None \/ g.relay = None
    PROVE  D!IsInitiator(f, D!Registered(g)) <=> ~D!IsInitiator(g, D!Registered(f))
  BY DEF D!IsInitiator, D!Registered

(* The PeerConfigs of every node are those cmd_up makes from the flags of the
   nodes, whose keys differ, where no two of them run with --relay. *)
FromDiscovery(flags) ==
    /\ \A n \in Node : flags[n].rank \in Nat
    /\ \A n, p \in Node : n # p =>
          /\ flags[n].rank # flags[p].rank
          /\ flags[n].relay = None \/ flags[p].relay = None
          /\ Config[n][p] \in {None, D!PeerConfigFor(flags[n], D!Registered(flags[p]))}

(* The role override and the comparison of keys make one side wait. *)
LEMMA DiscoveryOneSided ==
    ASSUME NEW flags, FromDiscovery(flags)
    PROVE  OneSided
<1> SUFFICES ASSUME NEW n \in Node, NEW p \in Node, n # p,
                    Config[n][p] # None, Config[p][n] # None,
                    Config[n][p].is_initiator, Config[p][n].is_initiator
             PROVE  FALSE
  BY DEF OneSided
<1> DEFINE f == flags[n]
           g == flags[p]
<1>1. /\ f.rank \in Nat /\ g.rank \in Nat /\ f.rank # g.rank
      /\ f.relay = None \/ g.relay = None
      /\ Config[n][p] = D!PeerConfigFor(f, D!Registered(g))
      /\ Config[p][n] = D!PeerConfigFor(g, D!Registered(f))
  BY DEF FromDiscovery
<1> HIDE DEF f, g
<1>2. /\ D!IsInitiator(f, D!Registered(g))
      /\ D!IsInitiator(g, D!Registered(f))
  BY <1>1 DEF D!PeerConfigFor
<1>3. D!IsInitiator(f, D!Registered(g)) <=> ~D!IsInitiator(g, D!Registered(f))
  BY <1>1, OneInitiator
<1> QED
  BY <1>2, <1>3

(* Then at most one of the two ends waits as an initiator. *)
LEMMA OneSideFromRoles ==
    ASSUME OneSided
    PROVE  IInv /\ HandshakesOK => OneSideInitiates
<1> SUFFICES ASSUME IInv, HandshakesOK, NEW q \in Sessions, Reverse(q) \in Sessions,
                    IsInitiating(Session(q)), IsInitiating(Session(Reverse(q)))
             PROVE  FALSE
  BY DEF OneSideInitiates
<1>1. \A u \in Sessions : Config[u[1]][u[2]] # None
  BY DEF IInv, TablesOK, SessionsOK, Sessions
<1>2. q[1] \in Node /\ q[2] \in Node /\ q[1] # q[2]
  BY DEF Sessions, Known, IInv, TablesOK, SessionsOK
<1>3. /\ Config[q[1]][q[2]].is_initiator
      /\ Config[q[2]][q[1]].is_initiator
  BY DEF HandshakesOK, RolesKept, Reverse
<1>4. Config[q[2]][q[1]] # None
  BY <1>1 DEF Reverse
<1> QED
  BY <1>1, <1>2, <1>3, <1>4 DEF OneSided

(* In every execution of managers whose peers come from discovery, never do
   both ends of a link wait for the answer to a first INIT, each ignoring the
   other's: the roles that cmd_up gives out are the ones the managers play. *)
THEOREM OneSideWaits ==
    ASSUME NEW flags, FromDiscovery(flags)
    PROVE  Spec => []OneSideInitiates
<1>1. IInv /\ HandshakesOK => OneSideInitiates
  BY DiscoveryOneSided, OneSideFromRoles
<1> QED
  BY <1>1, Invariance, HandshakeInvariance, PTL
=============================================================================
