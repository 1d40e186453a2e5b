---------------------------- MODULE PromptProofs ----------------------------
(***************************************************************************)
(* Sessions where the network is prompt, for every mesh whose addresses    *)
(* tell its nodes apart: a Ready session stays Ready, none is stuck in     *)
(* Init, and an initiator that is not rekeying shares its key with its     *)
(* peer.  Losses, failed sends, restarts, relays and changes of a NAT      *)
(* mapping do not matter; a RESPONSE that is late does (the run            *)
(* slow_network), because handle_response has no way to tell it from the   *)
(* one it waits for until it has given up the state.                       *)
(*                                                                         *)
(* The argument is that of a single token.  An INIT is written when the    *)
(* retry timer of its Initiator is over, and the timer is not over while   *)
(* the INIT or its RESPONSE is under way, so at most one handshake message *)
(* exists per session that asks, and that session still waits for it.      *)
(* The first section is about such tokens and has no state; the second     *)
(* says what a step does to them, and the rest is one lemma per handler.   *)
(*                                                                         *)
(* The last sections count the INITs in one window of check_init_cookie,   *)
(* on top of that: who asks is then silent for longer than the window.     *)
(***************************************************************************)
EXTENDS AttributionProofs

(* The latency of a datagram, relayed or not, is below one time unit and the
   retry interval is not; nothing is delivered twice. *)
PromptNetwork ==
    /\ "network" \in Prompt /\ Budget.dup = 0
    /\ INIT_RETRY_INTERVAL # 0

(* What the argument needs of a session: the Initiator it waits for, if any,
   whether that one's next INIT is due, and the side of the key it holds. *)
DueNow(s) == IF IsInitiating(s) THEN InitDue(s) ELSE IsRekeying(s) /\ RetryDue(s)

View(s) ==
    [tag |-> s.state.tag,
     asks |-> {e \in Ephemeral : Awaits(s, e)},
     due |-> DueNow(s),
     holds |-> IF IsReady(s)
               THEN {<<s.state.transport.key, s.state.transport.side>>} ELSE {}]

Views == [q \in Sessions |-> View(Session(q))]

(* The handshake messages under way, and the session that asked for them. *)
Handshakes == {d \in InFlight : IsHandshake(Inner(d.msg))}

Carried(d) == Inner(d.msg)
Asker(d) ==
    IF Carried(d).type = "INIT"
    THEN <<Carried(d).from, Carried(d).to>>
    ELSE <<Carried(d).to, Carried(d).from>>

(* The session q was configured to ask. *)
Asks(q) == Config[q[1]][q[2]] # None /\ Config[q[1]][q[2]].is_initiator

-----------------------------------------------------------------------------
(* The invariant, over the sessions V, the running nodes U and the handshake
   messages H under way. *)

(* One message per session that asks. *)
OneToken(H) == \A d, f \in H : Asker(d) = Asker(f) => d = f

(* That session still waits for it, and asks no second time. *)
Awaited(V, U, H) ==
    \A d \in H :
        Asker(d)[1] \in U =>
            /\ Asker(d) \in DOMAIN V
            /\ Carried(d).eph \in V[Asker(d)].asks /\ ~V[Asker(d)].due

(* Only a running node has sessions, and none of them is stuck. *)
Unstuck(V, U) == \A q \in DOMAIN V : q[1] \in U /\ V[q].tag # "Init"

Tokens(V, U, H) == OneToken(H) /\ Awaited(V, U, H) /\ Unstuck(V, U)

(* Who answered holds the key of its answer while that is under way. *)
AnswerHeld(V, U, H) ==
    \A d \in H :
        (Carried(d).type = "RESPONSE" /\ Asker(d)[2] \in U) =>
            /\ Reverse(Asker(d)) \in DOMAIN V
            /\ V[Reverse(Asker(d))].holds = {<<Carried(d).key, "responder">>}

(* Who asks was configured to, and a key's sides are the roles of its ends. *)
Roles(V, H) ==
    /\ \A q \in DOMAIN V :
          /\ V[q].asks # {} => Asks(q)
          /\ \A k \in V[q].holds :
                \/ k[2] = "initiator" /\ Asks(q)
                \/ k[2] = "responder" /\ Asks(Reverse(q))
    /\ \A d \in H : Asks(Asker(d))

(* An initiator that waits for no answer shares its key with its peer. *)
KeysAgree(V) ==
    \A q \in DOMAIN V :
        (Asks(q) /\ V[q].asks = {} /\ Reverse(q) \in DOMAIN V) =>
            \A k \in V[q].holds, l \in V[Reverse(q)].holds : k[1] = l[1]

Agreement(V, U, H) == AnswerHeld(V, U, H) /\ Roles(V, H) /\ KeysAgree(V)

-----------------------------------------------------------------------------
(* What may happen to sessions and tokens. *)

(* Nothing but a timer or a nonce changes in a session, or a daemon ends. *)
Fewer(V, U, V2, U2) ==
    /\ U2 \subseteq U /\ DOMAIN V2 = {q \in DOMAIN V : q[1] \in U2}
    /\ \A q \in DOMAIN V2 :
          /\ V2[q].tag = V[q].tag /\ V2[q].asks = V[q].asks
          /\ V2[q].holds = V[q].holds

(* One session changes, or is new. *)
Changes(V, q, V2) ==
    /\ DOMAIN V2 = DOMAIN V \cup {q}
    /\ \A u \in DOMAIN V : u # q => V2[u] = V[u]

(* A session keeps asking for what it asked for. *)
LEMMA TokensFewer ==
  ASSUME NEW V, NEW U, NEW H, Tokens(V, U, H), NEW V2, NEW U2, NEW H2,
         Fewer(V, U, V2, U2), H2 \subseteq H,
         H2 = {} \/ \A q \in DOMAIN V2 : V2[q].due => V[q].due
  PROVE  Tokens(V2, U2, H2)
  BY DEF Fewer, Tokens, OneToken, Awaited, Unstuck

(* The same for the keys. *)
LEMMA AgreementFewer ==
  ASSUME NEW V, NEW U, NEW H, Tokens(V, U, H), Agreement(V, U, H),
         NEW V2, NEW U2, NEW H2, Fewer(V, U, V2, U2), H2 \subseteq H,
         \A d \in H : Carried(d).type = "RESPONSE" => Asker(d)[2] = Reverse(Asker(d))[1]
  PROVE  Agreement(V2, U2, H2)
  <1>1. AnswerHeld(V2, U2, H2)
    BY DEF Fewer, Agreement, AnswerHeld
  <1>2. Roles(V2, H2)
    BY DEF Fewer, Agreement, Roles
  <1>3. KeysAgree(V2)
    BY DEF Fewer, Agreement, KeysAgree
  <1> QED BY <1>1, <1>2, <1>3 DEF Agreement

(* A relay passes a message on. *)
LEMMA TokensHop ==
  ASSUME NEW V, NEW U, NEW H, Tokens(V, U, H), NEW d \in H, NEW x,
         Carried(x) = Carried(d), NEW H2, H2 \subseteq (H \ {d}) \cup {x}
  PROVE  /\ Tokens(V, U, H2)
         /\ Agreement(V, U, H) => Agreement(V, U, H2)
  <1>1. Asker(x) = Asker(d)
    BY DEF Asker
  <1>2. OneToken(H2)
    BY <1>1 DEF Tokens, OneToken
  <1>3. Awaited(V, U, H2)
    BY <1>1 DEF Tokens, Awaited
  <1>4. AnswerHeld(V, U, H) => AnswerHeld(V, U, H2)
    BY <1>1 DEF AnswerHeld
  <1>5. Roles(V, H) => Roles(V, H2)
    BY <1>1 DEF Roles
  <1> QED BY <1>2, <1>3, <1>4, <1>5 DEF Tokens, Agreement

(* A session asks: for the first time, or again when its timer is over. *)
LEMMA TokensAsk ==
  ASSUME NEW V, NEW U, NEW H, Tokens(V, U, H), NEW q \in DOMAIN V,
         V[q].asks = {} \/ V[q].due,
         NEW V2, Changes(V, q, V2), V2[q].tag # "Init", ~V2[q].due,
         NEW x, Asker(x) = q, Carried(x).eph \in V2[q].asks,
         NEW H2, H2 \subseteq H \cup {x}
  PROVE  Tokens(V2, U, H2)
  <1>1. q[1] \in U
    BY DEF Tokens, Unstuck
  <1>2. \A d \in H : Asker(d) # q
    BY <1>1 DEF Tokens, Awaited
  <1>3. OneToken(H2)
    BY <1>2 DEF Tokens, OneToken
  <1>4. Awaited(V2, U, H2)
    BY <1>2 DEF Tokens, Awaited, Changes
  <1>5. Unstuck(V2, U)
    BY <1>1 DEF Tokens, Unstuck, Changes
  <1> QED BY <1>3, <1>4, <1>5 DEF Tokens

(* The key it has meanwhile does not matter. *)
LEMMA AgreementAsk ==
  ASSUME NEW V, NEW U, NEW H, Agreement(V, U, H), NEW q \in DOMAIN V,
         NEW V2, Changes(V, q, V2), V2[q].holds = V[q].holds, Asks(q),
         NEW x, Asker(x) = q, Carried(x).type = "INIT", V2[q].asks # {},
         NEW H2, H2 \subseteq H \cup {x}
  PROVE  Agreement(V2, U, H2)
  <1>1. AnswerHeld(V2, U, H2)
    BY DEF Agreement, AnswerHeld, Changes
  <1>2. Roles(V2, H2)
    BY DEF Agreement, Roles, Changes
  <1>3. KeysAgree(V2)
    BY DEF Agreement, KeysAgree, Changes
  <1> QED BY <1>1, <1>2, <1>3 DEF Agreement

(* An INIT becomes its RESPONSE; the answering session asks for nothing new. *)
LEMMA TokensAnswer ==
  ASSUME NEW V, NEW U, NEW H, Tokens(V, U, H), NEW d \in H,
         NEW u \in DOMAIN V, NEW V2, Changes(V, u, V2),
         V2[u].tag # "Init", V2[u].asks = V[u].asks, V2[u].due => V[u].due,
         NEW x, Asker(x) = Asker(d), Carried(x).eph = Carried(d).eph,
         NEW H2, H2 \subseteq (H \ {d}) \cup {x}
  PROVE  Tokens(V2, U, H2)
  <1>1. OneToken(H2)
    BY DEF Tokens, OneToken
  <1>2. Awaited(V2, U, H2)
    BY DEF Tokens, Awaited, Changes
  <1>3. Unstuck(V2, U)
    BY DEF Tokens, Unstuck, Changes
  <1> QED BY <1>1, <1>2, <1>3 DEF Tokens

(* The answering session takes the key that the asking one will get. *)
LEMMA AgreementAnswer ==
  ASSUME NEW V, NEW U, NEW H, Tokens(V, U, H), Agreement(V, U, H),
         NEW d \in H, NEW u \in DOMAIN V, u = Reverse(Asker(d)),
         Asker(d) = Reverse(u), u # Reverse(u), ~Asks(u),
         \A f \in H : Reverse(Asker(f)) = u => Asker(f) = Reverse(u),
         \A v \in DOMAIN V : Reverse(v) = u => v = Reverse(u),
         NEW V2, Changes(V, u, V2), V2[u].asks = V[u].asks,
         NEW x, Asker(x) = Asker(d), Carried(x).type = "RESPONSE",
         V2[u].holds = {<<Carried(x).key, "responder">>},
         NEW H2, H2 \subseteq (H \ {d}) \cup {x}
  PROVE  Agreement(V2, U, H2)
  <1>1. AnswerHeld(V2, U, H2)
    <2> SUFFICES ASSUME NEW f \in H2, Carried(f).type = "RESPONSE", Asker(f)[2] \in U
                 PROVE  /\ Reverse(Asker(f)) \in DOMAIN V2
                        /\ V2[Reverse(Asker(f))].holds = {<<Carried(f).key, "responder">>}
      BY DEF AnswerHeld
    <2>1. CASE f = x
      BY <2>1 DEF Changes
    <2>2. CASE f # x
      <3>1. f \in H /\ f # d
        BY <2>2
      <3>2. Reverse(Asker(f)) # u
        BY <3>1 DEF Tokens, OneToken
      <3>3. /\ Reverse(Asker(f)) \in DOMAIN V
            /\ V[Reverse(Asker(f))].holds = {<<Carried(f).key, "responder">>}
        BY <3>1 DEF Agreement, AnswerHeld
      <3> QED BY <3>2, <3>3 DEF Changes
    <2> QED BY <2>1, <2>2
  <1>2. Roles(V2, H2)
    <2>1. Asks(Asker(d)) /\ DOMAIN V2 = DOMAIN V
      BY DEF Agreement, Roles, Changes
    <2>2. \A k \in V2[u].holds : k[2] = "responder" /\ Asks(Reverse(u))
      BY <2>1
    <2>3. V2[u].asks # {} => Asks(u)
      BY DEF Agreement, Roles
    <2>4. \A f \in H2 : Asks(Asker(f))
      BY <2>1 DEF Agreement, Roles
    <2> QED BY <2>1, <2>2, <2>3, <2>4 DEF Agreement, Roles, Changes
  <1>3. KeysAgree(V2)
    <2> SUFFICES ASSUME NEW v \in DOMAIN V2, Asks(v), V2[v].asks = {},
                        Reverse(v) \in DOMAIN V2,
                        NEW k \in V2[v].holds, NEW l \in V2[Reverse(v)].holds
                 PROVE  k[1] = l[1]
      BY DEF KeysAgree
    <2>1. v # u /\ v \in DOMAIN V /\ V2[v] = V[v]
      BY DEF Changes
    <2>2. CASE Reverse(v) = u
      <3>1. v = Asker(d) /\ v[1] \in U
        BY <2>1, <2>2 DEF Tokens, Unstuck
      <3>2. V[v].asks # {}
        BY <3>1 DEF Tokens, Awaited
      <3> QED BY <2>1, <3>2
    <2>3. CASE Reverse(v) # u
      <3>1. Reverse(v) \in DOMAIN V /\ V2[Reverse(v)] = V[Reverse(v)]
        BY <2>3 DEF Changes
      <3> QED BY <2>1, <3>1 DEF Agreement, KeysAgree
    <2> QED BY <2>2, <2>3
  <1> QED BY <1>1, <1>2, <1>3 DEF Agreement

(* A RESPONSE reaches the session that waits for it. *)
LEMMA TokensConsume ==
  ASSUME NEW V, NEW U, NEW H, Tokens(V, U, H), NEW d \in H,
         NEW q \in DOMAIN V, q = Asker(d), NEW V2, Changes(V, q, V2),
         V2[q].tag # "Init", NEW H2, H2 \subseteq H \ {d}
  PROVE  Tokens(V2, U, H2)
  <1>1. OneToken(H2)
    BY DEF Tokens, OneToken
  <1>2. \A f \in H2 : Asker(f) # q
    BY DEF Tokens, OneToken
  <1>3. Awaited(V2, U, H2)
    BY <1>2 DEF Tokens, Awaited, Changes
  <1>4. Unstuck(V2, U)
    BY DEF Tokens, Unstuck, Changes
  <1> QED BY <1>1, <1>3, <1>4 DEF Tokens

(* It takes the key that its peer still holds. *)
LEMMA AgreementConsume ==
  ASSUME NEW V, NEW U, NEW H, Tokens(V, U, H), Agreement(V, U, H), NEW d \in H,
         NEW q \in DOMAIN V, q = Asker(d), Carried(d).type = "RESPONSE",
         Reverse(q)[1] = q[2], q # Reverse(q), ~Asks(Reverse(q)),
         \A f \in H : Reverse(Asker(f)) = q => Asker(f) = Reverse(q),
         \A v \in DOMAIN V : Reverse(v) = q => v = Reverse(q),
         NEW V2, Changes(V, q, V2), V2[q].asks = {},
         V2[q].holds = {<<Carried(d).key, "initiator">>},
         NEW H2, H2 \subseteq H \ {d}
  PROVE  Agreement(V2, U, H2)
  <1>1. Asks(q)
    BY DEF Agreement, Roles
  <1>2. AnswerHeld(V2, U, H2)
    <2>1. \A f \in H : Reverse(Asker(f)) # q
      BY DEF Agreement, Roles
    <2> QED BY <2>1 DEF Agreement, AnswerHeld, Changes
  <1>3. Roles(V2, H2)
    BY <1>1 DEF Agreement, Roles, Changes
  <1>4. KeysAgree(V2)
    <2> SUFFICES ASSUME NEW v \in DOMAIN V2, Asks(v), V2[v].asks = {},
                        Reverse(v) \in DOMAIN V2,
                        NEW k \in V2[v].holds, NEW l \in V2[Reverse(v)].holds
                 PROVE  k[1] = l[1]
      BY DEF KeysAgree
    <2>1. CASE v = q
      <3>1. Reverse(q) \in DOMAIN V /\ V2[Reverse(q)] = V[Reverse(q)]
        BY <2>1 DEF Changes
      <3>2. q[2] \in U
        BY <3>1 DEF Tokens, Unstuck
      <3>3. V[Reverse(q)].holds = {<<Carried(d).key, "responder">>}
        BY <3>2 DEF Agreement, AnswerHeld
      <3> QED BY <2>1, <3>1, <3>3
    <2>2. CASE v # q
      <3>1. v \in DOMAIN V /\ V2[v] = V[v]
        BY <2>2 DEF Changes
      <3>2. Reverse(v) # q
        BY <3>1
      <3> QED BY <3>1, <3>2 DEF Agreement, KeysAgree, Changes
    <2> QED BY <2>1, <2>2
  <1> QED BY <1>2, <1>3, <1>4 DEF Agreement

(* A peer is added. *)
LEMMA TokensAdd ==
  ASSUME NEW V, NEW U, NEW H, Tokens(V, U, H), NEW q, q \notin DOMAIN V, q[1] \in U,
         NEW V2, Changes(V, q, V2), V2[q].tag # "Init"
  PROVE  Tokens(V2, U, H)
  <1>1. \A d \in H : Asker(d) # q
    BY DEF Tokens, Awaited
  <1>2. Awaited(V2, U, H)
    BY <1>1 DEF Tokens, Awaited, Changes
  <1>3. Unstuck(V2, U)
    BY DEF Tokens, Unstuck, Changes
  <1> QED BY <1>2, <1>3 DEF Tokens

(* It holds no key yet. *)
LEMMA AgreementAdd ==
  ASSUME NEW V, NEW U, NEW H, Agreement(V, U, H), NEW q, q \notin DOMAIN V,
         NEW V2, Changes(V, q, V2), V2[q].holds = {}, V2[q].asks # {} => Asks(q)
  PROVE  Agreement(V2, U, H)
  <1>1. AnswerHeld(V2, U, H)
    BY DEF Agreement, AnswerHeld, Changes
  <1>2. Roles(V2, H)
    BY DEF Agreement, Roles, Changes
  <1>3. KeysAgree(V2)
    BY DEF Agreement, KeysAgree, Changes
  <1> QED BY <1>1, <1>2, <1>3 DEF Agreement

(* A daemon starts when nothing from it or for it is under way. *)
LEMMA TokensStart ==
  ASSUME NEW V, NEW U, NEW H, Tokens(V, U, H), NEW n, n \notin U,
         \A d \in H : Asker(d)[1] # n /\ Asker(d)[2] # n
  PROVE  /\ Tokens(V, U \cup {n}, H)
         /\ Agreement(V, U, H) => Agreement(V, U \cup {n}, H)
  BY DEF Tokens, Awaited, Unstuck, Agreement, AnswerHeld

-----------------------------------------------------------------------------
(* The network carries no datagram of a handshake twice. *)
OneCopyEach ==
    /\ left.dup = 0
    /\ \A f \in Handshakes : net[f] = 1

TokensOK == Tokens(Views, up, Handshakes) /\ OneCopyEach
AgreementOK == Agreement(Views, up, Handshakes)

(* The invariant; the part about keys needs one initiator per link. *)
PromptOK == TokensOK /\ (OneSided => AgreementOK)

(* A step leaves a session Ready that is Ready, unless it ends it. *)
StillReady ==
    \A q \in DOMAIN Views :
        (q \in DOMAIN Views' /\ Views[q].tag = "Ready") => Views'[q].tag = "Ready"

(* Bags: what is left of a bag when one copy of d has been taken. *)
LEMMA CopiesTaken ==
  ASSUME NEW B, IsABag(B), NEW d \in BagToSet(B)
  PROVE  LET C == B (-) SetToBag({d}) IN
         /\ IsABag(C)
         /\ \A e : e \in BagToSet(C) <=> e \in BagToSet(B) /\ (e = d => B[d] > 1)
         /\ \A e \in BagToSet(C) : C[e] = IF e = d THEN B[e] - 1 ELSE B[e]
  <1> DEFINE C == B (-) SetToBag({d})
             f == [e \in DOMAIN B |-> IF e \in DOMAIN SetToBag({d})
                                       THEN B[e] - SetToBag({d})[e] ELSE B[e]]
  <1>1. C = [e \in {b \in DOMAIN f : f[b] > 0} |-> f[e]]
    BY DEF (-)
  <1>2. DOMAIN SetToBag({d}) = {d} /\ SetToBag({d})[d] = 1
    BY DEF SetToBag
  <1>3. \A e \in DOMAIN B : /\ B[e] \in Nat /\ B[e] > 0
                             /\ f[e] = IF e = d THEN B[e] - 1 ELSE B[e]
    BY <1>2 DEF IsABag
  <1>4. \A e : e \in DOMAIN C <=> e \in DOMAIN B /\ (e = d => B[d] > 1)
    <2> HIDE DEF C, f
    <2>1. DOMAIN f = DOMAIN B
      BY DEF f
    <2>2. \A e : e \in DOMAIN C <=> e \in DOMAIN f /\ f[e] > 0
      BY <1>1
    <2> QED BY <1>3, <2>1, <2>2
  <1>5. \A e \in DOMAIN C : C[e] = IF e = d THEN B[e] - 1 ELSE B[e]
    <2> HIDE DEF f
    <2>1. DOMAIN f = DOMAIN B
      BY DEF f
    <2> HIDE DEF C
    <2> QED BY <1>1, <1>3, <1>4, <2>1
  <1> QED BY <1>4, <1>5, BagDifference DEF BagToSet

(* Bags: a sum of a bag and a set has one copy more of what is in the set. *)
LEMMA CopiesAdded ==
  ASSUME NEW B, IsABag(B), NEW S
  PROVE  LET C == B (+) SetToBag(S) IN
         /\ IsABag(C) /\ BagToSet(C) = BagToSet(B) \cup S
         /\ \A e \in BagToSet(C) :
               C[e] = (IF e \in BagToSet(B) THEN B[e] ELSE 0) + (IF e \in S THEN 1 ELSE 0)
  <1>1. /\ IsABag(SetToBag(S)) /\ BagToSet(SetToBag(S)) = S
        /\ \A e \in S : SetToBag(S)[e] = 1
    BY BagOfSet DEF SetToBag
  <1>2. /\ IsABag(B (+) SetToBag(S))
        /\ BagToSet(B (+) SetToBag(S)) = BagToSet(B) \cup S
    BY <1>1, BagSum
  <1> DEFINE T == SetToBag(S)
  <1> HIDE DEF T
  <1>3. \A e \in BagToSet(B (+) T) :
           (B (+) T)[e] = (IF e \in BagToSet(B) THEN B[e] ELSE 0)
                          + (IF e \in S THEN 1 ELSE 0)
    BY <1>1 DEF T, (+), BagToSet, IsABag
  <1> QED BY <1>2, <1>3 DEF T

(* A send that may fail is a send of a set that may be empty. *)
LEMMA MaybeDelivered ==
  ASSUME NEW x, NEW ok
  PROVE  (IF ok THEN Delivered({x}) ELSE EmptyBag) = Delivered(IF ok THEN {x} ELSE {})
  <1>1. {d \in {} : \E n \in Node : addr[n] = d.dst} = {}
    OBVIOUS
  <1> QED BY <1>1 DEF Delivered, EmptyBag

(* What a send leaves in flight. *)
LEMMA SentOnce ==
  ASSUME NEW B, IsABag(B), BagToSet(B) \subseteq InFlight, left.dup = 0, left'.dup = left.dup,
         \A f \in BagToSet(B) : IsHandshake(Inner(f.msg)) => B[f] = 1,
         NEW S, \A x \in S : IsHandshake(Inner(x.msg)) => x \notin BagToSet(B),
         net' = B (+) Delivered(S)
  PROVE  /\ OneCopyEach'
         /\ Handshakes' \subseteq {f \in BagToSet(B) : IsHandshake(Inner(f.msg))}
                                  \cup {x \in S : IsHandshake(Inner(x.msg))}
  <1> DEFINE T == {d \in S : \E n \in Node : addr[n] = d.dst}
  <1>1. net' = B (+) SetToBag(T) /\ T \subseteq S
    BY DEF Delivered
  <1> HIDE DEF T
  <1>2. /\ BagToSet(net') = BagToSet(B) \cup T
        /\ \A e \in BagToSet(net') :
              net'[e] = (IF e \in BagToSet(B) THEN B[e] ELSE 0) + (IF e \in T THEN 1 ELSE 0)
    BY <1>1, CopiesAdded
  <1>3. Handshakes' = {f \in BagToSet(net') : IsHandshake(Inner(f.msg))}
    BY DEF Handshakes, InFlight
  <1>4. \A f \in Handshakes' : net'[f] = 1
    BY <1>1, <1>2, <1>3
  <1> QED BY <1>1, <1>2, <1>3, <1>4 DEF OneCopyEach

(* A datagram is received, and perhaps something is sent. *)
LEMMA TakenOnce ==
  ASSUME IInv, OneCopyEach, NEW d \in InFlight, left'.dup = left.dup, NEW S,
         \A x \in S : IsHandshake(Inner(x.msg)) => x \notin Handshakes \ {d},
         net' = Consume(d) \/ net' = Consume(d) (+) Delivered(S)
  PROVE  /\ OneCopyEach'
         /\ Handshakes' \subseteq (Handshakes \ {d}) \cup {x \in S : IsHandshake(Inner(x.msg))}
  <1>1. PICK C : C = Consume(d)
    OBVIOUS
  <1>2. /\ IsABag(C)
        /\ \A e : e \in BagToSet(C) <=> e \in InFlight /\ (e = d => net[d] > 1)
        /\ \A e \in BagToSet(C) : C[e] = IF e = d THEN net[e] - 1 ELSE net[e]
    BY <1>1, CopiesTaken DEF IInv, WorldOK, InFlight, Consume
  <1>3. \A f \in InFlight : IsHandshake(Inner(f.msg)) => f \in Handshakes /\ net[f] = 1
    BY DEF OneCopyEach, Handshakes
  <1>4. \A f \in BagToSet(C) : IsHandshake(Inner(f.msg)) =>
           f \in Handshakes \ {d} /\ C[f] = 1
    BY <1>2, <1>3
  <1>5. CASE net' = C
    <2>1. Handshakes' = {f \in BagToSet(C) : IsHandshake(Inner(f.msg))}
      BY <1>5 DEF Handshakes, InFlight
    <2> QED BY <1>4, <1>5, <2>1 DEF OneCopyEach
  <1>6. CASE net' = C (+) Delivered(S)
    <2>1. left.dup = 0 /\ BagToSet(C) \subseteq InFlight
      BY <1>2 DEF OneCopyEach
    <2>2. \A x \in S : IsHandshake(Inner(x.msg)) => x \notin BagToSet(C)
      BY <1>4
    <2>3. /\ OneCopyEach'
          /\ Handshakes' \subseteq {f \in BagToSet(C) : IsHandshake(Inner(f.msg))}
                                   \cup {x \in S : IsHandshake(Inner(x.msg))}
      BY <1>2, <1>4, <1>6, <2>1, <2>2, SentOnce
    <2> QED BY <1>4, <2>3
  <1> QED BY <1>1, <1>5, <1>6

(* Something is sent that is not a handshake message under way. *)
LEMMA AddedOnce ==
  ASSUME IInv, OneCopyEach, left'.dup = left.dup, NEW S,
         \A x \in S : IsHandshake(Inner(x.msg)) => x \notin Handshakes,
         net' = net (+) Delivered(S)
  PROVE  /\ OneCopyEach'
         /\ Handshakes' \subseteq Handshakes \cup {x \in S : IsHandshake(Inner(x.msg))}
  <1>1. IsABag(net) /\ BagToSet(net) = InFlight
    BY DEF IInv, WorldOK, InFlight
  <1>2. /\ left.dup = 0
        /\ \A f \in InFlight : IsHandshake(Inner(f.msg)) => f \in Handshakes /\ net[f] = 1
    BY DEF OneCopyEach, Handshakes
  <1>3. \A x \in S : IsHandshake(Inner(x.msg)) => x \notin BagToSet(net)
    BY <1>1 DEF Handshakes
  <1>4. /\ OneCopyEach'
        /\ Handshakes' \subseteq {f \in BagToSet(net) : IsHandshake(Inner(f.msg))}
                                 \cup {x \in S : IsHandshake(Inner(x.msg))}
    BY <1>1, <1>2, <1>3, SentOnce
  <1> QED BY <1>1, <1>2, <1>4

-----------------------------------------------------------------------------
(* Views. *)

(* The views after a step. *)
LEMMA ViewsPrimed == Views' = [q \in Sessions' |-> View(Session(q)')]
  BY DEF Views, View, Awaits, DueNow, IsInitiating, IsRekeying, IsReady, InitDue, RetryDue

(* One session changes. *)
LEMMA ViewsOne ==
  ASSUME IInv, NEW n \in Node, NEW p \in Node, NEW s, s # Absent, Install(n, p, s)
  PROVE  Changes(Views, <<n, p>>, Views') /\ Views'[<<n, p>>] = View(s)
  <1> DEFINE q == <<n, p>>
  <1>1. /\ Sessions' = Sessions \cup {q}
        /\ Session(q)' = s
        /\ \A u \in Sessions : u # q => Session(u)' = Session(u)
    BY OneSession
  <1>2. Views' = [u \in Sessions' |-> View(Session(u)')]
    BY ViewsPrimed
  <1>3. DOMAIN Views' = DOMAIN Views \cup {q} /\ Views'[q] = View(s)
    BY <1>1, <1>2 DEF Views
  <1>4. \A u \in DOMAIN Views : u # q => Views'[u] = Views[u]
    BY <1>1, <1>2 DEF Views
  <1> QED BY <1>3, <1>4 DEF Changes

(* A session's view is that of its state, unless it is initiating. *)
LEMMA SameView ==
  ASSUME NEW s, NEW r, r.state = s.state,
         IsInitiating(s) => r.next_init_at = s.next_init_at
  PROVE  View(r) = View(s)
  BY DEF View, Awaits, DueNow, IsInitiating, IsRekeying, IsReady, InitDue, RetryDue

(* The view of a Responder. *)
LEMMA RespondingView ==
  ASSUME NEW s, IsResponding(s)
  PROVE  View(s) = [tag |-> "HandshakingAsResponder", asks |-> {}, due |-> FALSE, holds |-> {}]
  BY DEF View, Awaits, DueNow, IsInitiating, IsRekeying, IsReady, IsResponding

(* The view of an Initiator. *)
LEMMA InitiatingView ==
  ASSUME NEW s \in PeerSession, IsInitiating(s)
  PROVE  /\ View(s).tag = "HandshakingAsInitiator" /\ View(s).asks = {s.state.initiator}
         /\ View(s).due = InitDue(s) /\ View(s).holds = {}
  <1>1. s.state.initiator \in Ephemeral
    BY ReadyStates DEF InitiatorState
  <1> QED BY <1>1 DEF View, Awaits, DueNow, IsInitiating, IsRekeying, IsReady

(* The view of a Ready session that is not rekeying. *)
LEMMA ReadyView ==
  ASSUME NEW s, IsReady(s), ~IsRekeying(s)
  PROVE  View(s) = [tag |-> "Ready", asks |-> {}, due |-> FALSE,
                    holds |-> {<<s.state.transport.key, s.state.transport.side>>}]
  BY DEF View, Awaits, DueNow, IsInitiating, IsReady

(* The view of one that is. *)
LEMMA RekeyingView ==
  ASSUME NEW s \in PeerSession, IsRekeying(s)
  PROVE  /\ View(s).tag = "Ready" /\ View(s).asks = {s.state.rehandshake.initiator}
         /\ View(s).due = RetryDue(s)
         /\ View(s).holds = {<<s.state.transport.key, s.state.transport.side>>}
  <1>1. s.state.rehandshake.initiator \in Ephemeral /\ IsReady(s) /\ ~IsInitiating(s)
    BY ReadyStates DEF Rehandshake, IsRekeying, IsReady, IsInitiating
  <1> QED BY <1>1 DEF View, Awaits, DueNow, IsReady, RetryDue

(* A session is known by its view. *)
LEMMA KnownView ==
  ASSUME IInv, NEW n \in Node, NEW p \in Known(n)
  PROVE  /\ <<n, p>> \in DOMAIN Views /\ Views[<<n, p>>] = View(peers[n][p])
         /\ p \in Node /\ p # n /\ peers[n][p] \in PeerSession /\ peers[n][p] # Absent
         /\ Config[n][p] # None
  <1>1. p \in Node /\ p # n /\ Legal(peers[n][p])
    BY KnownSession DEF IInv
  <1>2. Config[n][p] # None
    BY DEF IInv, TablesOK, SessionsOK
  <1>3. <<n, p>> \in Sessions /\ Session(<<n, p>>) = peers[n][p]
    BY <1>1 DEF Sessions, Session
  <1> QED BY <1>1, <1>2, <1>3, NoneAssumption DEF Views, Legal

(* Reverse of a pair. *)
LEMMA ReversePairs ==
  ASSUME NEW u \in Node \X Node
  PROVE  /\ Reverse(u) \in Node \X Node /\ Reverse(Reverse(u)) = u
         /\ Reverse(u)[1] = u[2] /\ Reverse(u)[2] = u[1]
         /\ u[1] # u[2] => u # Reverse(u)
  BY DEF Reverse

(* The datagrams of handshakes and who asks in them are typed. *)
LEMMA HandshakeTypes ==
  ASSUME IInv, NEW d \in Handshakes
  PROVE  /\ Carried(d) \in InitMessage \cup ResponseMessage
         /\ Carried(d).eph \in Ephemeral /\ Asker(d) \in Node \X Node
         /\ d \in InFlight
         /\ d.msg.type # "RELAY" => IsHandshake(d.msg) /\ Carried(d) = d.msg
         /\ d.msg.type = "RELAY" => IsHandshake(d.msg.inner) /\ Carried(d) = d.msg.inner
  <1>1. d \in InFlight /\ IsHandshake(Carried(d))
    BY DEF Handshakes, Carried
  <1>2. Inner(d.msg) \in Messages
    BY <1>1, InnerInFlight
  <1>3. Carried(d) \in Message
    BY <1>2, KeysTyped DEF Typed, Carried
  <1>4. Carried(d) \in InitMessage \cup ResponseMessage
    BY <1>1, <1>3, MessageTypes DEF IsHandshake
  <1>5. Carried(d).eph \in Ephemeral /\ Carried(d).from \in Node /\ Carried(d).to \in Node
    BY <1>4 DEF InitMessage, ResponseMessage
  <1>6. Asker(d) \in Node \X Node
    BY <1>5 DEF Asker
  <1> QED BY <1>1, <1>4, <1>5, <1>6 DEF Carried, Inner

-----------------------------------------------------------------------------
(* Steps that concern no handshake. *)

(* The part about keys is asked for only of one-sided meshes, which no step
   changes. *)
LEMMA FewerPrompt ==
  ASSUME PromptOK, Fewer(Views, up, Views', up'), OneCopyEach', Handshakes' \subseteq Handshakes,
         Handshakes' = {} \/ \A q \in DOMAIN Views' : Views'[q].due => Views[q].due
  PROVE  PromptOK' /\ StillReady
  <1>1. Tokens(Views', up', Handshakes')
    BY TokensFewer DEF PromptOK, TokensOK
  <1>2. OneSided => Agreement(Views', up', Handshakes')
    <2>1. \A d \in Handshakes : Asker(d)[2] = Reverse(Asker(d))[1]
      BY DEF Reverse
    <2> QED BY <2>1, AgreementFewer DEF PromptOK, TokensOK, AgreementOK
  <1>3. StillReady
    BY DEF Fewer, StillReady
  <1> QED BY <1>1, <1>2, <1>3 DEF PromptOK, TokensOK, AgreementOK

(* No session changes as far as handshakes are concerned. *)
LEMMA QuietPrompt ==
  ASSUME PromptOK, Views' = Views, up' = up, OneCopyEach', Handshakes' \subseteq Handshakes
  PROVE  PromptOK' /\ StillReady
  <1>1. Unstuck(Views, up)
    BY DEF PromptOK, TokensOK, Tokens
  <1>2. Fewer(Views, up, Views', up')
    BY <1>1 DEF Fewer, Unstuck
  <1> QED BY <1>2, FewerPrompt

(* The sessions stay. *)
LEMMA SameViews ==
  ASSUME peers' = peers
  PROVE  Views' = Views
  <1>1. Sessions' = Sessions /\ \A q \in Sessions : Session(q)' = Session(q)
    BY DEF Sessions, Session, Known
  <1> QED BY <1>1, ViewsPrimed DEF Views

(* One session changes in timers, counters and nonces. *)
LEMMA QuietViews ==
  ASSUME IInv, NEW n \in Node, NEW p \in Known(n), NEW r, r # Absent, Install(n, p, r),
         View(r) = View(peers[n][p])
  PROVE  Views' = Views
  <1> DEFINE q == <<n, p>>
  <1>1. q \in DOMAIN Views /\ Views[q] = View(peers[n][p]) /\ p \in Node
    BY KnownView
  <1>2. Changes(Views, q, Views') /\ Views'[q] = View(r)
    BY <1>1, ViewsOne
  <1>3. DOMAIN Views' = DOMAIN Views /\ \A u \in DOMAIN Views : Views'[u] = Views[u]
    BY <1>1, <1>2 DEF Changes
  <1>4. Views' = [u \in DOMAIN Views' |-> Views'[u]] /\ Views = [u \in DOMAIN Views |-> Views[u]]
    BY ViewsPrimed DEF Views
  <1> QED BY <1>3, <1>4

(* The end of a daemon. *)
LEMMA DownPrompt ==
  ASSUME IInv, PromptOK, NEW n \in Node, Down(n), OneCopyEach', Handshakes' \subseteq Handshakes
  PROVE  PromptOK' /\ StillReady
  <1>1. \A u \in Node \X Node :
           IF u[1] = n THEN peers'[u[1]][u[2]] = Absent
           ELSE peers'[u[1]][u[2]] = peers[u[1]][u[2]]
    BY DEF IInv, TablesOK, Down
  <1>2. \A u : /\ u \in Sessions <=> u \in Node \X Node /\ peers[u[1]][u[2]] # Absent
               /\ u \in Sessions' <=> u \in Node \X Node /\ peers'[u[1]][u[2]] # Absent
    BY DEF Sessions, Known
  <1>3. /\ \A u : u \in Sessions' <=> u \in Sessions /\ u[1] # n
        /\ \A u \in Sessions' : Session(u)' = Session(u)
    BY <1>1, <1>2 DEF Session
  <1>4. DOMAIN Views' = Sessions' /\ \A u \in Sessions' : Views'[u] = Views[u]
    BY <1>3, ViewsPrimed DEF Views
  <1>5. Unstuck(Views, up) /\ DOMAIN Views = Sessions /\ up' = up \ {n}
    BY DEF PromptOK, TokensOK, Tokens, Views, Down
  <1>6. Fewer(Views, up, Views', up')
    BY <1>3, <1>4, <1>5 DEF Fewer, Unstuck
  <1> QED BY <1>3, <1>4, <1>6, FewerPrompt

(* A datagram goes, and no session changes. *)
LEMMA GonePrompt ==
  ASSUME IInv, PromptOK, NEW d \in InFlight, net' = Consume(d), left'.dup = left.dup
  PROVE  OneCopyEach' /\ Handshakes' \subseteq Handshakes
  <1>1. OneCopyEach /\ \A x \in {} : IsHandshake(Inner(x.msg)) => x \notin Handshakes \ {d}
    BY DEF PromptOK, TokensOK
  <1>2. {x \in {} : IsHandshake(Inner(x.msg))} = {}
    OBVIOUS
  <1> QED BY <1>1, <1>2, TakenOnce

(* A send that fails leaves the budget of duplications alone. *)
LEMMA ChargedDup ==
  ASSUME IInv, NEW ok, ChargeError(ok)
  PROVE  left'.dup = left.dup
  <1> DEFINE rest == left.errors - 1
  <1>1. left \in Budgets
    BY DEF IInv, WorldOK
  <1>2. left' = left \/ left' = [left EXCEPT !.errors = rest]
    BY DEF ChargeError
  <1> HIDE DEF rest
  <1>3. [left EXCEPT !.errors = rest].dup = left.dup
    BY <1>1 DEF Budgets
  <1> QED BY <1>2, <1>3

-----------------------------------------------------------------------------
(* INITs. *)

(* A session that answers asks for what it asked for, and has the new key. *)
LEMMA AnswerView ==
  ASSUME NEW s \in PeerSession, IsReady(s) \/ IsResponding(s), NEW t \in Transport,
         NEW r, r = IF IsReady(s) THEN RekeyAsResponder(s, t) ELSE BecomeReady(s, t)
  PROVE  /\ View(r).tag = "Ready" /\ View(r).asks = View(s).asks
         /\ View(r).due => View(s).due
         /\ View(r).holds = {<<t.key, t.side>>}
  <1>1. CASE IsReady(s)
    <2> DEFINE ready == [s.state EXCEPT !.transport = t]
    <2>1. r = [s EXCEPT !.state = ready, !.last_handshake_at = 0, !.stale = FALSE]
      BY <1>1 DEF RekeyAsResponder
    <2>2. s.state \in ReadyState
      BY <1>1, ReadyStates
    <2>3. /\ ready.tag = "Ready" /\ ready.transport = t
          /\ ready.rehandshake = s.state.rehandshake
      BY <2>2 DEF ReadyState
    <2> HIDE DEF ready
    <2>4. r.state = ready
      BY <2>1 DEF PeerSession
    <2> QED BY <1>1, <2>3, <2>4 DEF View, Awaits, DueNow, IsReady, IsRekeying, IsInitiating, RetryDue
  <1>2. CASE ~IsReady(s)
    <2> DEFINE ready == Established(t)
    <2>1. r = [s EXCEPT !.state = ready, !.last_handshake_at = 0, !.last_rx_at = 0]
      BY <1>2 DEF BecomeReady
    <2>2. ready.tag = "Ready" /\ ready.transport = t /\ ready.rehandshake = None
      BY DEF Established
    <2> HIDE DEF ready
    <2>3. r.state = ready
      BY <2>1 DEF PeerSession
    <2>4. IsReady(r) /\ ~IsRekeying(r) /\ r.state.transport = t
      BY <2>2, <2>3 DEF IsReady, IsRekeying
    <2>5. View(s).asks = {}
      BY <1>2, RespondingView
    <2> QED BY <2>4, <2>5, ReadyView
  <1> QED BY <1>1, <1>2

(* The RESPONSE that is sent is new, and answers whom the INIT asked for. *)
LEMMA AnswerNew ==
  ASSUME IInv, PromptOK, NEW d \in InFlight, NEW n \in Node, NEW p \in Node,
         Carried(d).type = "INIT", Carried(d).from = p, Carried(d).to = n, Unused # {},
         NEW x, Carried(x) = WriteResponse(n, Carried(d), Fresh)
  PROVE  /\ d \in Handshakes /\ Asker(d) = <<p, n>> /\ Asker(x) = Asker(d)
         /\ Carried(x).type = "RESPONSE" /\ Carried(x).eph = Carried(d).eph
         /\ Carried(x).key = Fresh /\ x \notin Handshakes
  <1>1. d \in Handshakes /\ Asker(d) = <<p, n>>
    BY DEF Handshakes, IsHandshake, Carried, Asker
  <1>2. /\ Carried(x).type = "RESPONSE" /\ Carried(x).eph = Carried(d).eph
        /\ Carried(x).key = Fresh /\ Carried(x).from = n /\ Carried(x).to = p
    BY DEF WriteResponse
  <1>3. Asker(x) = <<p, n>>
    BY <1>2 DEF Asker
  <1>4. x \notin InFlight
    <2>1. ASSUME x \in InFlight
          PROVE  FALSE
      <3>1. Carried(x) \in Messages
        BY <2>1, InnerInFlight DEF Carried
      <3> QED BY <1>2, <3>1, FreshUnused DEF IsResponse
    <2> QED BY <2>1
  <1> QED BY <1>1, <1>2, <1>3, <1>4 DEF Handshakes

(* The answer is sent. *)
LEMMA AnsweredPrompt ==
  ASSUME IInv, PromptOK, NEW n \in Node, NEW p \in Known(n),
         NEW s \in PeerSession, View(s) = View(peers[n][p]), IsReady(s) \/ IsResponding(s),
         NEW d \in InFlight, Carried(d).type = "INIT", Carried(d).from = p,
         Carried(d).to = n, Unused # {}, NEW x,
         Carried(x) = WriteResponse(n, Carried(d), Fresh),
         NEW t \in Transport, t.key = Fresh, t.side = "responder",
         NEW r, r # Absent, r = IF IsReady(s) THEN RekeyAsResponder(s, t) ELSE BecomeReady(s, t),
         Install(n, p, r), up' = up, left'.dup = left.dup,
         net' = Consume(d) (+) Delivered({x})
  PROVE  PromptOK' /\ StillReady
  <1> DEFINE u == <<n, p>>
  <1>1. /\ u \in DOMAIN Views /\ Views[u] = View(s) /\ p \in Node /\ p # n
        /\ Config[n][p] # None
    BY KnownView
  <1>2. /\ d \in Handshakes /\ Asker(d) = <<p, n>> /\ Asker(x) = Asker(d)
        /\ Carried(x).type = "RESPONSE" /\ Carried(x).eph = Carried(d).eph
        /\ Carried(x).key = Fresh /\ x \notin Handshakes
    BY <1>1, AnswerNew
  <1>3. /\ View(r).tag = "Ready" /\ View(r).asks = View(s).asks
        /\ View(r).due => View(s).due
        /\ View(r).holds = {<<Fresh, "responder">>}
    BY AnswerView
  <1>4. Changes(Views, u, Views') /\ Views'[u] = View(r)
    BY <1>1, ViewsOne
  <1>5. /\ OneCopyEach'
        /\ Handshakes' \subseteq (Handshakes \ {d}) \cup {x}
    BY <1>2, TakenOnce DEF PromptOK, TokensOK
  <1>6. Tokens(Views', up', Handshakes')
    <2>1. Tokens(Views, up, Handshakes)
      BY DEF PromptOK, TokensOK
    <2> HIDE DEF u
    <2> QED BY <1>1, <1>2, <1>3, <1>4, <1>5, <2>1, TokensAnswer
  <1>7. ASSUME OneSided
        PROVE  Agreement(Views', up', Handshakes')
    <2>1. Tokens(Views, up, Handshakes) /\ Agreement(Views, up, Handshakes)
      BY <1>7 DEF PromptOK, TokensOK, AgreementOK
    <2>2. u = Reverse(Asker(d)) /\ Asker(d) = Reverse(u) /\ u # Reverse(u)
      BY <1>1, <1>2 DEF Reverse
    <2>3. Asks(Asker(d))
      BY <1>2, <2>1 DEF Agreement, Roles
    <2>4. ~Asks(u)
      BY <1>1, <1>2, <1>7, <2>3 DEF Asks, OneSided
    <2>5. /\ \A f \in Handshakes : Reverse(Asker(f)) = u => Asker(f) = Reverse(u)
          /\ \A v \in DOMAIN Views : Reverse(v) = u => v = Reverse(u)
      BY HandshakeTypes, ReversePairs DEF Views, Sessions
    <2> HIDE DEF u
    <2> QED BY <1>1, <1>2, <1>3, <1>4, <1>5, <2>1, <2>2, <2>4, <2>5, AgreementAnswer
  <1>8. StillReady
    BY <1>3, <1>4 DEF Changes, StillReady
  <1> QED BY <1>5, <1>6, <1>7, <1>8 DEF PromptOK, TokensOK, AgreementOK

(* handle_init and handle_init_via_relay: answered, or of no effect. *)
LEMMA AnswerPrompt ==
  ASSUME IInv, PromptOK, NEW n \in Node, NEW p \in Known(n),
         NEW s, LegalHeard(s), View(s) = View(peers[n][p]),
         NEW d \in InFlight, NEW m \in InitMessage, m = Carried(d), m.from = p,
         NEW relayed \in BOOLEAN, AnswerInit(n, p, s, d, m, relayed), up' = up
  PROVE  PromptOK' /\ StillReady
  <1> DEFINE answers == IsResponding(s) \/ (IsReady(s) /\ ~relayed)
             accepts == /\ ConsumesInit(n, m, age[m.eph])
                        /\ IsResponding(s) => ~s.state.spent
             t == NewTransport(Fresh, "responder", m.from)
             response == WriteResponse(n, m, Fresh)
             reply == [src |-> addr[n], dst |-> d.src,
                       msg |-> IF relayed
                               THEN [type |-> "RELAY", from |-> n, dest |-> p,
                                     inner |-> response]
                               ELSE response]
             spent == [s EXCEPT !.state.spent = TRUE]
             unspent == [s EXCEPT !.state = FreshResponder]
  <1>1. s \in PeerSession /\ s # Absent
    BY NoneAssumption DEF LegalHeard, Legal
  <1>2. ASSUME IsResponding(s)
        PROVE  \A r \in {spent, unspent} : r # Absent /\ View(r) = View(s)
    <2> DEFINE state == [s.state EXCEPT !.spent = TRUE]
    <2>1. s.state \in ResponderState
      BY <1>1, <1>2, ReadyStates
    <2>2. state.tag = "HandshakingAsResponder"
      BY <2>1 DEF ResponderState
    <2>3. spent = [s EXCEPT !.state = state]
      OBVIOUS
    <2> HIDE DEF state
    <2>4. spent.state = state /\ unspent.state = FreshResponder
      BY <1>1, <2>3 DEF PeerSession
    <2>5. Legal(spent) /\ Legal(unspent)
      BY <1>1, <1>2, ResponderLegal DEF LegalHeard, IsReady, IsResponding
    <2> HIDE DEF spent, unspent
    <2>6. IsResponding(spent) /\ IsResponding(unspent)
      BY <2>2, <2>4 DEF IsResponding, FreshResponder
    <2> QED BY <1>2, <2>5, <2>6, RespondingView, NoneAssumption DEF Legal
  <1>3. ASSUME NEW r \in {s, spent, unspent}, Install(n, p, r), r # s => IsResponding(s),
               net' = Consume(d), left'.dup = left.dup
        PROVE  PromptOK' /\ StillReady
    <2>1. r # Absent /\ View(r) = View(peers[n][p])
      BY <1>1, <1>2, <1>3
    <2>2. Views' = Views
      BY <1>3, <2>1, QuietViews
    <2> QED BY <1>3, <2>2, GonePrompt, QuietPrompt
  <1>4. CASE ~(answers /\ accepts)
    <2>1. /\ net' = Consume(d) /\ left' = left
          /\ Install(n, p, IF IsResponding(s) THEN unspent ELSE s)
      BY <1>4 DEF AnswerInit
    <2> HIDE DEF spent, unspent
    <2> QED BY <1>3, <2>1
  <1>5. CASE answers /\ accepts
    <2> DEFINE session(ok) == CASE IsReady(s) /\ ok -> RekeyAsResponder(s, t)
                                [] IsReady(s) /\ ~ok -> s
                                [] ~IsReady(s) /\ ok -> BecomeReady(s, t)
                                [] OTHER -> spent
    <2>1. /\ Unused # {}
          /\ \E ok \in SendOutcomes :
                /\ net' = Consume(d) (+) (IF ok THEN Delivered({reply}) ELSE EmptyBag)
                /\ ChargeError(ok)
                /\ Install(n, p, session(ok))
      BY <1>5 DEF AnswerInit
    <2>2. PICK ok \in SendOutcomes :
                /\ net' = Consume(d) (+) (IF ok THEN Delivered({reply}) ELSE EmptyBag)
                /\ ChargeError(ok)
                /\ Install(n, p, session(ok))
      BY <2>1
    <2>3. left'.dup = left.dup
      BY <2>2, ChargedDup
    <2>4. CASE ~ok
      <3>1. session(ok) = IF IsReady(s) THEN s ELSE spent
        BY <2>4
      <3> HIDE DEF session, spent, reply
      <3>2. Install(n, p, IF IsReady(s) THEN s ELSE spent)
        BY <2>2, <3>1
      <3>3. net' = Consume(d) (+) Delivered({})
        BY <2>2, <2>4, MaybeDelivered
      <3>4. PICK r \in {s, spent} : r # Absent /\ View(r) = View(s) /\ Install(n, p, r)
        BY <1>1, <1>2, <1>5, <3>2
      <3>5. Views' = Views
        BY <3>4, QuietViews
      <3>6. OneCopyEach' /\ Handshakes' \subseteq Handshakes
        <4>1. OneCopyEach /\ \A x \in {} : IsHandshake(Inner(x.msg)) => x \notin Handshakes \ {d}
          BY DEF PromptOK, TokensOK
        <4>2. {x \in {} : IsHandshake(Inner(x.msg))} = {}
          OBVIOUS
        <4> QED BY <2>3, <3>3, <4>1, <4>2, TakenOnce
      <3> QED BY <3>5, <3>6, QuietPrompt
    <2>5. CASE ok
      <3> DEFINE r == IF IsReady(s) THEN RekeyAsResponder(s, t) ELSE BecomeReady(s, t)
      <3>1. Install(n, p, r)
        BY <2>2, <2>5
      <3>2. t \in Transport /\ t.key = Fresh /\ t.side = "responder"
        BY <2>1, FreshOK DEF NewTransport, Transport, Side, InitMessage
      <3>3. r # Absent
        <4> HIDE DEF t
        <4>1. Legal(r)
          BY <1>1, <3>2, RekeyAsResponderLegal, BecomeReadyLegal
        <4> QED BY <4>1, NoneAssumption DEF Legal
      <3>4. /\ Carried(reply) = WriteResponse(n, m, Fresh)
            /\ net' = Consume(d) (+) Delivered({reply})
        BY <2>2, <2>5 DEF Carried, Inner, WriteResponse
      <3>5. m.type = "INIT" /\ m.to = n
        BY <1>5 DEF InitMessage, ConsumesInit
      <3>6. IsReady(s) \/ IsResponding(s)
        BY <1>5
      <3>7. r = IF IsReady(s) THEN RekeyAsResponder(s, t) ELSE BecomeReady(s, t)
        OBVIOUS
      <3> HIDE DEF reply, t, r
      <3> QED BY <1>1, <2>1, <2>3, <3>1, <3>2, <3>3, <3>4, <3>5, <3>6, <3>7, AnsweredPrompt
    <2> QED BY <2>4, <2>5
  <1> QED BY <1>4, <1>5

(* A datagram that is counted. *)
LEMMA HeardView ==
  ASSUME IInv, NEW n \in Node, NEW p \in Known(n), NEW src \in Addr
  PROVE  /\ LegalHeard(Heard(n, p, src)) /\ LegalHeard(HeardRelayed(n, p))
         /\ LegalHeard(CountInit(Heard(n, p, src)))
         /\ View(Heard(n, p, src)) = View(peers[n][p])
         /\ View(HeardRelayed(n, p)) = View(peers[n][p])
         /\ View(CountInit(Heard(n, p, src))) = View(peers[n][p])
  <1> DEFINE s == peers[n][p]
             h == Heard(n, p, src)
             count == IF h.init_rx_window_start >= RATE_WINDOW
                      THEN 1 ELSE h.init_rx_count + 1
             start == IF h.init_rx_window_start >= RATE_WINDOW
                      THEN 0 ELSE h.init_rx_window_start
             c == [h EXCEPT !.init_rx_count = count, !.init_rx_window_start = start]
  <1>1. /\ LegalHeard(h) /\ h.state = s.state
        /\ LegalHeard(HeardRelayed(n, p)) /\ HeardRelayed(n, p).state = s.state
    BY HeardState
  <1>2. s \in PeerSession
    BY KnownView
  <1>3. /\ h.next_init_at = s.next_init_at
        /\ HeardRelayed(n, p).next_init_at = s.next_init_at
    BY <1>2 DEF Heard, HeardRelayed, PeerSession
  <1>4. CountInit(h) = c
    BY DEF CountInit
  <1> HIDE DEF s, h, count, start
  <1>5. LegalHeard(CountInit(h)) /\ CountInit(h).state = h.state
    BY <1>1, CountInitLegal
  <1>6. c.next_init_at = h.next_init_at
    BY <1>1 DEF LegalHeard, Legal, PeerSession
  <1> QED BY <1>1, <1>3, <1>4, <1>5, <1>6, SameView DEF h, s

(* An INIT from the address of its sender. *)
LEMMA ReceiveInitPrompt ==
  ASSUME IInv, AttributionOK, AddressesIdentify, PromptOK,
         NEW n \in Node, NEW d \in InFlight, ReceiveInit(n, d)
  PROVE  PromptOK' /\ StillReady
  <1> DEFINE p == Sender(n, d.src, d.msg)
             s == CountInit(Heard(n, p, d.src))
             m == d.msg
  <1>1. /\ p \in Known(n) /\ d.src \in Addr /\ m.from = p /\ m \in InitMessage
        /\ m = Carried(d)
    <2>1. Arrives(n, d) /\ d.msg.type = "INIT" /\ p # None
      BY DEF ReceiveInit
    <2> HIDE DEF p
    <2>2. p = Sender(n, d.src, d.msg)
      BY DEF p
    <2>3. d.msg \in InitMessage /\ IsHandshake(d.msg)
      BY <2>1, DatagramTypes DEF IInv, IsHandshake
    <2> QED BY <2>1, <2>2, <2>3, SenderTrue DEF Carried, Inner
  <1>2. LegalHeard(s) /\ View(s) = View(peers[n][p])
    <2> HIDE DEF p
    <2> QED BY <1>1, HeardView
  <1>3. CASE OverLimit(s)
    <2>1. Down(n) /\ net' = Consume(d) /\ left' = left
      BY <1>3 DEF ReceiveInit
    <2> QED BY <2>1, GonePrompt, DownPrompt
  <1>4. CASE ~OverLimit(s)
    <2>1. AnswerInit(n, p, s, d, m, FALSE) /\ up' = up
      BY <1>4 DEF ReceiveInit, world
    <2> HIDE DEF s, p, m
    <2> QED BY <1>1, <1>2, <2>1, AnswerPrompt
  <1> QED BY <1>3, <1>4

(* An INIT inside a RELAY. *)
LEMMA ReceiveRelayedInitPrompt ==
  ASSUME IInv, AttributionOK, PromptOK, NEW n \in Node, NEW d \in InFlight,
         ReceiveRelayedInit(n, d)
  PROVE  PromptOK' /\ StillReady
  <1> DEFINE p == OriginalSender(n, d)
             h == HeardRelayed(n, p)
             m == d.msg.inner
  <1>1. /\ p \in Known(n) /\ m \in InitMessage /\ m.from = p
        /\ m = Carried(d) /\ up' = up
    <2>1. d.msg.type = "RELAY" /\ p = d.msg.from /\ m.type = "INIT" /\ p \in Known(n)
      BY DEF ReceiveRelayedInit, ArrivesRelayed, OriginalSender
    <2>2. m \in InitMessage
      BY <2>1, DatagramTypes, InnerTypes DEF IInv
    <2>3. m.from = p
      BY <2>1 DEF AttributionOK, TrueToAddress, IsHandshake
    <2> QED BY <2>1, <2>2, <2>3 DEF ReceiveRelayedInit, world, Carried, Inner
  <1>2. LegalHeard(h) /\ View(h) = View(peers[n][p])
    <2>1. Unspecified \in Addr
      BY ConfigAssumption
    <2> HIDE DEF p
    <2> QED BY <1>1, <2>1, HeardView
  <1>3. AnswerInit(n, p, h, d, m, TRUE)
    BY DEF ReceiveRelayedInit
  <1> HIDE DEF h, p, m
  <1> QED BY <1>1, <1>2, <1>3, AnswerPrompt

-----------------------------------------------------------------------------
(* RESPONSEs. *)

(* Whom a RESPONSE names is who gets it, and the peer heard is its author. *)
LEMMA ResponseArrives ==
  ASSUME IInv, AttributionOK, AddressesIdentify,
         NEW n \in Node, NEW d \in InFlight,
         ReceiveResponse(n, d) \/ ReceiveRelayedResponse(n, d)
  PROVE  \E p \in Known(n), h \in PeerSession :
           /\ LegalHeard(h) /\ View(h) = View(peers[n][p])
           /\ d.src \in Addr /\ h \in {Heard(n, p, d.src), HeardRelayed(n, p)}
           /\ Carried(d) \in ResponseMessage /\ Carried(d).from = p /\ Carried(d).to = n
           /\ Install(n, p, HandleResponse(h, Carried(d)))
  <1> d.src \in Addr
    BY DatagramTypes DEF IInv
  <1>1. CASE ReceiveResponse(n, d)
    <2>1. d.msg \in ResponseMessage /\ IsHandshake(d.msg) /\ Carried(d) = d.msg
      BY <1>1, DatagramTypes DEF ReceiveResponse, IInv, IsHandshake, Carried, Inner
    <2>2. PICK p : p = Sender(n, d.src, d.msg)
      OBVIOUS
    <2>3. /\ Arrives(n, d) /\ d.msg.type # "RELAY" /\ p # None
          /\ Install(n, p, HandleResponse(Heard(n, p, d.src), d.msg))
      BY <1>1, <2>2 DEF ReceiveResponse
    <2>4. p \in Known(n) /\ d.src \in Addr /\ d.msg.from = p
      BY <2>1, <2>2, <2>3, SenderTrue
    <2>5. d.msg.to = n
      <3>1. d.msg.to \in Node \ Roaming /\ addr[n] = HomeAddr[d.msg.to]
        <4>1. d.msg.to \in Node
          BY <2>1 DEF ResponseMessage
        <4> QED BY <2>1, <2>3, <4>1 DEF AttributionOK, TrueToAddress, Arrives
      <3> QED BY <3>1 DEF AttributionOK, AddressesOK
    <2>6. LegalHeard(Heard(n, p, d.src)) /\ View(Heard(n, p, d.src)) = View(peers[n][p])
      BY <2>4, HeardView
    <2> QED BY <2>1, <2>3, <2>4, <2>5, <2>6 DEF LegalHeard, Legal
  <1>2. CASE ReceiveRelayedResponse(n, d)
    <2>1. /\ d.msg.inner \in ResponseMessage /\ IsHandshake(d.msg.inner)
          /\ Carried(d) = d.msg.inner /\ d.msg.type = "RELAY" /\ d.msg.dest = n
      BY <1>2, DatagramTypes, InnerTypes
         DEF ReceiveRelayedResponse, ArrivesRelayed, IInv, IsHandshake, Carried, Inner
    <2>2. PICK p : p = d.msg.from
      OBVIOUS
    <2>3. /\ p \in Known(n)
          /\ Install(n, p, HandleResponse(HeardRelayed(n, p), d.msg.inner))
      BY <1>2, <2>2 DEF ReceiveRelayedResponse, ArrivesRelayed, OriginalSender
    <2>4. d.msg.inner.from = p /\ d.msg.inner.to = n
      BY <2>1, <2>2 DEF AttributionOK, TrueToAddress
    <2>5. LegalHeard(HeardRelayed(n, p)) /\ View(HeardRelayed(n, p)) = View(peers[n][p])
      BY <2>3, HeardView, ConfigAssumption
    <2> QED BY <2>1, <2>3, <2>4, <2>5 DEF LegalHeard, Legal
  <1> QED BY <1>1, <1>2

(* The session that waits for a RESPONSE is Ready with its key. *)
LEMMA AwaitedView ==
  ASSUME NEW h, LegalHeard(h), NEW m \in ResponseMessage, m.eph \in View(h).asks
  PROVE  LET r == HandleResponse(h, m) IN
         /\ r # Absent
         /\ View(r) = [tag |-> "Ready", asks |-> {}, due |-> FALSE,
                       holds |-> {<<m.key, "initiator">>}]
  <1> DEFINE r == HandleResponse(h, m)
  <1>1. h \in PeerSession /\ Awaits(h, m.eph)
    BY DEF LegalHeard, Legal, View
  <1>2. Legal(r) /\ r # Absent
    BY HandleResponseLegal, NoneAssumption DEF Legal
  <1>3. r.state = Established(Initiated(m))
    <2>1. r = [h EXCEPT !.state = Established(Initiated(m)), !.last_handshake_at = 0]
      BY <1>1 DEF Awaits, HandleResponse, FirstResponse, RekeyResponse,
              ConsumesResponse, IsInitiating, IsRekeying, IsReady
    <2> QED BY <1>1, <2>1 DEF PeerSession
  <1> HIDE DEF r
  <1>4. IsReady(r) /\ ~IsRekeying(r)
    BY <1>3 DEF Established, IsReady, IsRekeying
  <1>5. r.state.transport.key = m.key /\ r.state.transport.side = "initiator"
    BY <1>3 DEF Established, Initiated, NewTransport
  <1>6. View(r) = [tag |-> "Ready", asks |-> {}, due |-> FALSE,
                   holds |-> {<<r.state.transport.key, r.state.transport.side>>}]
    BY <1>4, ReadyView
  <1> QED BY <1>2, <1>5, <1>6 DEF r

(* handle_response: a RESPONSE that arrives is the one its session waits for. *)
LEMMA ReceiveResponsePrompt ==
  ASSUME IInv, AttributionOK, AddressesIdentify, PromptOK,
         NEW n \in Node, NEW d \in InFlight,
         ReceiveResponse(n, d) \/ ReceiveRelayedResponse(n, d)
  PROVE  PromptOK' /\ StillReady
  <1>1. PICK p \in Known(n), h \in PeerSession :
           /\ LegalHeard(h) /\ View(h) = View(peers[n][p])
           /\ Carried(d) \in ResponseMessage /\ Carried(d).from = p /\ Carried(d).to = n
           /\ Install(n, p, HandleResponse(h, Carried(d)))
    BY ResponseArrives
  <1> DEFINE q == <<n, p>>
             m == Carried(d)
             r == HandleResponse(h, m)
  <1>2. /\ net' = Consume(d) /\ left' = left /\ up' = up /\ n \in up
    BY DEF ReceiveResponse, ReceiveRelayedResponse, ArrivesRelayed, Arrives, world
  <1>3. /\ q \in DOMAIN Views /\ Views[q] = View(h) /\ p \in Node /\ p # n
        /\ Config[n][p] # None
    BY <1>1, KnownView
  <1>4. d \in Handshakes /\ Asker(d) = q /\ m.type = "RESPONSE"
    BY <1>1 DEF Handshakes, IsHandshake, Carried, Asker, ResponseMessage
  <1>5. m.eph \in View(h).asks
    BY <1>2, <1>3, <1>4 DEF PromptOK, TokensOK, Tokens, Awaited
  <1>6. /\ r # Absent
        /\ View(r) = [tag |-> "Ready", asks |-> {}, due |-> FALSE,
                      holds |-> {<<m.key, "initiator">>}]
    BY <1>1, <1>5, AwaitedView
  <1>7. Changes(Views, q, Views') /\ Views'[q] = View(r)
    <2> HIDE DEF r, m
    <2> QED BY <1>1, <1>3, <1>6, ViewsOne DEF r, m
  <1>8. OneCopyEach' /\ Handshakes' \subseteq Handshakes \ {d}
    <2>1. OneCopyEach /\ \A x \in {} : IsHandshake(Inner(x.msg)) => x \notin Handshakes \ {d}
      BY DEF PromptOK, TokensOK
    <2>2. {x \in {} : IsHandshake(Inner(x.msg))} = {}
      OBVIOUS
    <2> QED BY <1>2, <2>1, <2>2, TakenOnce
  <1> HIDE DEF r
  <1>9. Tokens(Views', up', Handshakes')
    <2>1. Tokens(Views, up, Handshakes)
      BY DEF PromptOK, TokensOK
    <2>2. Views'[q].tag # "Init"
      BY <1>6, <1>7
    <2> HIDE DEF q
    <2> QED BY <1>2, <1>3, <1>4, <1>7, <1>8, <2>1, <2>2, TokensConsume
  <1>10. ASSUME OneSided
         PROVE  Agreement(Views', up', Handshakes')
    <2>1. Tokens(Views, up, Handshakes) /\ Agreement(Views, up, Handshakes)
      BY <1>10 DEF PromptOK, TokensOK, AgreementOK
    <2>2. Reverse(q)[1] = q[2] /\ q # Reverse(q)
      BY <1>3 DEF Reverse
    <2>3. Asks(q)
      BY <1>4, <2>1 DEF Agreement, Roles
    <2>4. ~Asks(Reverse(q))
      BY <1>3, <1>10, <2>3 DEF Asks, OneSided, Reverse
    <2>5. /\ \A f \in Handshakes : Reverse(Asker(f)) = q => Asker(f) = Reverse(q)
          /\ \A v \in DOMAIN Views : Reverse(v) = q => v = Reverse(q)
      BY HandshakeTypes, ReversePairs DEF Views, Sessions
    <2>6. Views'[q].asks = {} /\ Views'[q].holds = {<<m.key, "initiator">>}
      BY <1>6, <1>7
    <2> HIDE DEF q
    <2> QED BY <1>2, <1>3, <1>4, <1>7, <1>8, <2>1, <2>2, <2>4, <2>5, <2>6, AgreementConsume
  <1>11. StillReady
    BY <1>6, <1>7 DEF Changes, StillReady
  <1> QED BY <1>8, <1>9, <1>10, <1>11 DEF PromptOK, TokensOK, AgreementOK

-----------------------------------------------------------------------------
(* What concerns no handshake. *)

(* A transport moves its nonces, and perhaps its session's timers. *)
LEMMA NonceView ==
  ASSUME NEW s \in PeerSession, IsReady(s), NEW t \in Transport,
         t.key = s.state.transport.key, t.side = s.state.transport.side,
         NEW ready, ready = [s.state EXCEPT !.transport = t],
         NEW r, r.state = ready
  PROVE  View(r) = View(s)
  <1>1. s.state \in ReadyState
    BY ReadyStates
  <1>2. /\ ready.tag = s.state.tag /\ ready.transport = t
        /\ ready.rehandshake = s.state.rehandshake
    BY <1>1 DEF ReadyState
  <1>3. IsReady(r) /\ ~IsInitiating(r) /\ ~IsInitiating(s)
    BY <1>2 DEF IsReady, IsInitiating
  <1>4. (IsRekeying(r) <=> IsRekeying(s)) /\ (RetryDue(r) <=> RetryDue(s))
    BY <1>2, <1>3 DEF IsRekeying, RetryDue
  <1>5. \A e : Awaits(r, e) <=> Awaits(s, e)
    BY <1>2, <1>3, <1>4 DEF Awaits
  <1>6. DueNow(r) = DueNow(s)
    BY <1>2, <1>3 DEF DueNow, IsRekeying, RetryDue, IsReady
  <1> QED BY <1>2, <1>3, <1>5, <1>6 DEF View

(* handle_transport and its twin behind a relay. *)
LEMMA TransportView ==
  ASSUME NEW s \in PeerSession, NEW m
  PROVE  \A r \in {s, HandleRelayedTransport(s, m)} : r \in PeerSession => View(r) = View(s)
  <1> DEFINE t == AfterDecrypt(s.state.transport)
             ready == [s.state EXCEPT !.transport = t]
             x == [s EXCEPT !.state = ready]
  <1>1. ASSUME IsReady(s) PROVE View(x) = View(s)
    <2>1. s.state \in ReadyState
      BY <1>1, ReadyStates
    <2>2. t \in Transport /\ t.key = s.state.transport.key /\ t.side = s.state.transport.side
      BY <2>1 DEF ReadyState, Transport, AfterDecrypt
    <2> HIDE DEF t
    <2>3. x.state = ready
      <3> HIDE DEF ready
      <3> QED BY DEF PeerSession
    <2> HIDE DEF x
    <2> QED BY <1>1, <2>2, <2>3, NonceView
  <1>2. HandleRelayedTransport(s, m) = s \/ (IsReady(s) /\ HandleRelayedTransport(s, m) = x)
    BY DEF HandleRelayedTransport
  <1> QED BY <1>1, <1>2

(* Whose session a TRANSPORT reaches, on either path. *)
LEMMA TransportArrives ==
  ASSUME IInv, AttributionOK, AddressesIdentify,
         NEW n \in Node, NEW d \in InFlight,
         ReceiveTransport(n, d) \/ ReceiveRelayedTransport(n, d)
  PROVE  \E p \in Known(n), h \in PeerSession :
           /\ LegalHeard(h) /\ View(h) = View(peers[n][p])
           /\ d.src \in Addr /\ h \in {Heard(n, p, d.src), HeardRelayed(n, p)}
           /\ \E m : \E r \in {h, HandleRelayedTransport(h, m)} : Install(n, p, r)
  <1> d.src \in Addr
    BY DatagramTypes DEF IInv
  <1>1. CASE ReceiveTransport(n, d)
    <2>1. PICK p : p = Sender(n, d.src, d.msg)
      OBVIOUS
    <2>2. /\ Arrives(n, d) /\ d.msg.type # "RELAY" /\ p # None
          /\ Install(n, p, HandleTransport(Heard(n, p, d.src), d.msg))
      BY <1>1, <2>1 DEF ReceiveTransport
    <2>3. p \in Known(n) /\ d.src \in Addr
      BY <2>1, <2>2, SenderTrue
    <2>4. /\ LegalHeard(Heard(n, p, d.src))
          /\ View(Heard(n, p, d.src)) = View(peers[n][p])
      BY <2>3, HeardView
    <2> QED BY <2>2, <2>3, <2>4 DEF HandleTransport, LegalHeard, Legal
  <1>2. CASE ReceiveRelayedTransport(n, d)
    <2>1. PICK p : p = d.msg.from
      OBVIOUS
    <2>2. /\ p \in Known(n)
          /\ Install(n, p, HandleRelayedTransport(HeardRelayed(n, p), d.msg.inner))
      BY <1>2, <2>1 DEF ReceiveRelayedTransport, ArrivesRelayed, OriginalSender
    <2>3. /\ LegalHeard(HeardRelayed(n, p))
          /\ View(HeardRelayed(n, p)) = View(peers[n][p])
      BY <2>2, HeardView, ConfigAssumption
    <2> QED BY <2>2, <2>3 DEF LegalHeard, Legal
  <1> QED BY <1>1, <1>2

(* A TRANSPORT is no handshake message. *)
LEMMA ReceiveTransportPrompt ==
  ASSUME IInv, AttributionOK, AddressesIdentify, PromptOK,
         NEW n \in Node, NEW d \in InFlight,
         ReceiveTransport(n, d) \/ ReceiveRelayedTransport(n, d)
  PROVE  PromptOK' /\ StillReady
  <1>1. PICK p \in Known(n), h \in PeerSession :
           /\ LegalHeard(h) /\ View(h) = View(peers[n][p])
           /\ \E m : \E r \in {h, HandleRelayedTransport(h, m)} : Install(n, p, r)
    BY TransportArrives
  <1>2. PICK m : \E r \in {h, HandleRelayedTransport(h, m)} : Install(n, p, r)
    BY <1>1
  <1>3. \A r \in {h, HandleRelayedTransport(h, m)} :
           r # Absent /\ View(r) = View(peers[n][p])
    <2>1. Legal(h) /\ Legal(HandleRelayedTransport(h, m))
      BY <1>1, HandleRelayedTransportLegal DEF LegalHeard
    <2> QED BY <1>1, <2>1, TransportView, NoneAssumption DEF Legal
  <1>4. Views' = Views
    BY <1>1, <1>2, <1>3, QuietViews
  <1>5. net' = Consume(d) /\ left' = left /\ up' = up
    BY DEF ReceiveTransport, ReceiveRelayedTransport, world
  <1> QED BY <1>4, <1>5, GonePrompt, QuietPrompt

(* Somebody else's RELAY: the token of its sender moves on. *)
LEMMA ForwardRelayPrompt ==
  ASSUME IInv, AttributionOK, PromptOK, NEW n \in Node, NEW d \in InFlight,
         ForwardRelay(n, d)
  PROVE  PromptOK' /\ StillReady
  <1> DEFINE p == d.msg.from
             h == HeardRelayed(n, p)
             x == [src |-> addr[n], msg |-> d.msg, dst |-> ForwardAddress(n, d.msg.dest)]
  <1>1. /\ p \in Known(n) /\ Install(n, p, h) /\ up' = up
    BY DEF ForwardRelay, ArrivesRelayed, world
  <1>2. h # Absent /\ View(h) = View(peers[n][p])
    <2> HIDE DEF p
    <2> QED BY <1>1, HeardView, ConfigAssumption, NoneAssumption DEF LegalHeard, Legal
  <1>3. Views' = Views
    <2> HIDE DEF h, p
    <2> QED BY <1>1, <1>2, QuietViews
  <1>4. x.msg = d.msg
    OBVIOUS
  <1>5. PICK S \in {{}, {x}} : net' = Consume(d) (+) Delivered(S) \/ net' = Consume(d)
    <2>1. CASE d.msg.dest \in Known(n)
      <3>1. \E ok \in SendOutcomes :
               net' = Consume(d) (+) (IF ok THEN Delivered({x}) ELSE EmptyBag)
        BY <2>1 DEF ForwardRelay
      <3> HIDE DEF x
      <3> QED BY <3>1, MaybeDelivered
    <2>2. CASE d.msg.dest \notin Known(n)
      BY <2>2 DEF ForwardRelay
    <2> QED BY <2>1, <2>2
  <1>6. left'.dup = left.dup
    BY ChargedDup DEF ForwardRelay
  <1> HIDE DEF x, h, p
  <1>7. Carried(x) = Carried(d) /\ Asker(x) = Asker(d)
    BY <1>4 DEF Carried, Asker
  <1>8. IsHandshake(Inner(x.msg)) => d \in Handshakes /\ x \notin Handshakes \ {d}
    <2> HAVE IsHandshake(Inner(x.msg))
    <2>1. d \in Handshakes
      BY <1>4 DEF Handshakes
    <2>2. OneToken(Handshakes)
      BY DEF PromptOK, TokensOK, Tokens
    <2> QED BY <1>7, <2>1, <2>2 DEF OneToken
  <1>9. /\ OneCopyEach'
        /\ Handshakes' \subseteq (Handshakes \ {d}) \cup {y \in S : IsHandshake(Inner(y.msg))}
    <2>1. \A y \in S : IsHandshake(Inner(y.msg)) => y \notin Handshakes \ {d}
      BY <1>8
    <2> QED BY <1>5, <1>6, <2>1, TakenOnce DEF PromptOK, TokensOK
  <1>10. CASE IsHandshake(Inner(x.msg))
    <2>1. d \in Handshakes /\ Handshakes' \subseteq (Handshakes \ {d}) \cup {x}
      BY <1>8, <1>9, <1>10
    <2>2. Tokens(Views, up, Handshakes)
      BY DEF PromptOK, TokensOK
    <2>3. /\ Tokens(Views, up, Handshakes')
          /\ Agreement(Views, up, Handshakes) => Agreement(Views, up, Handshakes')
      BY <1>7, <2>1, <2>2, TokensHop
    <2> QED BY <1>1, <1>3, <1>9, <2>3 DEF PromptOK, TokensOK, AgreementOK, StillReady
  <1>11. CASE ~IsHandshake(Inner(x.msg))
    BY <1>1, <1>3, <1>9, <1>11, QuietPrompt
  <1> QED BY <1>10, <1>11

(* Every datagram that is received. *)
LEMMA ReceivePrompt ==
  ASSUME IInv, AttributionOK, AddressesIdentify, PromptOK,
         NEW n \in Node, NEW d \in InFlight, Receive(n, d)
  PROVE  PromptOK' /\ StillReady
  <1>1. ASSUME IgnoreUnknownSource(n, d) \/ DropStrangersRelay(n, d)
        PROVE  PromptOK' /\ StillReady
    <2>1. net' = Consume(d) /\ left' = left /\ up' = up /\ peers' = peers
      BY <1>1 DEF IgnoreUnknownSource, DropStrangersRelay, world
    <2> QED BY <2>1, SameViews, GonePrompt, QuietPrompt
  <1> QED BY <1>1, ReceiveInitPrompt, ReceiveRelayedInitPrompt, ReceiveResponsePrompt,
             ReceiveTransportPrompt, ForwardRelayPrompt DEF Receive

-----------------------------------------------------------------------------
(* What a manager does on its own. *)

(* Nothing that is sent is a handshake message, and the session is as quiet. *)
LEMMA QuietSendPrompt ==
  ASSUME IInv, PromptOK, NEW n \in Node, NEW p \in Known(n), NEW r, r # Absent,
         Install(n, p, r), View(r) = View(peers[n][p]), up' = up,
         left'.dup = left.dup, NEW S, \A x \in S : ~IsHandshake(Inner(x.msg)),
         net' = net (+) Delivered(S) \/ net' = net
  PROVE  PromptOK' /\ StillReady
  <1>1. Views' = Views
    BY QuietViews
  <1>2. OneCopyEach' /\ Handshakes' \subseteq Handshakes
    <2>1. CASE net' = net
      BY <2>1 DEF PromptOK, TokensOK, OneCopyEach, Handshakes, InFlight
    <2>2. CASE net' = net (+) Delivered(S)
      <3>1. {x \in S : IsHandshake(Inner(x.msg))} = {}
        OBVIOUS
      <3> QED BY <2>2, <3>1, AddedOnce DEF PromptOK, TokensOK
    <2> QED BY <2>1, <2>2
  <1> QED BY <1>1, <1>2, QuietPrompt

(* An INIT is sent by a session that waits for no answer, or no longer for
   the one to its last INIT. *)
LEMMA AskPrompt ==
  ASSUME IInv, PromptOK, NEW n \in up, n \in Node, NEW p \in Known(n), NEW r, r # Absent,
         Install(n, p, r), up' = up, left'.dup = left.dup,
         View(peers[n][p]).asks = {} \/ View(peers[n][p]).due,
         View(r).tag # "Init", View(r).tag = View(peers[n][p]).tag, ~View(r).due,
         View(r).holds = View(peers[n][p]).holds,
         OneSided => Asks(<<n, p>>),
         NEW x, Carried(x).type = "INIT", Carried(x).from = n, Carried(x).to = p,
         Carried(x).eph \in View(r).asks,
         NEW S, \A y \in S : IsHandshake(Inner(y.msg)) => y = x,
         net' = net (+) Delivered(S)
  PROVE  PromptOK' /\ StillReady
  <1> DEFINE q == <<n, p>>
  <1>1. q \in DOMAIN Views /\ Views[q] = View(peers[n][p]) /\ p \in Node
    BY KnownView
  <1>2. Changes(Views, q, Views') /\ Views'[q] = View(r)
    BY <1>1, ViewsOne
  <1>3. Asker(x) = q
    BY DEF Asker
  <1>4. Tokens(Views, up, Handshakes)
    BY DEF PromptOK, TokensOK
  <1>5. x \notin Handshakes
    BY <1>1, <1>3, <1>4 DEF Tokens, Awaited
  <1>6. OneCopyEach' /\ Handshakes' \subseteq Handshakes \cup {x}
    <2>1. \A y \in S : IsHandshake(Inner(y.msg)) => y \notin Handshakes
      BY <1>5
    <2>2. /\ OneCopyEach'
          /\ Handshakes' \subseteq Handshakes \cup {y \in S : IsHandshake(Inner(y.msg))}
      BY <2>1, AddedOnce DEF PromptOK, TokensOK
    <2> QED BY <2>2
  <1>7. Tokens(Views', up', Handshakes')
    <2> HIDE DEF q
    <2> QED BY <1>1, <1>2, <1>3, <1>4, <1>6, TokensAsk
  <1>8. ASSUME OneSided
        PROVE  Agreement(Views', up', Handshakes')
    <2>1. Agreement(Views, up, Handshakes) /\ Asks(q)
      BY <1>8 DEF PromptOK, AgreementOK
    <2>2. Views'[q].asks # {}
      BY <1>2
    <2> HIDE DEF q
    <2> QED BY <1>1, <1>2, <1>3, <1>6, <2>1, <2>2, AgreementAsk
  <1>9. StillReady
    BY <1>1, <1>2 DEF Changes, StillReady
  <1> QED BY <1>6, <1>7, <1>8, <1>9 DEF PromptOK, TokensOK, AgreementOK

(* Who waits for an answer was configured to ask. *)
LEMMA AsksFromViews ==
  ASSUME IInv, PromptOK, OneSided, NEW n \in Node, NEW p \in Known(n),
         View(peers[n][p]).asks # {}
  PROVE  Asks(<<n, p>>)
  BY KnownView DEF PromptOK, AgreementOK, Agreement, Roles

(* What send_maybe_relay sends carries what it is given. *)
LEMMA SentCarried ==
  ASSUME NEW n, NEW p, NEW e, NEW m, m.type # "RELAY"
  PROVE  Carried(SendMaybeRelay(n, p, e, m)) = m
  BY SentInner DEF Carried

(* The due INITs. *)
LEMMA SendInitPrompt ==
  ASSUME IInv, PromptNetwork, PromptOK, NEW n \in Node, NEW p \in Node, SendInit(n, p)
  PROVE  PromptOK' /\ StillReady
  <1> DEFINE s == peers[n][p]
             init == WriteInit(n, p, s.state.initiator)
             x == SendMaybeRelay(n, p, s.endpoint, init)
             S(ok) == IF ok THEN {x} ELSE {}
  <1>1. /\ p \in Known(n) /\ s \in PeerSession /\ IsInitiating(s) /\ InitDue(s)
        /\ n \in up /\ up' = up
    BY KnownSession DEF SendInit, IInv, Legal, world
  <1>2. PICK ok \in SendOutcomes :
           /\ Install(n, p, IF ok THEN InitSent(s) ELSE s)
           /\ net' = net (+) (IF ok THEN Delivered({x}) ELSE EmptyBag)
           /\ ChargeError(ok)
    BY DEF SendInit
  <1>3. left'.dup = left.dup
    BY <1>2, ChargedDup
  <1>4. /\ init.type = "INIT" /\ init.from = n /\ init.to = p
        /\ init.eph = s.state.initiator
    BY DEF WriteInit
  <1> HIDE DEF init
  <1>5. Carried(x) = init
    BY <1>4, SentCarried
  <1> HIDE DEF x, s
  <1>6. net' = net (+) Delivered(S(ok))
    BY <1>2, MaybeDelivered
  <1>7. CASE ~ok
    <2>1. \A y \in S(ok) : ~IsHandshake(Inner(y.msg))
      BY <1>7
    <2> HIDE DEF S
    <2> QED BY <1>1, <1>2, <1>3, <1>6, <1>7, <2>1, NoneAssumption, QuietSendPrompt DEF s
  <1>8. CASE ok
    <2> DEFINE r == InitSent(s)
    <2>1. r \in PeerSession /\ r.state = s.state /\ r.next_init_at = INIT_RETRY_INTERVAL
      BY <1>1, TimingAssumption DEF InitSent, PeerSession
    <2> HIDE DEF r
    <2>2. IsInitiating(r) /\ ~InitDue(r)
      BY <1>1, <2>1 DEF IsInitiating, InitDue, PromptNetwork
    <2>3. /\ View(r).tag # "Init" /\ ~View(r).due /\ View(r).asks = {init.eph}
          /\ View(r).holds = View(s).holds /\ View(r).tag = View(s).tag
          /\ View(s).due /\ View(s).asks # {}
      BY <1>1, <1>4, <2>1, <2>2, InitiatingView
    <2>4. Install(n, p, r) /\ r # Absent
      BY <1>2, <1>8, <2>1, NoneAssumption DEF r
    <2>5. OneSided => Asks(<<n, p>>)
      BY <1>1, <2>3, AsksFromViews DEF s
    <2>6. \A y \in S(ok) : IsHandshake(Inner(y.msg)) => y = x
      OBVIOUS
    <2> HIDE DEF S
    <2> QED BY <1>1, <1>3, <1>4, <1>5, <1>6, <2>3, <2>4, <2>5, <2>6, AskPrompt DEF s
  <1> QED BY <1>7, <1>8

(* A timer that is cleared, and a peer that goes stale. *)
LEMMA QuietStepPrompt ==
  ASSUME IInv, PromptOK, NEW n \in Node, NEW p \in Node,
         ClearInitTimer(n, p) \/ MarkStale(n, p)
  PROVE  PromptOK' /\ StillReady
  <1> DEFINE s == peers[n][p]
             stale == [s EXCEPT !.stale = TRUE]
  <1>1. p \in Known(n) /\ s \in PeerSession
    BY KnownSession DEF ClearInitTimer, MarkStale, Maintained, IInv, Legal
  <1>2. net' = net /\ left' = left /\ up' = up
    BY DEF ClearInitTimer, MarkStale, world
  <1>3. /\ \E r \in {InitDone(s), stale} : Install(n, p, r)
        /\ ~IsInitiating(s)
    BY DEF ClearInitTimer, MarkStale, Maintained, IsReady, IsInitiating
  <1> HIDE DEF s
  <1>4. \A r \in {InitDone(s), stale} : r \in PeerSession /\ r.state = s.state
    BY <1>1 DEF InitDone, PeerSession
  <1>5. PICK r \in PeerSession : r.state = s.state /\ Install(n, p, r)
    BY <1>3, <1>4
  <1>6. View(r) = View(s) /\ r # Absent
    BY <1>3, <1>5, SameView, NoneAssumption
  <1>7. PICK S : S = {}
    OBVIOUS
  <1>8. \A x \in S : ~IsHandshake(Inner(x.msg))
    BY <1>7
  <1> QED BY <1>1, <1>2, <1>5, <1>6, <1>8, QuietSendPrompt DEF s

(* The retry of a rekey. *)
LEMMA RetryRekeyPrompt ==
  ASSUME IInv, PromptNetwork, PromptOK, NEW n \in Node, NEW p \in Node, RetryRekey(n, p)
  PROVE  PromptOK' /\ StillReady
  <1> DEFINE s == peers[n][p]
             init == WriteInit(n, p, s.state.rehandshake.initiator)
             x == SendMaybeRelay(n, p, s.endpoint, init)
             S(ok) == IF ok THEN {x} ELSE {}
             again == [s EXCEPT !.state.rehandshake.next_retry_at = INIT_RETRY_INTERVAL]
             rekey == [s.state.rehandshake EXCEPT !.next_retry_at = INIT_RETRY_INTERVAL]
             ready == [s.state EXCEPT !.rehandshake = rekey]
  <1>1. /\ p \in Known(n) /\ s \in PeerSession /\ IsRekeying(s) /\ IsReady(s)
        /\ RetryDue(s) /\ n \in up /\ up' = up
    BY KnownSession DEF RetryRekey, Maintained, IInv, Legal, world
  <1>2. PICK ok \in SendOutcomes :
           /\ Install(n, p, IF ok THEN again ELSE s)
           /\ net' = net (+) (IF ok THEN Delivered({x}) ELSE EmptyBag)
           /\ ChargeError(ok)
    BY DEF RetryRekey
  <1>3. left'.dup = left.dup
    BY <1>2, ChargedDup
  <1>4. /\ init.type = "INIT" /\ init.from = n /\ init.to = p
        /\ init.eph = s.state.rehandshake.initiator
    BY DEF WriteInit
  <1>5. s.state \in ReadyState /\ s.state.rehandshake \in Rehandshake
    BY <1>1, ReadyStates
  <1>6. /\ rekey \in Rehandshake /\ rekey.initiator = s.state.rehandshake.initiator
        /\ rekey.next_retry_at = INIT_RETRY_INTERVAL
    BY <1>5, TimingAssumption DEF Rehandshake
  <1>7. again = [s EXCEPT !.state = ready]
    OBVIOUS
  <1> HIDE DEF init
  <1>8. Carried(x) = init
    BY <1>4, SentCarried
  <1> HIDE DEF x, s, rekey, again
  <1>9. /\ ready \in PeerState /\ ready.tag = "Ready"
        /\ ready.transport = s.state.transport /\ ready.rehandshake = rekey
    BY <1>5, <1>6 DEF PeerState, ReadyState
  <1> HIDE DEF ready
  <1>10. again \in PeerSession /\ again.state = ready
    BY <1>1, <1>7, <1>9 DEF PeerSession
  <1>11. net' = net (+) Delivered(S(ok))
    BY <1>2, MaybeDelivered
  <1>12. CASE ~ok
    <2>1. \A y \in S(ok) : ~IsHandshake(Inner(y.msg))
      BY <1>12
    <2> HIDE DEF S
    <2> QED BY <1>1, <1>2, <1>3, <1>11, <1>12, <2>1, NoneAssumption, QuietSendPrompt DEF s
  <1>13. CASE ok
    <2>1. IsRekeying(again) /\ ~RetryDue(again)
      BY <1>6, <1>9, <1>10, NoneAssumption
         DEF IsRekeying, IsReady, RetryDue, PromptNetwork
    <2>2. /\ View(again).tag = "Ready" /\ ~View(again).due /\ View(again).asks = {init.eph}
          /\ View(again).holds = {<<s.state.transport.key, s.state.transport.side>>}
      BY <1>4, <1>6, <1>9, <1>10, <2>1, RekeyingView
    <2>3. /\ View(again).holds = View(s).holds /\ View(again).tag = View(s).tag
          /\ View(s).due /\ View(s).asks # {}
      BY <1>1, <2>2, RekeyingView
    <2>4. Install(n, p, again) /\ again # Absent
      BY <1>2, <1>10, <1>13, NoneAssumption
    <2>5. OneSided => Asks(<<n, p>>)
      BY <1>1, <2>3, AsksFromViews DEF s
    <2>6. \A y \in S(ok) : IsHandshake(Inner(y.msg)) => y = x
      OBVIOUS
    <2>7. /\ Carried(x).type = "INIT" /\ Carried(x).from = n /\ Carried(x).to = p
          /\ Carried(x).eph \in View(again).asks
      BY <1>4, <1>8, <2>2
    <2>8. View(again).tag # "Init" /\ ~View(again).due
      BY <2>2
    <2> HIDE DEF S
    <2> QED BY <1>1, <1>3, <1>11, <2>3, <2>4, <2>5, <2>6, <2>7, <2>8, AskPrompt DEF s
  <1> QED BY <1>12, <1>13

(* A TUN packet. *)
LEMMA DispatchTunPacketPrompt ==
  ASSUME IInv, PromptOK, NEW n \in Node, NEW p \in Node, DispatchTunPacket(n, p)
  PROVE  PromptOK' /\ StillReady
  <1> DEFINE s == peers[n][p]
             t == s.state.transport
             u == AfterEncrypt(t)
             tx(ok) == IF ok THEN 0 ELSE s.last_tx_at
             r(ok) == [s EXCEPT !.state.transport = u, !.last_tx_at = tx(ok)]
             ready == [s.state EXCEPT !.transport = u]
             x == SendMaybeRelay(n, p, s.endpoint, Encrypt(t))
             S(ok) == IF ok THEN {x} ELSE {}
             data == left.data - 1
             errors(ok) == IF ok THEN left.errors ELSE left.errors - 1
  <1>1. p \in Known(n) /\ s \in PeerSession /\ IsReady(s) /\ up' = up
    BY KnownSession DEF DispatchTunPacket, IInv, Legal, world
  <1>2. PICK ok \in SendOutcomes :
           /\ Install(n, p, r(ok))
           /\ net' = net (+) (IF ok THEN Delivered({x}) ELSE EmptyBag)
           /\ left' = [left EXCEPT !.data = data, !.errors = errors(ok)]
    BY DEF DispatchTunPacket
  <1>3. left'.dup = left.dup
    <2>1. left \in Budgets
      BY DEF IInv, WorldOK
    <2> HIDE DEF data, errors
    <2> QED BY <1>2, <2>1 DEF Budgets
  <1>4. s.state \in ReadyState /\ t \in Transport /\ tx(ok) \in Nat \cup {None}
    BY <1>1, ReadyStates DEF ReadyState, PeerSession
  <1>5. u \in Transport /\ u.key = t.key /\ u.side = t.side
    BY <1>4 DEF Transport, AfterEncrypt
  <1>6. r(ok) = [s EXCEPT !.state = ready, !.last_tx_at = tx(ok)]
    OBVIOUS
  <1>7. Carried(x).type = "TRANSPORT"
    <2>1. Encrypt(t).type = "TRANSPORT"
      BY DEF Encrypt
    <2> QED BY <2>1, SentCarried
  <1> HIDE DEF s, u, tx, x, data, errors
  <1>8. ready \in PeerState
    BY <1>4, <1>5 DEF PeerState, ReadyState
  <1> HIDE DEF r
  <1>9. r(ok) \in PeerSession /\ r(ok).state = ready
    <2> HIDE DEF ready
    <2> QED BY <1>1, <1>4, <1>6, <1>8 DEF PeerSession
  <1>10. View(r(ok)) = View(s) /\ r(ok) # Absent
    BY <1>1, <1>5, <1>9, NonceView, NoneAssumption
  <1>11. net' = net (+) Delivered(S(ok))
    BY <1>2, MaybeDelivered
  <1>12. \A y \in S(ok) : ~IsHandshake(Inner(y.msg))
    BY <1>7 DEF Carried, IsHandshake
  <1> HIDE DEF S
  <1> QED BY <1>1, <1>2, <1>3, <1>10, <1>11, <1>12, QuietSendPrompt DEF s

(* Keepalives and the start of a rekey. *)
LEMMA KeepaliveOrRekeyPrompt ==
  ASSUME IInv, PromptNetwork, PromptOK, NEW n \in Node, NEW p \in Node,
         KeepaliveOrRekey(n, p)
  PROVE  PromptOK' /\ StillReady
  <1> DEFINE s == peers[n][p]
             t == s.state.transport
             u == AfterEncrypt(t)
             keepalive == KeepaliveDue(s)
             rekey == RekeyDue(n, p, s)
             x == SendMaybeRelay(n, p, s.endpoint, Encrypt(t))
             y == SendMaybeRelay(n, p, s.endpoint, WriteInit(n, p, Fresh))
             probe == IF keepalive THEN {x} ELSE {}
             init == IF rekey THEN {y} ELSE {}
             tx(probed) == IF probed THEN 0 ELSE s.last_tx_at
             again == [initiator |-> Fresh, next_retry_at |-> INIT_RETRY_INTERVAL]
             ready(started) ==
                 [tag |-> "Ready",
                  transport |-> IF keepalive THEN u ELSE t,
                  rehandshake |-> IF started THEN again ELSE None]
             r(probed, started) ==
                 [s EXCEPT !.last_tx_at = tx(probed), !.state = ready(started)]
             sent(probed, started) ==
                 (IF probed THEN probe ELSE {}) \cup (IF started THEN init ELSE {})
             ok(probed, started) == (keepalive => probed) /\ (rekey => started)
  <1>1. /\ p \in Known(n) /\ s \in PeerSession /\ IsReady(s) /\ ~IsRekeying(s)
        /\ n \in up /\ up' = up
    BY KnownSession DEF KeepaliveOrRekey, Maintained, IInv, Legal
  <1>2. PICK probed \in BOOLEAN, started \in BOOLEAN :
           /\ started => rekey
           /\ ChargeError(ok(probed, started))
           /\ net' = net (+) Delivered(sent(probed, started))
           /\ Install(n, p, r(probed, started))
    BY DEF KeepaliveOrRekey
  <1>3. left'.dup = left.dup
    <2> HIDE DEF ok
    <2> QED BY <1>2, ChargedDup
  <1>4. rekey => Fresh \in Ephemeral
    BY FreshOK DEF KeepaliveOrRekey
  <1>5. s.state \in ReadyState /\ t \in Transport
    BY <1>1, ReadyStates DEF ReadyState
  <1>6. u \in Transport /\ u.key = t.key /\ u.side = t.side
    BY <1>5 DEF Transport, AfterEncrypt
  <1>7. /\ Carried(x).type = "TRANSPORT"
        /\ Carried(y) = WriteInit(n, p, Fresh)
    <2>1. Encrypt(t).type = "TRANSPORT" /\ WriteInit(n, p, Fresh).type = "INIT"
      BY DEF Encrypt, WriteInit
    <2> QED BY <2>1, SentCarried
  <1>8. rekey => Config[n][p].is_initiator
    BY DEF RekeyDue
  <1> DEFINE q == r(probed, started)
             state == ready(started)
             S == sent(probed, started)
             last == tx(probed)
  <1> HIDE DEF ok
  <1>9. q = [s EXCEPT !.last_tx_at = last, !.state = state]
    OBVIOUS
  <1>10. last \in Nat \cup {None}
    BY <1>1 DEF PeerSession
  <1>11. \A z \in S : z = x \/ (z = y /\ started)
    OBVIOUS
  <1>12. Install(n, p, q) /\ net' = net (+) Delivered(S)
    BY <1>2
  <1> HIDE DEF s, u, keepalive, rekey, x, y, q, S, last
  <1>13. started => again \in Rehandshake /\ again # None
    BY <1>2, <1>4, TimingAssumption, NoneAssumption DEF Rehandshake
  <1>14. /\ state.tag = "Ready" /\ state.transport \in Transport
         /\ state.transport.key = t.key /\ state.transport.side = t.side
         /\ state.rehandshake = IF started THEN again ELSE None
    <2> HIDE DEF t, again
    <2> QED BY <1>5, <1>6
  <1>15. state \in PeerState
    <2> HIDE DEF t, again
    <2> QED BY <1>5, <1>6, <1>13 DEF PeerState, ReadyState
  <1>16. again.initiator = Fresh /\ again.next_retry_at = INIT_RETRY_INTERVAL
    OBVIOUS
  <1> HIDE DEF state, again
  <1>17. q \in PeerSession /\ q.state = state /\ q # Absent
    <2>1. q \in PeerSession /\ q.state = state
      BY <1>1, <1>9, <1>10, <1>15 DEF PeerSession
    <2> QED BY <2>1, NoneAssumption
  <1>18. View(s) = [tag |-> "Ready", asks |-> {}, due |-> FALSE, holds |-> {<<t.key, t.side>>}]
    BY <1>1, ReadyView
  <1> HIDE DEF t
  <1>19. CASE ~started
    <2>1. IsReady(q) /\ ~IsRekeying(q)
      BY <1>14, <1>17, <1>19 DEF IsReady, IsRekeying
    <2>2. View(q) = [tag |-> "Ready", asks |-> {}, due |-> FALSE,
                     holds |-> {<<q.state.transport.key, q.state.transport.side>>}]
      BY <2>1, ReadyView
    <2>3. View(q) = View(s)
      BY <1>14, <1>17, <1>18, <2>2
    <2>4. \A z \in S : ~IsHandshake(Inner(z.msg))
      BY <1>7, <1>11, <1>19 DEF Carried, IsHandshake
    <2> QED BY <1>1, <1>3, <1>12, <1>17, <2>3, <2>4, QuietSendPrompt DEF s
  <1>20. CASE started
    <2>1. IsRekeying(q) /\ ~RetryDue(q)
      BY <1>13, <1>14, <1>16, <1>17, <1>20
         DEF IsReady, IsRekeying, RetryDue, PromptNetwork
    <2>2. /\ View(q).tag = "Ready" /\ View(q).asks = {q.state.rehandshake.initiator}
          /\ View(q).due = RetryDue(q)
          /\ View(q).holds = {<<q.state.transport.key, q.state.transport.side>>}
      BY <1>17, <2>1, RekeyingView
    <2>3. /\ Carried(y).type = "INIT" /\ Carried(y).from = n /\ Carried(y).to = p
          /\ Carried(y).eph \in View(q).asks
      BY <1>7, <1>14, <1>16, <1>17, <1>20, <2>2 DEF WriteInit
    <2>4. /\ View(q).tag # "Init" /\ View(q).tag = View(s).tag
          /\ ~View(q).due /\ View(q).holds = View(s).holds
      BY <1>14, <1>17, <1>18, <2>1, <2>2
    <2>5. View(s).asks = {}
      BY <1>18
    <2>6. Asks(<<n, p>>)
      BY <1>1, <1>2, <1>8, <1>20, KnownView DEF Asks
    <2>7. \A z \in S : IsHandshake(Inner(z.msg)) => z = y
      BY <1>7, <1>11 DEF Carried, IsHandshake
    <2> QED BY <1>1, <1>3, <1>12, <1>17, <2>3, <2>4, <2>5, <2>6, <2>7, AskPrompt DEF s
  <1> QED BY <1>19, <1>20

(* A new peer: it waits as it is configured to, and holds no key. *)
LEMMA AddPeerPrompt ==
  ASSUME IInv, PromptOK, NEW n \in Node, NEW p \in Node, AddPeer(n, p)
  PROVE  PromptOK' /\ StillReady
  <1> DEFINE r == NewSession(n, p, Fresh)
             cfg == Config[n][p]
             q == <<n, p>>
  <1>1. /\ n \in up /\ p # n /\ p \notin Known(n) /\ cfg # None /\ Install(n, p, r)
        /\ cfg.is_initiator => Fresh \in Ephemeral
        /\ up' = up /\ net' = net /\ left' = left
    BY FreshOK DEF AddPeer
  <1>2. Legal(r) /\ r # Absent
    BY <1>1, NewSessionLegal, NoneAssumption DEF Legal
  <1>3. IF cfg.is_initiator THEN IsInitiating(r) ELSE IsResponding(r)
    BY DEF NewSession, FreshResponder, IsInitiating, IsResponding
  <1> HIDE DEF r
  <1>4. /\ View(r).tag # "Init" /\ View(r).holds = {}
        /\ View(r).asks # {} => Asks(q)
    <2>1. CASE cfg.is_initiator
      BY <1>1, <1>2, <1>3, <2>1, InitiatingView DEF Legal, Asks
    <2>2. CASE ~cfg.is_initiator
      BY <1>3, <2>2, RespondingView
    <2> QED BY <2>1, <2>2
  <1>5. Changes(Views, q, Views') /\ Views'[q] = View(r)
    BY <1>1, <1>2, ViewsOne
  <1>6. q \notin DOMAIN Views
    BY <1>1 DEF Views, Sessions
  <1>7. Handshakes' = Handshakes /\ (OneCopyEach => OneCopyEach')
    BY <1>1 DEF Handshakes, InFlight, OneCopyEach
  <1>8. Tokens(Views', up', Handshakes')
    <2>1. Tokens(Views, up, Handshakes) /\ q[1] \in up
      BY <1>1 DEF PromptOK, TokensOK
    <2> HIDE DEF q
    <2> QED BY <1>1, <1>4, <1>5, <1>6, <1>7, <2>1, TokensAdd
  <1>9. ASSUME OneSided
        PROVE  Agreement(Views', up', Handshakes')
    <2>1. Agreement(Views, up, Handshakes)
      BY <1>9 DEF PromptOK, AgreementOK
    <2> HIDE DEF q
    <2> QED BY <1>1, <1>4, <1>5, <1>6, <1>7, <2>1, AgreementAdd
  <1>10. StillReady
    BY <1>5, <1>6 DEF Changes, StillReady
  <1> QED BY <1>7, <1>8, <1>9, <1>10 DEF PromptOK, TokensOK, AgreementOK

(* Every step of a manager on its own. *)
LEMMA PeerStepPrompt ==
  ASSUME IInv, PromptNetwork, PromptOK, NEW n \in Node, NEW p \in Node, PeerStep(n, p)
  PROVE  PromptOK' /\ StillReady
  BY AddPeerPrompt, SendInitPrompt, QuietStepPrompt, DispatchTunPacketPrompt,
     RetryRekeyPrompt, KeepaliveOrRekeyPrompt DEF PeerStep, Maintenance

-----------------------------------------------------------------------------
(* Time, and the world. *)

(* What a time unit does to a session. *)
LEMMA AgedFields ==
  ASSUME NEW s \in PeerSession
  PROVE  LET r == Aged(s)
         IN  /\ r.endpoint = s.endpoint /\ r.stale = s.stale
             /\ r.next_init_at = Sooner(s.next_init_at)
             /\ r.last_rx_at = Older(s.last_rx_at, REJECT_AFTER)
             /\ r.last_tx_at = Older(s.last_tx_at, KEEPALIVE)
             /\ r.last_handshake_at = Older(s.last_handshake_at, REKEY_AFTER)
             /\ r.init_rx_count = s.init_rx_count
             /\ r.init_rx_window_start = IF s.init_rx_window_start < RATE_WINDOW
                                         THEN s.init_rx_window_start + 1
                                         ELSE s.init_rx_window_start
             /\ r.state.tag = s.state.tag
             /\ ~IsRekeying(s) => r.state = s.state
             /\ IsRekeying(s) =>
                   /\ IsRekeying(r)
                   /\ r.state.rehandshake.next_retry_at
                         = Sooner(s.state.rehandshake.next_retry_at)
  <1> DEFINE r == Aged(s)
             state == AgedState(s)
             init == Sooner(s.next_init_at)
             rx == Older(s.last_rx_at, REJECT_AFTER)
             tx == Older(s.last_tx_at, KEEPALIVE)
             hs == Older(s.last_handshake_at, REKEY_AFTER)
             start == IF s.init_rx_window_start < RATE_WINDOW
                      THEN s.init_rx_window_start + 1 ELSE s.init_rx_window_start
  <1>1. r = [s EXCEPT !.next_init_at = init, !.last_rx_at = rx, !.last_tx_at = tx,
                      !.last_handshake_at = hs, !.init_rx_window_start = start,
                      !.state = state]
    BY DEF Aged
  <1>2. /\ r.state = state /\ r.endpoint = s.endpoint /\ r.stale = s.stale
        /\ r.next_init_at = init /\ r.last_rx_at = rx /\ r.last_tx_at = tx
        /\ r.last_handshake_at = hs
        /\ r.init_rx_count = s.init_rx_count /\ r.init_rx_window_start = start
    <2> HIDE DEF r, state, init, rx, tx, hs, start
    <2> QED BY <1>1 DEF PeerSession
  <1>3. ~IsRekeying(s) => state = s.state
    BY DEF AgedState
  <1>4. ASSUME IsRekeying(s)
        PROVE  /\ IsRekeying(r) /\ r.state.tag = "Ready"
               /\ r.state.rehandshake.next_retry_at
                     = Sooner(s.state.rehandshake.next_retry_at)
    <2> DEFINE retry == Sooner(s.state.rehandshake.next_retry_at)
               rekey == [s.state.rehandshake EXCEPT !.next_retry_at = retry]
    <2>1. s.state \in ReadyState /\ s.state.rehandshake \in Rehandshake
      BY <1>4, ReadyStates DEF IsRekeying
    <2>2. state = [s.state EXCEPT !.rehandshake = rekey]
      BY <1>4 DEF AgedState
    <2>3. retry \in Nat
      BY <2>1, TimingAssumption DEF Rehandshake, Sooner
    <2> HIDE DEF retry
    <2>4. rekey \in Rehandshake /\ rekey.next_retry_at = retry
      BY <2>1, <2>3 DEF Rehandshake
    <2> HIDE DEF state, rekey
    <2>5. state.tag = "Ready" /\ state.rehandshake = rekey
      BY <1>4, <2>1, <2>2 DEF ReadyState
    <2>6. IsRekeying(r)
      BY <1>2, <2>4, <2>5, NoneAssumption DEF IsRekeying, IsReady
    <2> QED BY <1>2, <2>4, <2>5, <2>6 DEF retry
  <1> QED BY <1>2, <1>3, <1>4 DEF IsRekeying, IsReady

(* Time brings the next INIT of a session nearer, and nothing else. *)
LEMMA AgedView ==
  ASSUME NEW s \in PeerSession
  PROVE  /\ View(Aged(s)).tag = View(s).tag /\ View(Aged(s)).asks = View(s).asks
         /\ View(Aged(s)).holds = View(s).holds
  <1> DEFINE r == Aged(s)
             state == AgedState(s)
             init == Sooner(s.next_init_at)
             rx == Older(s.last_rx_at, REJECT_AFTER)
             tx == Older(s.last_tx_at, KEEPALIVE)
             hs == Older(s.last_handshake_at, REKEY_AFTER)
             start == IF s.init_rx_window_start < RATE_WINDOW
                      THEN s.init_rx_window_start + 1 ELSE s.init_rx_window_start
  <1>1. r = [s EXCEPT !.next_init_at = init, !.last_rx_at = rx, !.last_tx_at = tx,
                      !.last_handshake_at = hs, !.init_rx_window_start = start,
                      !.state = state]
    BY DEF Aged
  <1>2. r.state = state
    <2> HIDE DEF r, state, init, rx, tx, hs, start
    <2> QED BY <1>1 DEF PeerSession
  <1>3. state.tag = s.state.tag
    <2>1. CASE IsRekeying(s)
      <3> DEFINE retry == Sooner(s.state.rehandshake.next_retry_at)
                 rekey == [s.state.rehandshake EXCEPT !.next_retry_at = retry]
      <3>1. s.state \in ReadyState
        BY <2>1, ReadyStates DEF IsRekeying
      <3>2. state = [s.state EXCEPT !.rehandshake = rekey]
        BY <2>1 DEF AgedState
      <3> HIDE DEF rekey, state
      <3> QED BY <3>1, <3>2 DEF ReadyState
    <2>2. CASE ~IsRekeying(s)
      BY <2>2 DEF AgedState
    <2> QED BY <2>1, <2>2
  <1>4. /\ IsReady(r) <=> IsReady(s)
        /\ IsReady(s) => r.state.transport = s.state.transport
        /\ \A e : Awaits(r, e) <=> Awaits(s, e)
    BY AgedKeeps
  <1> HIDE DEF r, state
  <1> QED BY <1>2, <1>3, <1>4 DEF View, r

(* No time passes while a datagram is in flight. *)
LEMMA TickPrompt ==
  ASSUME IInv, PromptNetwork, PromptOK, Tick
  PROVE  PromptOK' /\ StillReady
  <1>1. /\ peers' = [n \in Node |-> [p \in Node |->
                        IF p \in Known(n) THEN Aged(peers[n][p]) ELSE Absent]]
        /\ net' = net /\ up' = up /\ InFlight = {}
    BY DEF Tick, PromptNetwork
  <1>2. Handshakes' = {} /\ Handshakes = {}
    BY <1>1 DEF Handshakes, InFlight
  <1>3. left'.dup = left.dup
    <2> DEFINE ticks == left.ticks - 1
    <2>1. left' = left \/ left' = [left EXCEPT !.ticks = ticks]
      BY DEF Tick
    <2>2. left \in Budgets
      BY DEF IInv, WorldOK
    <2> HIDE DEF ticks
    <2> QED BY <2>1, <2>2 DEF Budgets
  <1>4. OneCopyEach'
    BY <1>2, <1>3 DEF PromptOK, TokensOK, OneCopyEach
  <1>5. \A u \in Sessions : Session(u) \in PeerSession /\ Aged(Session(u)) # Absent
    <2> TAKE u \in Sessions
    <2>1. u[1] \in Node /\ u[2] \in Known(u[1]) /\ Session(u) = peers[u[1]][u[2]]
      BY DEF Sessions, Session
    <2>2. Legal(Session(u)) /\ Legal(Aged(Session(u)))
      BY <2>1, KnownSession, AgedLegal DEF IInv
    <2> QED BY <2>2, NoneAssumption DEF Legal
  <1>6. ASSUME NEW u \in Node \X Node
        PROVE  /\ u \in Sessions => Session(u)' = Aged(Session(u))
               /\ u \notin Sessions => Session(u)' = Absent
               /\ u \in Sessions' <=> Session(u)' # Absent
    BY <1>1 DEF Sessions, Session, Known
  <1>7. Sessions' = Sessions
    <2>1. Sessions' \subseteq Node \X Node /\ Sessions \subseteq Node \X Node
      BY DEF Sessions
    <2> QED BY <1>5, <1>6, <2>1
  <1>8. DOMAIN Views' = DOMAIN Views /\ DOMAIN Views = Sessions
    BY <1>7, ViewsPrimed DEF Views
  <1>9. ASSUME NEW u \in DOMAIN Views'
        PROVE  /\ Views'[u].tag = Views[u].tag /\ Views'[u].asks = Views[u].asks
               /\ Views'[u].holds = Views[u].holds
    <2>1. u \in Sessions /\ u \in Node \X Node
      BY <1>8, <1>9 DEF Sessions
    <2>2. Views'[u] = View(Aged(Session(u))) /\ Views[u] = View(Session(u))
      BY <1>6, <1>7, <2>1, ViewsPrimed DEF Views
    <2> QED BY <1>5, <2>1, <2>2, AgedView
  <1>10. Unstuck(Views, up)
    BY DEF PromptOK, TokensOK, Tokens
  <1>11. Fewer(Views, up, Views', up')
    BY <1>1, <1>8, <1>9, <1>10 DEF Fewer, Unstuck
  <1> QED BY <1>2, <1>4, <1>11, FewerPrompt

(* A daemon starts when nothing from it or for it is under way. *)
LEMMA StartPrompt ==
  ASSUME IInv, AttributionOK, PromptNetwork, PromptOK, NEW n \in Node, Start(n)
  PROVE  PromptOK' /\ StillReady
  <1>1. /\ n \notin up /\ Undisturbed(n) /\ up' = up \cup {n}
        /\ peers' = peers /\ net' = net /\ left' = left
    BY DEF Start
  <1>2. ASSUME NEW d \in Handshakes
        PROVE  Asker(d)[1] # n /\ Asker(d)[2] # n
    <2>1. /\ d \in InFlight /\ Carried(d).from \in Node /\ Carried(d).to \in Node
      BY HandshakeTypes DEF InitMessage, ResponseMessage
    <2>2. addr[n] \notin {d.src, d.dst} /\ TrueToAddress(d)
      BY <1>1, <2>1 DEF Undisturbed, PromptNetwork, AttributionOK
    <2>3. n # Carried(d).from /\ n # Carried(d).to
      <3>1. CASE d.msg.type = "RELAY"
        <4>1. n \notin {d.msg.from, d.msg.dest}
          BY <1>1, <2>1, <3>1 DEF Undisturbed, PromptNetwork
        <4>2. Carried(d).from = d.msg.from /\ Carried(d).to = d.msg.dest
          BY <2>2, <3>1, HandshakeTypes DEF TrueToAddress
        <4> QED BY <4>1, <4>2
      <3>2. CASE d.msg.type # "RELAY"
        <4>1. /\ d.src = HomeAddr[Carried(d).from] /\ Carried(d).from \notin Roaming
              /\ d.dst = HomeAddr[Carried(d).to] /\ Carried(d).to \notin Roaming
          BY <2>2, <3>2, HandshakeTypes DEF TrueToAddress
        <4>2. d.src = addr[Carried(d).from] /\ d.dst = addr[Carried(d).to]
          BY <2>1, <4>1 DEF AttributionOK, AddressesOK
        <4> QED BY <2>2, <4>2
      <3> QED BY <3>1, <3>2
    <2> QED BY <2>3 DEF Asker
  <1>3. Views' = Views
    BY <1>1, SameViews
  <1>4. Handshakes' = Handshakes /\ (OneCopyEach => OneCopyEach')
    BY <1>1 DEF Handshakes, InFlight, OneCopyEach
  <1>5. Tokens(Views, up, Handshakes)
    BY DEF PromptOK, TokensOK
  <1>6. /\ Tokens(Views, up \cup {n}, Handshakes)
        /\ Agreement(Views, up, Handshakes) => Agreement(Views, up \cup {n}, Handshakes)
    BY <1>1, <1>2, <1>5, TokensStart
  <1> QED BY <1>1, <1>3, <1>4, <1>6 DEF PromptOK, TokensOK, AgreementOK, StillReady

(* Loss, datagrams to nobody, roaming, starts and stops; nothing is
   delivered twice. *)
LEMMA WorldPrompt ==
  ASSUME IInv, AttributionOK, PromptNetwork, PromptOK,
         \/ \E d \in InFlight : Lose(d) \/ Duplicate(d) \/ Vanish(d)
         \/ \E n \in Node, a \in Addr : Rebind(n, a)
         \/ \E n \in Node : Start(n) \/ Stop(n)
  PROVE  PromptOK' /\ StillReady
  <1>1. left \in Budgets /\ left.dup = 0
    BY DEF IInv, WorldOK, PromptOK, TokensOK, OneCopyEach
  <1>2. ASSUME NEW d \in InFlight, Lose(d) \/ Duplicate(d) \/ Vanish(d)
        PROVE  PromptOK' /\ StillReady
    <2>1. ~Duplicate(d)
      BY <1>1 DEF Duplicate
    <2>2. net' = Consume(d) /\ peers' = peers /\ up' = up
      BY <1>2, <2>1 DEF Lose, Vanish, world
    <2>3. left'.dup = left.dup
      <3> DEFINE loss == left.loss - 1
      <3>1. left' = left \/ left' = [left EXCEPT !.loss = loss]
        BY <1>2, <2>1 DEF Lose, Vanish
      <3> HIDE DEF loss
      <3> QED BY <1>1, <3>1 DEF Budgets
    <2> QED BY <2>2, <2>3, SameViews, GonePrompt, QuietPrompt
  <1>3. ASSUME NEW n \in Node, NEW a \in Addr, Rebind(n, a)
        PROVE  PromptOK' /\ StillReady
    <2>1. net' = net /\ peers' = peers /\ up' = up
      BY <1>3 DEF Rebind
    <2>2. left'.dup = left.dup
      <3> DEFINE rebinds == left.rebinds - 1
      <3>1. left' = [left EXCEPT !.rebinds = rebinds]
        BY <1>3 DEF Rebind
      <3> HIDE DEF rebinds
      <3> QED BY <1>1, <3>1 DEF Budgets
    <2>3. Handshakes' = Handshakes /\ (OneCopyEach => OneCopyEach')
      BY <2>1, <2>2 DEF Handshakes, InFlight, OneCopyEach
    <2> QED BY <2>1, <2>3, SameViews, QuietPrompt DEF PromptOK, TokensOK
  <1>4. ASSUME NEW n \in Node, Stop(n)
        PROVE  PromptOK' /\ StillReady
    <2>1. net' = net /\ Down(n)
      BY <1>4 DEF Stop
    <2>2. left'.dup = left.dup
      <3> DEFINE stops == left.stops - 1
      <3>1. left' = [left EXCEPT !.stops = stops]
        BY <1>4 DEF Stop
      <3> HIDE DEF stops
      <3> QED BY <1>1, <3>1 DEF Budgets
    <2>3. Handshakes' = Handshakes /\ (OneCopyEach => OneCopyEach')
      BY <2>1, <2>2 DEF Handshakes, InFlight, OneCopyEach
    <2> QED BY <2>1, <2>3, DownPrompt DEF PromptOK, TokensOK
  <1> QED BY <1>2, <1>3, <1>4, StartPrompt

-----------------------------------------------------------------------------

(* PromptOK holds initially: nobody has a session and nothing is sent. *)
LEMMA InitPrompt ==
  ASSUME PromptNetwork, Init
  PROVE  PromptOK
  <1>1. Sessions = {} /\ InFlight = {} /\ left.dup = 0
    BY BagEmpty DEF Init, Sessions, Known, InFlight, PromptNetwork
  <1>2. DOMAIN Views = {} /\ Handshakes = {}
    BY <1>1 DEF Views, Handshakes
  <1>3. Tokens(Views, up, Handshakes)
    BY <1>2 DEF Tokens, OneToken, Awaited, Unstuck
  <1>4. Agreement(Views, up, Handshakes)
    BY <1>2 DEF Agreement, AnswerHeld, Roles, KeysAgree
  <1> QED BY <1>1, <1>2, <1>3, <1>4 DEF PromptOK, TokensOK, AgreementOK, OneCopyEach

(* It is inductive relative to IInv and AttributionOK: one step per disjunct
   of Next. *)
LEMMA NextKeepsPrompt ==
  ASSUME AddressesIdentify, PromptNetwork
  PROVE  IInv /\ AttributionOK /\ PromptOK /\ [Next]_vars => PromptOK' /\ StillReady
  <1> SUFFICES ASSUME IInv, AttributionOK, PromptOK, [Next]_vars PROVE PromptOK' /\ StillReady
    OBVIOUS
  <1>1. CASE UNCHANGED vars
    <2>1. net' = net /\ peers' = peers /\ up' = up /\ left' = left
      BY <1>1 DEF vars
    <2>2. Handshakes' = Handshakes /\ (OneCopyEach => OneCopyEach')
      BY <2>1 DEF Handshakes, InFlight, OneCopyEach
    <2> QED BY <2>1, <2>2, SameViews, QuietPrompt DEF PromptOK, TokensOK
  <1>2. ASSUME NEW n \in Node, NEW p \in Node, PeerStep(n, p) PROVE PromptOK' /\ StillReady
    BY <1>2, PeerStepPrompt
  <1>3. ASSUME NEW n \in Node, NEW d \in InFlight, Receive(n, d) PROVE PromptOK' /\ StillReady
    BY <1>3, ReceivePrompt
  <1>4. CASE Tick
    BY <1>4, TickPrompt
  <1> QED BY <1>1, <1>2, <1>3, <1>4, WorldPrompt DEF Next

-----------------------------------------------------------------------------

(* PromptOK holds in every reachable state where the network is prompt. *)
THEOREM PromptInvariance ==
  ASSUME NEW flags, PlainFlags(flags), PromptNetwork
  PROVE  Spec => []PromptOK /\ [][StillReady]_vars
  <1>1. AddressesIdentify
    BY FlagsIdentify
  <1>2. Init => PromptOK
    BY InitPrompt
  <1>3. IInv /\ AttributionOK /\ PromptOK /\ [Next]_vars => PromptOK' /\ StillReady
    BY <1>1, NextKeepsPrompt
  <1>4. Spec => []IInv
    BY Invariance
  <1>5. Spec => []AttributionOK
    BY AttributionInvariance
  <1> QED BY <1>2, <1>3, <1>4, <1>5, PTL DEF Spec

(* In every execution whose datagrams arrive within a retry interval and once,
   no session is ever left in the state Init that handle_response puts back when
   read_message fails: each RESPONSE finds the Initiator it answers, whichever
   messages are lost, sends fail, relays forward and daemons restart. *)
THEOREM NeverStuck ==
  ASSUME NEW flags, PlainFlags(flags), PromptNetwork
  PROVE  Spec => []NeverStuckInInit
  <1>1. PromptOK => NeverStuckInInit
    BY DEF PromptOK, TokensOK, Tokens, Unstuck, Views, View, NeverStuckInInit
  <1> QED BY <1>1, PromptInvariance, PTL

(* A step that leaves the views Ready leaves the sessions so. *)
LEMMA ReadyFromViews ==
  ASSUME StillReady, NEW q \in ReadySessions, q[1] \in up', q[2] \in Known(q[1])'
  PROVE  IsReady(Session(q)')
  <1>1. q \in Sessions /\ q \in Sessions'
    BY DEF ReadySessions, Sessions
  <1>2. q \in DOMAIN Views /\ Views[q].tag = "Ready"
    BY <1>1 DEF ReadySessions, Views, View, IsReady
  <1>3. q \in DOMAIN Views' /\ Views'[q].tag = Session(q)'.state.tag
    BY <1>1, ViewsPrimed DEF View
  <1> QED BY <1>2, <1>3 DEF StillReady, IsReady

(* In the same executions, no message, failed send or timer takes a session
   that is Ready out of it, a relayed RESPONSE that fails to decrypt included: it
   ends only with its daemon. *)
THEOREM ReadyStays ==
  ASSUME NEW flags, PlainFlags(flags), PromptNetwork
  PROVE  Spec => ReadyIsKept
  <1>1. StillReady =>
           \A q \in ReadySessions :
               (q[1] \in up' /\ q[2] \in Known(q[1])') => IsReady(Session(q)')
    BY ReadyFromViews
  <1> QED BY <1>1, PromptInvariance, PTL DEF ReadyIsKept

(* Two Ready ends that do not rekey: one of them asks, so it has the key of the
   answer the other gave it. *)
LEMMA QuietFromPrompt ==
  ASSUME IInv, OneSided, PromptOK, NEW q \in ReadySessions, Reverse(q) \in ReadySessions,
         ~IsRekeying(Session(q)), ~IsRekeying(Session(Reverse(q)))
  PROVE  /\ TransportOf(q).key = TransportOf(Reverse(q)).key
         /\ TransportOf(q).side # TransportOf(Reverse(q)).side
  <1>1. /\ q \in DOMAIN Views /\ Reverse(q) \in DOMAIN Views
        /\ Views[q] = View(Session(q)) /\ Views[Reverse(q)] = View(Session(Reverse(q)))
    BY DEF Views, ReadySessions
  <1>2. /\ Views[q].asks = {}
        /\ Views[q].holds = {<<TransportOf(q).key, TransportOf(q).side>>}
    BY <1>1, ReadyView DEF ReadySessions, TransportOf
  <1>3. /\ Views[Reverse(q)].asks = {}
        /\ Views[Reverse(q)].holds
             = {<<TransportOf(Reverse(q)).key, TransportOf(Reverse(q)).side>>}
    BY <1>1, ReadyView DEF ReadySessions, TransportOf
  <1>4. q \in Node \X Node /\ Reverse(Reverse(q)) = q
    BY DEF ReadySessions, Sessions, Reverse
  <1>5. KeysAgree(Views) /\ Roles(Views, Handshakes)
    BY DEF PromptOK, AgreementOK, Agreement
  <1> DEFINE k == <<TransportOf(q).key, TransportOf(q).side>>
             l == <<TransportOf(Reverse(q)).key, TransportOf(Reverse(q)).side>>
  <1>6. k \in Views[q].holds /\ l \in Views[Reverse(q)].holds
    BY <1>2, <1>3
  <1>7. /\ k[1] = TransportOf(q).key /\ k[2] = TransportOf(q).side
        /\ l[1] = TransportOf(Reverse(q)).key /\ l[2] = TransportOf(Reverse(q)).side
    OBVIOUS
  <1> HIDE DEF k, l
  <1>8. /\ \/ k[2] = "initiator" /\ Asks(q)
           \/ k[2] = "responder" /\ Asks(Reverse(q))
        /\ \/ l[2] = "initiator" /\ Asks(Reverse(q))
           \/ l[2] = "responder" /\ Asks(q)
    BY <1>1, <1>4, <1>5, <1>6 DEF Roles
  <1>9. ~(Asks(q) /\ Asks(Reverse(q)))
    <2>1. /\ q[1] # q[2] /\ q[1] \in Node /\ q[2] \in Node
          /\ Reverse(q)[1] = q[2] /\ Reverse(q)[2] = q[1]
      BY <1>4, KnownView DEF ReadySessions, Sessions, Reverse
    <2> QED BY <2>1 DEF Asks, OneSided
  <1>10. k[1] = l[1]
    <2>1. CASE Asks(q)
      BY <1>1, <1>2, <1>5, <1>6, <2>1 DEF KeysAgree
    <2>2. CASE Asks(Reverse(q))
      BY <1>1, <1>3, <1>4, <1>5, <1>6, <2>2 DEF KeysAgree
    <2> QED BY <1>8, <2>1, <2>2
  <1> QED BY <1>7, <1>8, <1>9, <1>10

(* In the same executions of managers whose peers come from discovery, two ends
   that are Ready and not rekeying hold the two sides of one key, whatever was
   lost before: a responder that answers an INIT gives up its key at once, and
   its initiator is then rekeying until it has taken the new one. *)
THEOREM QuietEndsAgree ==
  ASSUME NEW flags, FromDiscovery(flags), PlainFlags(flags), PromptNetwork
  PROVE  Spec => []QuietMeansAgreed
  <1>1. OneSided
    BY DiscoveryOneSided
  <1>2. IInv /\ PromptOK => QuietMeansAgreed
    BY <1>1, QuietFromPrompt DEF QuietMeansAgreed
  <1>3. Spec => []IInv
    BY Invariance
  <1> QED BY <1>2, <1>3, PromptInvariance, PTL

-----------------------------------------------------------------------------
(* INITs in one window.                                                    *)
(*                                                                         *)
(* check_init_cookie counts the INITs of a session in a window of          *)
(* RATE_WINDOW.  Who asks is then silent for longer than that: until the   *)
(* retry, or until the next rekey is due.  Only a restart ends the silence *)
(* early, so a window has at most one INIT more than daemons were stopped. *)

(* The limit has room for the INITs of every restart, and the silence between
   two INITs of one session is no shorter than the window. *)
RoomForInits ==
    /\ RATE_WINDOW <= INIT_RETRY_INTERVAL /\ RATE_WINDOW <= REKEY_AFTER + 1
    /\ Budget.stops + 1 <= COOKIE_INIT_RATE_LIMIT

(* The time before s asks again. *)
Silence(s) ==
    IF IsInitiating(s) /\ s.next_init_at # None THEN s.next_init_at
    ELSE IF IsRekeying(s) THEN s.state.rehandshake.next_retry_at
    ELSE IF IsReady(s) /\ s.last_handshake_at # None
         THEN REKEY_AFTER + 1 - s.last_handshake_at
    ELSE REKEY_AFTER + 1

InWindow(s) == s.init_rx_window_start < RATE_WINDOW

(* The INITs that s has counted in its window, and what is left of that; a
   peer that is not there is never silent. *)
Pace(s) ==
    IF s = Absent THEN [count |-> 0, rest |-> 0, silent |-> -1]
    ELSE [count |-> IF InWindow(s) THEN s.init_rx_count ELSE 0,
          rest |-> IF InWindow(s) THEN RATE_WINDOW - s.init_rx_window_start ELSE 0,
          silent |-> Silence(s)]

Paces == [q \in Node \X Node |-> Pace(peers[q[1]][q[2]])]

(* The sessions with an INIT under way. *)
Asking == {<<m.from, m.to>> : m \in {x \in Messages : x.type = "INIT"}}

(* At most k + 1 INITs of u in a window, the one under way included; the last
   of them has been followed by silence. *)
Paced(P, I, k, u) ==
    LET r == P[Reverse(u)]
        inits == r.count + (IF u \in I THEN 1 ELSE 0)
    IN  /\ inits <= k + 1
        /\ inits = k + 1 => P[u].silent >= (IF u \in I THEN RATE_WINDOW ELSE r.rest)

Stopped == Budget.stops - left.stops

PaceRecord ==
    {r \in [count : Nat, rest : 0..RATE_WINDOW, silent : Int] : r.count > 0 => r.rest > 0}

(* Paces P after which askers I have an INIT under way, k daemons stopped. *)
AllPaced(P, I, k) ==
    /\ P \in [Node \X Node -> PaceRecord] /\ k \in Nat
    /\ \A u \in Node \X Node : Paced(P, I, k, u)

(* The invariant: INITs are paced in every session. *)
PacesOK == left.stops <= Budget.stops /\ AllPaced(Paces, Asking, Stopped)

(* One session is slower than before, or is silent for a whole window. *)
Slower(a, b) ==
    /\ b.count = a.count /\ (b.count > 0 => b.rest = a.rest)
    /\ b.silent >= a.silent \/ b.silent >= RATE_WINDOW

(* A session changes without asking. *)
LEMMA PacedSlower ==
  ASSUME NEW P, NEW I, NEW k, AllPaced(P, I, k), NEW q \in Node \X Node, q # Reverse(q),
         NEW b \in PaceRecord, Slower(P[q], b), NEW I2, I2 \subseteq I
  PROVE  AllPaced([P EXCEPT ![q] = b], I2, k)
  <1> DEFINE P2 == [P EXCEPT ![q] = b]
  <1>1. /\ P2 \in [Node \X Node -> PaceRecord] /\ P2[q] = b
        /\ \A u \in Node \X Node : u # q => P2[u] = P[u]
    BY DEF AllPaced
  <1> HIDE DEF P2
  <1>2. RATE_WINDOW \in Nat
    BY TimingAssumption
  <1>3. ASSUME NEW u \in Node \X Node PROVE Paced(P2, I2, k, u)
    <2>1. Reverse(u) \in Node \X Node /\ Reverse(Reverse(u)) = u
      BY ReversePairs
    <2>2. /\ P[u] \in PaceRecord /\ P[Reverse(u)] \in PaceRecord /\ k \in Nat
          /\ Paced(P, I, k, u)
      BY <2>1 DEF AllPaced
    <2>3. CASE u = q
      <3>1. P2[Reverse(u)] = P[Reverse(u)] /\ P2[u] = b
        BY <1>1, <2>1, <2>3
      <3> QED BY <1>2, <2>2, <2>3, <3>1 DEF Paced, Slower, PaceRecord
    <2>4. CASE Reverse(u) = q
      <3>1. P2[Reverse(u)] = b /\ P2[u] = P[u]
        BY <1>1, <2>1, <2>4
      <3> QED BY <1>2, <2>2, <2>4, <3>1 DEF Paced, Slower, PaceRecord
    <2>5. CASE u # q /\ Reverse(u) # q
      <3>1. P2[Reverse(u)] = P[Reverse(u)] /\ P2[u] = P[u]
        BY <1>1, <2>1, <2>5
      <3> QED BY <1>2, <2>2, <3>1 DEF Paced, PaceRecord
    <2> QED BY <2>3, <2>4, <2>5
  <1> QED BY <1>1, <1>3 DEF AllPaced, P2

(* Who was silent for long enough asks. *)
LEMMA PacedAsk ==
  ASSUME NEW P, NEW I, NEW k, AllPaced(P, I, k), NEW q \in Node \X Node, q # Reverse(q),
         P[q].silent <= 0, q \notin I,
         NEW b \in PaceRecord, Slower(P[q], b), b.silent >= RATE_WINDOW,
         NEW I2, I2 \subseteq I \cup {q}
  PROVE  AllPaced([P EXCEPT ![q] = b], I2, k)
  <1> DEFINE P2 == [P EXCEPT ![q] = b]
  <1>1. /\ P2 \in [Node \X Node -> PaceRecord] /\ P2[q] = b
        /\ \A u \in Node \X Node : u # q => P2[u] = P[u]
    BY DEF AllPaced
  <1> HIDE DEF P2
  <1>2. RATE_WINDOW \in Nat
    BY TimingAssumption
  <1>3. ASSUME NEW u \in Node \X Node PROVE Paced(P2, I2, k, u)
    <2>1. Reverse(u) \in Node \X Node /\ Reverse(Reverse(u)) = u
      BY ReversePairs
    <2>2. /\ P[u] \in PaceRecord /\ P[Reverse(u)] \in PaceRecord /\ k \in Nat
          /\ Paced(P, I, k, u)
      BY <2>1 DEF AllPaced
    <2>3. CASE u = q
      <3>1. P2[Reverse(u)] = P[Reverse(u)] /\ P2[u] = b
        BY <1>1, <2>1, <2>3
      <3>2. P[Reverse(u)].count <= k
        BY <1>2, <2>2, <2>3 DEF Paced, PaceRecord
      <3> QED BY <1>2, <2>2, <2>3, <3>1, <3>2 DEF Paced, PaceRecord
    <2>4. CASE Reverse(u) = q
      <3>1. P2[Reverse(u)] = b /\ P2[u] = P[u] /\ (u \in I2 => u \in I)
        BY <1>1, <2>1, <2>4
      <3> QED BY <1>2, <2>2, <2>4, <3>1 DEF Paced, Slower, PaceRecord
    <2>5. CASE u # q /\ Reverse(u) # q
      <3>1. /\ P2[Reverse(u)] = P[Reverse(u)] /\ P2[u] = P[u]
            /\ u \in I2 => u \in I
        BY <1>1, <2>1, <2>5
      <3> QED BY <1>2, <2>2, <3>1 DEF Paced, PaceRecord
    <2> QED BY <2>3, <2>4, <2>5
  <1> QED BY <1>1, <1>3 DEF AllPaced, P2

(* An INIT is counted by the session it is for. *)
LEMMA PacedCount ==
  ASSUME NEW P, NEW I, NEW k, AllPaced(P, I, k), NEW q \in Node \X Node, q # Reverse(q),
         Reverse(q) \in I,
         NEW b \in PaceRecord, b.count <= P[q].count + 1,
         b.silent >= P[q].silent \/ b.silent >= RATE_WINDOW,
         NEW I2, I2 \subseteq I \ {Reverse(q)}
  PROVE  AllPaced([P EXCEPT ![q] = b], I2, k)
  <1> DEFINE P2 == [P EXCEPT ![q] = b]
  <1>1. /\ P2 \in [Node \X Node -> PaceRecord] /\ P2[q] = b
        /\ \A u \in Node \X Node : u # q => P2[u] = P[u]
    BY DEF AllPaced
  <1> HIDE DEF P2
  <1>2. RATE_WINDOW \in Nat
    BY TimingAssumption
  <1>3. ASSUME NEW u \in Node \X Node PROVE Paced(P2, I2, k, u)
    <2>1. Reverse(u) \in Node \X Node /\ Reverse(Reverse(u)) = u
      BY ReversePairs
    <2>2. /\ P[u] \in PaceRecord /\ P[Reverse(u)] \in PaceRecord /\ k \in Nat
          /\ Paced(P, I, k, u)
      BY <2>1 DEF AllPaced
    <2>3. CASE u = q
      <3>1. /\ P2[Reverse(u)] = P[Reverse(u)] /\ P2[u] = b
            /\ u \in I2 => u \in I
        BY <1>1, <2>1, <2>3
      <3> QED BY <1>2, <2>2, <2>3, <3>1 DEF Paced, PaceRecord
    <2>4. CASE Reverse(u) = q
      <3>1. P2[Reverse(u)] = b /\ P2[u] = P[u] /\ u \in I /\ u \notin I2
        BY <1>1, <2>1, <2>4
      <3> QED BY <1>2, <2>2, <2>4, <3>1 DEF Paced, PaceRecord
    <2>5. CASE u # q /\ Reverse(u) # q
      <3>1. /\ P2[Reverse(u)] = P[Reverse(u)] /\ P2[u] = P[u]
            /\ u \in I2 => u \in I
        BY <1>1, <2>1, <2>5
      <3> QED BY <1>2, <2>2, <3>1 DEF Paced, PaceRecord
    <2> QED BY <2>3, <2>4, <2>5
  <1> QED BY <1>1, <1>3 DEF AllPaced, P2

(* A unit of time passes, with nothing under way. *)
LEMMA PacedTick ==
  ASSUME NEW P, NEW k, AllPaced(P, {}, k), NEW P2 \in [Node \X Node -> PaceRecord],
         \A u \in Node \X Node :
             /\ P2[u].silent >= P[u].silent - 1
             /\ \/ P2[u].count = 0
                \/ P2[u].count = P[u].count /\ P2[u].rest = P[u].rest - 1
  PROVE  AllPaced(P2, {}, k)
  <1>1. ASSUME NEW u \in Node \X Node PROVE Paced(P2, {}, k, u)
    <2>1. Reverse(u) \in Node \X Node
      BY ReversePairs
    <2>2. /\ P[u] \in PaceRecord /\ P[Reverse(u)] \in PaceRecord /\ k \in Nat
          /\ P2[u] \in PaceRecord /\ P2[Reverse(u)] \in PaceRecord
          /\ Paced(P, {}, k, u)
      BY <2>1 DEF AllPaced
    <2> QED BY <2>1, <2>2 DEF Paced, PaceRecord
  <1> QED BY <1>1 DEF AllPaced

(* A daemon is stopped. *)
LEMMA PacedStop ==
  ASSUME NEW P, NEW I, NEW k, AllPaced(P, I, k), NEW P2 \in [Node \X Node -> PaceRecord],
         \A u \in Node \X Node : P2[u].count <= P[u].count
  PROVE  AllPaced(P2, I, k + 1)
  <1>1. ASSUME NEW u \in Node \X Node PROVE Paced(P2, I, k + 1, u)
    <2>1. Reverse(u) \in Node \X Node
      BY ReversePairs
    <2>2. /\ P[u] \in PaceRecord /\ P[Reverse(u)] \in PaceRecord /\ k \in Nat
          /\ P2[u] \in PaceRecord /\ P2[Reverse(u)] \in PaceRecord
          /\ Paced(P, I, k, u)
      BY <2>1 DEF AllPaced
    <2> QED BY <2>1, <2>2 DEF Paced, PaceRecord
  <1> QED BY <1>1 DEF AllPaced

(* An INIT is gone, or nothing has happened. *)
LEMMA PacedGone ==
  ASSUME NEW P, NEW I, NEW k, AllPaced(P, I, k), NEW I2, I2 \subseteq I
  PROVE  AllPaced(P, I2, k)
  <1>1. ASSUME NEW u \in Node \X Node PROVE Paced(P, I2, k, u)
    <2>1. Reverse(u) \in Node \X Node
      BY ReversePairs
    <2>2. /\ P[u] \in PaceRecord /\ P[Reverse(u)] \in PaceRecord /\ k \in Nat
          /\ Paced(P, I, k, u)
      BY <2>1 DEF AllPaced
    <2> QED BY <2>2, TimingAssumption DEF Paced, PaceRecord
  <1> QED BY <1>1 DEF AllPaced

-----------------------------------------------------------------------------
(* Paces of sessions. *)

(* The pace of a session is typed, and of no session too. *)
LEMMA PaceTyped ==
  ASSUME NEW s \in PeerSession \cup {Absent}
  PROVE  Pace(s) \in PaceRecord
  <1>1. RATE_WINDOW \in Nat /\ REKEY_AFTER \in Nat
    BY TimingAssumption
  <1>2. CASE s = Absent
    BY <1>1, <1>2 DEF Pace, PaceRecord
  <1>3. CASE s # Absent
    <2>1. /\ s.init_rx_count \in Nat /\ s.init_rx_window_start \in Nat
          /\ s.next_init_at \in Nat \cup {None} /\ s.last_handshake_at \in Nat \cup {None}
      BY <1>3 DEF PeerSession
    <2>2. IsRekeying(s) => s.state.rehandshake.next_retry_at \in Nat
      BY <1>3, ReadyStates DEF Rehandshake
    <2>3. Silence(s) \in Int
      BY <1>1, <2>1, <2>2 DEF Silence
    <2> QED BY <1>1, <1>3, <2>1, <2>3 DEF Pace, PaceRecord, InWindow
  <1> QED BY <1>2, <1>3

(* One session changes. *)
LEMMA InstallPaces ==
  ASSUME IInv, NEW n \in Node, NEW p \in Node, NEW r, Install(n, p, r)
  PROVE  /\ Paces[<<n, p>>] = Pace(peers[n][p])
         /\ Paces' = [Paces EXCEPT ![<<n, p>>] = Pace(r)]
  <1>1. \A u \in Node \X Node : peers'[u[1]][u[2]] =
           IF u = <<n, p>> THEN r ELSE peers[u[1]][u[2]]
    BY DEF IInv, TablesOK, Install
  <1>2. Paces' = [u \in Node \X Node |-> Pace(peers'[u[1]][u[2]])]
    BY DEF Paces, Pace, InWindow, Silence, IsInitiating, IsRekeying, IsReady
  <1>3. Paces' = [u \in Node \X Node |->
                     IF u = <<n, p>> THEN Pace(r) ELSE Pace(peers[u[1]][u[2]])]
    BY <1>1, <1>2
  <1> QED BY <1>3 DEF Paces

(* What silence depends on. *)
LEMMA SilenceKept ==
  ASSUME NEW s \in PeerSession, NEW r \in PeerSession, r.state.tag = s.state.tag,
         IsReady(s) => r.state.rehandshake = s.state.rehandshake,
         IsInitiating(s) => r.next_init_at = s.next_init_at,
         r.last_handshake_at = s.last_handshake_at
  PROVE  Silence(r) = Silence(s)
  BY DEF Silence, IsInitiating, IsRekeying, IsReady

(* A new key leaves a session silent until its next rekey, or its retry. *)
LEMMA NewKeySilence ==
  ASSUME NEW s \in PeerSession, NEW r \in PeerSession,
         IsReady(r), r.last_handshake_at = 0
  PROVE  /\ ~IsRekeying(r) => Silence(r) = REKEY_AFTER + 1
         /\ (IsReady(s) /\ r.state.rehandshake = s.state.rehandshake)
                => Silence(r) >= Silence(s)
         /\ (IsResponding(s) /\ ~IsRekeying(r)) => Silence(r) >= Silence(s)
  <1>1. REKEY_AFTER \in Nat /\ None \notin Nat
    BY TimingAssumption, NoneAssumption
  <1>2. ~IsInitiating(r) /\ (IsReady(s) \/ IsResponding(s) => ~IsInitiating(s))
    BY DEF IsReady, IsResponding, IsInitiating
  <1>3. s.last_handshake_at \in Nat \cup {None}
    BY DEF PeerSession
  <1>4. ~IsRekeying(r) => Silence(r) = REKEY_AFTER + 1
    BY <1>1, <1>2 DEF Silence
  <1>5. ASSUME IsReady(s), r.state.rehandshake = s.state.rehandshake
        PROVE  Silence(r) >= Silence(s)
    <2>1. IsRekeying(r) <=> IsRekeying(s)
      BY <1>5 DEF IsRekeying
    <2>2. CASE IsRekeying(s)
      <3>1. Silence(r) = Silence(s)
        BY <1>2, <1>5, <2>1, <2>2 DEF Silence
      <3>2. Silence(s) \in Int
        BY <1>2, <1>5, <2>2, ReadyStates DEF Silence, Rehandshake
      <3> QED BY <3>1, <3>2
    <2>3. CASE ~IsRekeying(s)
      BY <1>1, <1>2, <1>3, <1>4, <1>5, <2>1, <2>3 DEF Silence
    <2> QED BY <2>2, <2>3
  <1>6. ASSUME IsResponding(s), ~IsRekeying(r)
        PROVE  Silence(r) >= Silence(s)
    <2>1. ~IsReady(s) /\ ~IsRekeying(s)
      BY <1>6 DEF IsResponding, IsReady, IsRekeying
    <2> QED BY <1>1, <1>2, <1>4, <1>6, <2>1 DEF Silence
  <1> QED BY <1>4, <1>5, <1>6

(* A session that counts no INIT. *)
LEMMA SlowerKept ==
  ASSUME NEW s \in PeerSession, NEW r \in PeerSession,
         r.init_rx_count = s.init_rx_count,
         r.init_rx_window_start = s.init_rx_window_start,
         \/ Silence(r) = Silence(s)
         \/ Silence(r) >= Silence(s)
         \/ Silence(r) >= RATE_WINDOW
  PROVE  Slower(Pace(s), Pace(r))
  <1>1. s # Absent /\ r # Absent
    BY NoneAssumption
  <1>2. Silence(s) \in Int
    BY <1>1, PaceTyped DEF Pace, PaceRecord
  <1> QED BY <1>1, <1>2 DEF Slower, Pace, InWindow

(* No daemon is stopped by a send that fails. *)
LEMMA ChargedStops ==
  ASSUME IInv, NEW ok, ChargeError(ok)
  PROVE  left'.stops = left.stops
  <1> DEFINE errors == left.errors - 1
  <1>1. left \in Budgets
    BY DEF IInv, WorldOK
  <1>2. left' = left \/ left' = [left EXCEPT !.errors = errors]
    BY DEF ChargeError
  <1> HIDE DEF errors
  <1> QED BY <1>1, <1>2 DEF Budgets

(* The INITs under way, after a step that sends none. *)
LEMMA AskingFrom ==
  ASSUME \A m \in Messages' : m \in Messages \/ m.type # "INIT"
  PROVE  Asking' \subseteq Asking
  BY DEF Asking

(* Sessions ask in the datagrams of handshakes. *)
LEMMA AskingTokens ==
  ASSUME NEW q \in Asking
  PROVE  \E d \in Handshakes : Carried(d).type = "INIT" /\ Asker(d) = q
  BY DEF Asking, Messages, Handshakes, Carried, Asker, IsHandshake

(* A step of one session that sends no INIT, and counts none. *)
LEMMA QuietPaces ==
  ASSUME IInv, PacesOK, NEW n \in Node, NEW p \in Node, p # n,
         NEW r \in PeerSession, Install(n, p, r), left'.stops = left.stops,
         Slower(Pace(peers[n][p]), Pace(r)), Asking' \subseteq Asking
  PROVE  PacesOK'
  <1> DEFINE q == <<n, p>>
  <1>1. Paces[q] = Pace(peers[n][p]) /\ Paces' = [Paces EXCEPT ![q] = Pace(r)]
    BY InstallPaces
  <1>2. q \in Node \X Node /\ q # Reverse(q)
    BY DEF Reverse
  <1>3. Pace(r) \in PaceRecord
    BY PaceTyped
  <1>4. Stopped' = Stopped
    BY DEF Stopped
  <1> HIDE DEF q
  <1> DEFINE b == Pace(r)
  <1> HIDE DEF b
  <1>5. AllPaced([Paces EXCEPT ![q] = b], Asking', Stopped)
    BY <1>1, <1>2, <1>3, PacedSlower DEF PacesOK, b
  <1> QED BY <1>1, <1>4, <1>5 DEF PacesOK, b

(* A step that leaves the sessions alone and sends no INIT. *)
LEMMA SamePaces ==
  ASSUME PacesOK, peers' = peers, left'.stops = left.stops, Asking' \subseteq Asking
  PROVE  PacesOK'
  <1>1. Paces' = Paces
    BY DEF Paces, Pace, InWindow, Silence, IsInitiating, IsRekeying, IsReady
  <1>2. Stopped' = Stopped
    BY DEF Stopped
  <1>3. AllPaced(Paces, Asking', Stopped)
    BY PacedGone DEF PacesOK
  <1> QED BY <1>1, <1>2, <1>3 DEF PacesOK

-----------------------------------------------------------------------------
(* Paces of the sessions that datagrams reach. *)

(* A datagram that is heard changes no pace; one that is counted, the count. *)
LEMMA HeardPace ==
  ASSUME IInv, NEW n \in Node, NEW p \in Known(n), NEW src \in Addr,
         NEW h \in {Heard(n, p, src), HeardRelayed(n, p)}
  PROVE  LET s == peers[n][p] IN
         /\ h \in PeerSession /\ s \in PeerSession /\ h.state = s.state
         /\ h.init_rx_count = s.init_rx_count
         /\ h.init_rx_window_start = s.init_rx_window_start
         /\ Silence(h) = Silence(s)
  <1> DEFINE s == peers[n][p]
  <1>1. s \in PeerSession
    BY KnownSession DEF IInv, Legal
  <1>2. h \in PeerSession /\ h.state = s.state
    BY HeardState DEF LegalHeard, Legal
  <1>3. /\ h.next_init_at = s.next_init_at /\ h.last_handshake_at = s.last_handshake_at
        /\ h.init_rx_count = s.init_rx_count
        /\ h.init_rx_window_start = s.init_rx_window_start
    BY <1>1 DEF Heard, HeardRelayed, PeerSession
  <1>4. Silence(h) = Silence(s)
    <2> HIDE DEF s
    <2> QED BY <1>1, <1>2, <1>3, SilenceKept
  <1> QED BY <1>1, <1>2, <1>3, <1>4

(* What an INIT makes of a session that answers it or cannot. *)
LEMMA AnsweredPace ==
  ASSUME NEW s, LegalHeard(s), NEW t,
         NEW r, \/ r = s
                \/ IsReady(s) /\ t \in Transport /\ r = RekeyAsResponder(s, t)
                \/ IsResponding(s) /\ t \in Transport /\ r = BecomeReady(s, t)
                \/ IsResponding(s) /\ r \in {[s EXCEPT !.state.spent = TRUE],
                                             [s EXCEPT !.state = FreshResponder]}
  PROVE  /\ r \in PeerSession /\ r.init_rx_count = s.init_rx_count
         /\ r.init_rx_window_start = s.init_rx_window_start
         /\ Silence(r) >= Silence(s)
  <1>1. s \in PeerSession /\ s # Absent
    BY NoneAssumption DEF LegalHeard, Legal
  <1>2. Silence(s) \in Int
    BY <1>1, PaceTyped DEF Pace, PaceRecord
  <1>3. CASE r = s
    BY <1>1, <1>2, <1>3
  <1>4. CASE IsReady(s) /\ t \in Transport /\ r = RekeyAsResponder(s, t)
    <2> DEFINE ready == [s.state EXCEPT !.transport = t]
    <2>1. r = [s EXCEPT !.state = ready, !.last_handshake_at = 0, !.stale = FALSE]
      BY <1>4 DEF RekeyAsResponder
    <2>2. r \in PeerSession
      BY <1>1, <1>4, RekeyAsResponderLegal DEF Legal
    <2>3. s.state \in ReadyState
      BY <1>1, <1>4, ReadyStates
    <2>4. ready.tag = "Ready" /\ ready.rehandshake = s.state.rehandshake
      BY <2>3 DEF ReadyState
    <2> HIDE DEF ready
    <2>5. /\ r.state = ready /\ r.last_handshake_at = 0
          /\ r.init_rx_count = s.init_rx_count
          /\ r.init_rx_window_start = s.init_rx_window_start
      BY <1>1, <2>1 DEF PeerSession
    <2>6. IsReady(r)
      BY <2>4, <2>5 DEF IsReady
    <2> QED BY <1>1, <1>4, <2>2, <2>4, <2>5, <2>6, NewKeySilence
  <1>5. CASE IsResponding(s) /\ t \in Transport /\ r = BecomeReady(s, t)
    <2> DEFINE ready == Established(t)
    <2>1. r = [s EXCEPT !.state = ready, !.last_handshake_at = 0, !.last_rx_at = 0]
      BY <1>5 DEF BecomeReady
    <2>2. r \in PeerSession
      BY <1>1, <1>5, BecomeReadyLegal DEF Legal
    <2>3. ready.tag = "Ready" /\ ready.rehandshake = None
      BY DEF Established
    <2> HIDE DEF ready
    <2>4. /\ r.state = ready /\ r.last_handshake_at = 0
          /\ r.init_rx_count = s.init_rx_count
          /\ r.init_rx_window_start = s.init_rx_window_start
      BY <1>1, <2>1 DEF PeerSession
    <2>5. IsReady(r) /\ ~IsRekeying(r)
      BY <2>3, <2>4 DEF IsReady, IsRekeying
    <2> QED BY <1>1, <1>5, <2>2, <2>4, <2>5, NewKeySilence
  <1>6. CASE IsResponding(s) /\ r \in {[s EXCEPT !.state.spent = TRUE],
                                       [s EXCEPT !.state = FreshResponder]}
    <2> DEFINE spent == [s.state EXCEPT !.spent = TRUE]
    <2>1. s.state \in ResponderState
      BY <1>1, <1>6, ReadyStates
    <2>2. spent.tag = "HandshakingAsResponder"
      BY <2>1 DEF ResponderState
    <2>3. FreshResponder.tag = "HandshakingAsResponder"
      BY DEF FreshResponder
    <2>4. PICK state : r = [s EXCEPT !.state = state] /\ state.tag = "HandshakingAsResponder"
      <3>1. [s EXCEPT !.state.spent = TRUE] = [s EXCEPT !.state = spent]
        OBVIOUS
      <3> HIDE DEF spent
      <3> QED BY <1>6, <2>2, <2>3, <3>1
    <2>5. r \in PeerSession
      BY <1>1, <1>6, ResponderLegal DEF Legal
    <2>6. /\ r.state = state /\ r.last_handshake_at = s.last_handshake_at
          /\ r.init_rx_count = s.init_rx_count
          /\ r.init_rx_window_start = s.init_rx_window_start
      BY <1>1, <2>4 DEF PeerSession
    <2>7. ~IsReady(s) /\ ~IsInitiating(s) /\ s.state.tag = "HandshakingAsResponder"
      BY <1>6 DEF IsResponding, IsReady, IsInitiating
    <2>8. Silence(r) = Silence(s)
      BY <1>1, <2>4, <2>5, <2>6, <2>7, SilenceKept
    <2> QED BY <1>2, <2>5, <2>6, <2>8
  <1> QED BY <1>3, <1>4, <1>5, <1>6

(* An INIT that is answered, or not, is no longer under way. *)
LEMMA AnswerPace ==
  ASSUME IInv, PromptOK, NEW n \in Node, NEW p \in Known(n), NEW s, LegalHeard(s),
         NEW d \in InFlight, NEW m \in InitMessage, m = Carried(d), m.from = p,
         NEW relayed \in BOOLEAN, AnswerInit(n, p, s, d, m, relayed)
  PROVE  /\ left'.stops = left.stops /\ Asking' \subseteq Asking \ {Asker(d)}
         /\ \E r \in PeerSession :
               /\ Install(n, p, r) /\ r.init_rx_count = s.init_rx_count
               /\ r.init_rx_window_start = s.init_rx_window_start
               /\ Silence(r) >= Silence(s)
  <1> DEFINE answers == IsResponding(s) \/ (IsReady(s) /\ ~relayed)
             accepts == /\ ConsumesInit(n, m, age[m.eph])
                        /\ IsResponding(s) => ~s.state.spent
             t == NewTransport(Fresh, "responder", m.from)
             response == WriteResponse(n, m, Fresh)
             reply == [src |-> addr[n], dst |-> d.src,
                       msg |-> IF relayed
                               THEN [type |-> "RELAY", from |-> n, dest |-> p,
                                     inner |-> response]
                               ELSE response]
             spent == [s EXCEPT !.state.spent = TRUE]
             unspent == [s EXCEPT !.state = FreshResponder]
             session(ok) == CASE IsReady(s) /\ ok -> RekeyAsResponder(s, t)
                              [] IsReady(s) /\ ~ok -> s
                              [] ~IsReady(s) /\ ok -> BecomeReady(s, t)
                              [] OTHER -> spent
             outcome(r) == /\ r \in PeerSession /\ r.init_rx_count = s.init_rx_count
                           /\ r.init_rx_window_start = s.init_rx_window_start
                           /\ Silence(r) >= Silence(s)
  <1>1. d \in Handshakes /\ m.type = "INIT" /\ OneToken(Handshakes) /\ OneCopyEach
    BY DEF Handshakes, IsHandshake, Carried, InitMessage, PromptOK, TokensOK, Tokens
  <1>2. ASSUME NEW S, \A x \in S : Carried(x).type = "RESPONSE" /\ x \notin Handshakes,
               net' = Consume(d) \/ net' = Consume(d) (+) Delivered(S),
               left'.dup = left.dup
        PROVE  Asking' \subseteq Asking \ {Asker(d)}
    <2>1. Handshakes' \subseteq (Handshakes \ {d}) \cup {x \in S : IsHandshake(Inner(x.msg))}
      BY <1>1, <1>2, TakenOnce
    <2>2. ASSUME NEW q \in Asking' PROVE q \in Asking \ {Asker(d)}
      <3>1. PICK f \in Handshakes' : Carried(f).type = "INIT" /\ Asker(f) = q
        <4>1. PICK x \in InFlight' : Inner(x.msg).type = "INIT"
                                     /\ q = <<Inner(x.msg).from, Inner(x.msg).to>>
          BY <2>2 DEF Asking, Messages
        <4> QED BY <4>1 DEF Handshakes, Carried, Asker, IsHandshake
      <3>2. f \in Handshakes /\ f # d
        BY <1>2, <2>1, <3>1
      <3>3. Asker(f) # Asker(d)
        BY <1>1, <3>2 DEF OneToken
      <3>4. q \in Asking
        BY <3>1, <3>2 DEF Asking, Messages, Handshakes, Carried, Asker
      <3> QED BY <3>1, <3>3, <3>4
    <2> QED BY <2>2
  <1>3. CASE ~(answers /\ accepts)
    <2>1. /\ net' = Consume(d) /\ left' = left
          /\ Install(n, p, IF IsResponding(s) THEN unspent ELSE s)
      BY <1>3 DEF AnswerInit
    <2>2. PICK S : S = {}
      OBVIOUS
    <2>3. /\ left'.dup = left.dup
          /\ \A x \in S : Carried(x).type = "RESPONSE" /\ x \notin Handshakes
      BY <2>1, <2>2
    <2>4. outcome(IF IsResponding(s) THEN unspent ELSE s)
      BY AnsweredPace
    <2> HIDE DEF unspent, answers, accepts, reply, session
    <2>5. Asking' \subseteq Asking \ {Asker(d)}
      BY <1>2, <2>1, <2>3
    <2> QED BY <2>1, <2>4, <2>5
  <1>4. CASE answers /\ accepts
    <2>1. Unused # {} /\ m.to = n /\ t \in Transport
      BY <1>4, FreshOK DEF AnswerInit, ConsumesInit, NewTransport, Transport, Side, InitMessage
    <2>2. PICK ok \in SendOutcomes :
                /\ net' = Consume(d) (+) (IF ok THEN Delivered({reply}) ELSE EmptyBag)
                /\ ChargeError(ok)
                /\ Install(n, p, session(ok))
      BY <1>4 DEF AnswerInit
    <2>3. left'.dup = left.dup /\ left'.stops = left.stops
      BY <2>2, ChargedDup, ChargedStops
    <2>4. Carried(reply) = WriteResponse(n, m, Fresh)
      BY DEF Carried, Inner, WriteResponse
    <2>5. outcome(session(ok))
      <3>1. \/ session(ok) = s
            \/ IsReady(s) /\ session(ok) = RekeyAsResponder(s, t)
            \/ IsResponding(s) /\ session(ok) = BecomeReady(s, t)
            \/ IsResponding(s) /\ session(ok) = spent
        BY <1>4
      <3> HIDE DEF session, t
      <3> QED BY <2>1, <3>1, AnsweredPace
    <2> DEFINE S == IF ok THEN {reply} ELSE {}
    <2> HIDE DEF reply, session
    <2>6. net' = Consume(d) (+) Delivered(S)
      BY <2>2, MaybeDelivered
    <2>7. \A x \in S : Carried(x).type = "RESPONSE" /\ x \notin Handshakes
      <3>1. p \in Node
        BY KnownView
      <3>2. Carried(reply).type = "RESPONSE" /\ reply \notin Handshakes
        BY <1>1, <2>1, <2>4, <3>1, AnswerNew
      <3> QED BY <3>2
    <2> HIDE DEF S
    <2>8. Asking' \subseteq Asking \ {Asker(d)}
      BY <1>2, <2>3, <2>6, <2>7
    <2> QED BY <2>2, <2>3, <2>5, <2>8
  <1> QED BY <1>3, <1>4

(* What is consumed, and what is sent that is no INIT, adds nobody who asks. *)
LEMMA TakenAsking ==
  ASSUME IInv, NEW d \in InFlight, NEW x, Inner(x.msg).type # "INIT" \/ Inner(x.msg) \in Messages,
         NEW ok, \/ net' = Consume(d)
                 \/ net' = Consume(d) (+) (IF ok THEN Delivered({x}) ELSE EmptyBag)
  PROVE  Asking' \subseteq Asking
  <1>1. PICK B : B = Consume(d)
    OBVIOUS
  <1>2. IsABag(B) /\ BagToSet(B) \subseteq InFlight
    BY <1>1, CopiesTaken DEF IInv, WorldOK, InFlight, Consume
  <1>3. Messages' \subseteq Messages \cup {Inner(x.msg)}
    <2>1. CASE net' = Consume(d)
      BY <2>1, MessagesConsumed
    <2>2. CASE net' = B (+) (IF ok THEN Delivered({x}) ELSE EmptyBag)
      BY <1>2, <2>2, MessagesMaybeSent
    <2> QED BY <1>1, <2>1, <2>2
  <1> QED BY <1>3, AskingFrom

(* An INIT that arrives is counted, and there is room for it. *)
LEMMA ReceiveInitPaces ==
  ASSUME IInv, AttributionOK, AddressesIdentify, PromptOK, RoomForInits, PacesOK,
         NEW n \in Node, NEW d \in InFlight, ReceiveInit(n, d)
  PROVE  PacesOK' /\ up' = up
  <1>1. PICK p : p = Sender(n, d.src, d.msg)
    OBVIOUS
  <1> DEFINE q == <<n, p>>
             h == Heard(n, p, d.src)
             s == CountInit(h)
             m == d.msg
  <1>2. Arrives(n, d) /\ m.type = "INIT" /\ p # None
    BY <1>1 DEF ReceiveInit
  <1>3. m \in InitMessage /\ IsHandshake(m) /\ m = Carried(d)
    BY <1>2, DatagramTypes DEF IInv, IsHandshake, Carried, Inner
  <1>4. /\ p \in Known(n) /\ d.src \in Addr /\ m.from = p
        /\ p \in Node /\ p # n
    <2>1. p \in Known(n) /\ d.src \in Addr /\ m.from = p
      BY <1>1, <1>2, <1>3, SenderTrue
    <2> QED BY <2>1, KnownView
  <1>5. m.to = n
    <2>1. m.to \in Node \ Roaming /\ addr[n] = HomeAddr[m.to]
      <3>1. m.to \in Node
        BY <1>3 DEF InitMessage
      <3> QED BY <1>2, <1>3, <3>1 DEF AttributionOK, TrueToAddress, Arrives
    <2> QED BY <2>1 DEF AttributionOK, AddressesOK
  <1>6. /\ Asker(d) = Reverse(q) /\ Reverse(q) \in Asking
        /\ q \in Node \X Node /\ q # Reverse(q)
        /\ Reverse(q) \in Node \X Node /\ Reverse(Reverse(q)) = q
    BY <1>2, <1>3, <1>4, <1>5 DEF Asker, Reverse, Asking, Messages, Carried
  <1>7. /\ h \in PeerSession /\ peers[n][p] \in PeerSession
        /\ h.init_rx_count = peers[n][p].init_rx_count
        /\ h.init_rx_window_start = peers[n][p].init_rx_window_start
        /\ Silence(h) = Silence(peers[n][p]) /\ LegalHeard(h)
    <2>1. LegalHeard(h)
      BY <1>4, HeardState
    <2> QED BY <1>4, <2>1, HeardPace
  <1> HIDE DEF h
  <1>8. /\ LegalHeard(s) /\ s \in PeerSession /\ Silence(s) = Silence(h)
        /\ s.init_rx_count = IF InWindow(h) THEN h.init_rx_count + 1 ELSE 1
        /\ s.init_rx_window_start = IF InWindow(h) THEN h.init_rx_window_start ELSE 0
    <2> DEFINE count == IF h.init_rx_window_start >= RATE_WINDOW
                        THEN 1 ELSE h.init_rx_count + 1
               start == IF h.init_rx_window_start >= RATE_WINDOW
                        THEN 0 ELSE h.init_rx_window_start
    <2>1. s = [h EXCEPT !.init_rx_count = count, !.init_rx_window_start = start]
      BY DEF CountInit
    <2>2. LegalHeard(s) /\ s \in PeerSession /\ s.state = h.state
      BY <1>7, CountInitLegal DEF LegalHeard, Legal
    <2>3. RATE_WINDOW \in Nat /\ h.init_rx_window_start \in Nat
      BY <1>7, TimingAssumption DEF PeerSession
    <2>4. /\ count = IF InWindow(h) THEN h.init_rx_count + 1 ELSE 1
          /\ start = IF InWindow(h) THEN h.init_rx_window_start ELSE 0
      BY <2>3 DEF InWindow
    <2> HIDE DEF count, start
    <2>5. /\ s.init_rx_count = count /\ s.init_rx_window_start = start
          /\ s.next_init_at = h.next_init_at /\ s.last_handshake_at = h.last_handshake_at
      BY <1>7, <2>1 DEF PeerSession
    <2>6. Silence(s) = Silence(h)
      <3> HIDE DEF s
      <3> QED BY <1>7, <2>2, <2>5, SilenceKept
    <2> QED BY <2>2, <2>4, <2>5, <2>6
  <1> HIDE DEF s
  <1>9. /\ Paces[q] \in PaceRecord /\ Paces[q] = Pace(peers[n][p])
        /\ peers[n][p] # Absent
        /\ Paces[q].count = IF InWindow(h) THEN h.init_rx_count ELSE 0
        /\ Paces[q].silent = Silence(h)
    <2>1. Paces[q] = Pace(peers[n][p]) /\ peers[n][p] # Absent
      BY <1>4, <1>7, NoneAssumption DEF Paces
    <2> QED BY <1>7, <2>1, PaceTyped DEF Pace, InWindow
  <1>10. s.init_rx_count = Paces[q].count + 1
    BY <1>7, <1>8, <1>9 DEF PeerSession
  <1>11. ~OverLimit(s)
    <2>1. Paced(Paces, Asking, Stopped, Reverse(q))
      BY <1>6 DEF PacesOK, AllPaced
    <2>2. Paces[q].count + 1 <= Stopped + 1
      <3> HIDE DEF q
      <3> QED BY <1>6, <2>1 DEF Paced
    <2>3. left.stops \in Nat /\ Budget.stops \in Nat /\ COOKIE_INIT_RATE_LIMIT \in Nat
      BY TimingAssumption DEF IInv, WorldOK, Budgets
    <2>4. Paces[q].count \in Nat
      BY <1>9 DEF PaceRecord
    <2> HIDE DEF q
    <2> QED BY <1>10, <2>2, <2>3, <2>4 DEF OverLimit, RoomForInits, Stopped
  <1>12. AnswerInit(n, p, s, d, m, FALSE) /\ up' = up
    BY <1>1, <1>11 DEF ReceiveInit, world, h, s
  <1>13. PICK r \in PeerSession :
            /\ Install(n, p, r) /\ r.init_rx_count = s.init_rx_count
            /\ r.init_rx_window_start = s.init_rx_window_start
            /\ Silence(r) >= Silence(s)
    <2> HIDE DEF m
    <2> QED BY <1>3, <1>4, <1>8, <1>12, AnswerPace
  <1>14. left'.stops = left.stops /\ Asking' \subseteq Asking \ {Reverse(q)}
    <2>1. left'.stops = left.stops /\ Asking' \subseteq Asking \ {Asker(d)}
      <3> HIDE DEF m, q
      <3> QED BY <1>3, <1>4, <1>8, <1>12, AnswerPace
    <2> QED BY <1>6, <2>1
  <1>15. Paces' = [Paces EXCEPT ![q] = Pace(r)] /\ Stopped' = Stopped
    BY <1>4, <1>13, <1>14, InstallPaces DEF Stopped
  <1>16. /\ Pace(r) \in PaceRecord /\ Pace(r).count <= Paces[q].count + 1
         /\ Pace(r).silent >= Paces[q].silent
    <2>1. Pace(r) \in PaceRecord /\ r # Absent
      BY PaceTyped, NoneAssumption
    <2>2. Pace(r).silent = Silence(r) /\ Pace(r).count \in {0, r.init_rx_count}
      BY <2>1 DEF Pace
    <2>3. Paces[q].count \in Nat
      BY <1>9 DEF PaceRecord
    <2> HIDE DEF q
    <2> QED BY <1>8, <1>9, <1>10, <1>13, <2>1, <2>2, <2>3
  <1> DEFINE b == Pace(r)
  <1> HIDE DEF b, q
  <1>17. AllPaced([Paces EXCEPT ![q] = b], Asking', Stopped)
    BY <1>6, <1>14, <1>16, PacedCount DEF PacesOK, b
  <1>18. left'.stops <= Budget.stops
    BY <1>14 DEF PacesOK
  <1> QED BY <1>12, <1>15, <1>17, <1>18 DEF PacesOK, b

(* An INIT behind a relay is not counted. *)
LEMMA ReceiveRelayedInitPaces ==
  ASSUME IInv, AttributionOK, PromptOK, PacesOK,
         NEW n \in Node, NEW d \in InFlight, ReceiveRelayedInit(n, d)
  PROVE  PacesOK'
  <1> DEFINE p == OriginalSender(n, d)
             h == HeardRelayed(n, p)
             m == d.msg.inner
  <1>1. p \in Known(n) /\ m \in InitMessage /\ m.from = p /\ m = Carried(d)
    <2>1. d.msg.type = "RELAY" /\ p = d.msg.from /\ m.type = "INIT" /\ p \in Known(n)
      BY DEF ReceiveRelayedInit, ArrivesRelayed, OriginalSender
    <2>2. m \in InitMessage
      BY <2>1, DatagramTypes, InnerTypes DEF IInv
    <2>3. m.from = p
      BY <2>1 DEF AttributionOK, TrueToAddress, IsHandshake
    <2> QED BY <2>1, <2>2, <2>3 DEF Carried, Inner
  <1>2. AnswerInit(n, p, h, d, m, TRUE)
    BY DEF ReceiveRelayedInit
  <1> HIDE DEF p, m
  <1>3. /\ LegalHeard(h) /\ h \in PeerSession /\ peers[n][p] \in PeerSession
        /\ h.init_rx_count = peers[n][p].init_rx_count
        /\ h.init_rx_window_start = peers[n][p].init_rx_window_start
        /\ Silence(h) = Silence(peers[n][p]) /\ p \in Node /\ p # n
    <2>1. Unspecified \in Addr
      BY ConfigAssumption
    <2>2. LegalHeard(h)
      BY <1>1, <2>1, HeardState
    <2> QED BY <1>1, <2>1, <2>2, HeardPace, KnownView
  <1> HIDE DEF h
  <1>4. /\ left'.stops = left.stops /\ Asking' \subseteq Asking \ {Asker(d)}
        /\ \E r \in PeerSession :
              /\ Install(n, p, r) /\ r.init_rx_count = h.init_rx_count
              /\ r.init_rx_window_start = h.init_rx_window_start
              /\ Silence(r) >= Silence(h)
    BY <1>1, <1>2, <1>3, AnswerPace
  <1>5. PICK r \in PeerSession :
              /\ Install(n, p, r) /\ r.init_rx_count = h.init_rx_count
              /\ r.init_rx_window_start = h.init_rx_window_start
              /\ Silence(r) >= Silence(h)
    BY <1>4
  <1>6. Slower(Pace(peers[n][p]), Pace(r))
    BY <1>3, <1>5, SlowerKept
  <1> QED BY <1>3, <1>4, <1>5, <1>6, QuietPaces

(* A RESPONSE is the one its session waits for, which is then silent until its
   next rekey. *)
LEMMA ReceiveResponsePaces ==
  ASSUME IInv, AttributionOK, AddressesIdentify, PromptOK, RoomForInits, PacesOK,
         NEW n \in Node, NEW d \in InFlight,
         ReceiveResponse(n, d) \/ ReceiveRelayedResponse(n, d)
  PROVE  PacesOK'
  <1>1. PICK p \in Known(n), h \in PeerSession :
           /\ LegalHeard(h) /\ View(h) = View(peers[n][p])
           /\ d.src \in Addr /\ h \in {Heard(n, p, d.src), HeardRelayed(n, p)}
           /\ Carried(d) \in ResponseMessage /\ Carried(d).from = p /\ Carried(d).to = n
           /\ Install(n, p, HandleResponse(h, Carried(d)))
    BY ResponseArrives
  <1> DEFINE q == <<n, p>>
             m == Carried(d)
             r == HandleResponse(h, m)
             ready == Established(Initiated(m))
  <1>2. net' = Consume(d) /\ left' = left /\ n \in up
    BY DEF ReceiveResponse, ReceiveRelayedResponse, ArrivesRelayed, Arrives
  <1>3. /\ q \in DOMAIN Views /\ Views[q] = View(h) /\ p \in Node /\ p # n
        /\ peers[n][p] \in PeerSession
    BY <1>1, KnownView
  <1>4. m.eph \in View(h).asks
    <2>1. d \in Handshakes /\ Asker(d) = q
      BY <1>1 DEF Handshakes, IsHandshake, Carried, Asker, ResponseMessage
    <2> QED BY <1>2, <1>3, <2>1 DEF PromptOK, TokensOK, Tokens, Awaited
  <1>5. r = [h EXCEPT !.state = ready, !.last_handshake_at = 0]
    BY <1>4 DEF View, Awaits, HandleResponse, FirstResponse, RekeyResponse,
            ConsumesResponse, IsInitiating, IsRekeying, IsReady
  <1>6. r \in PeerSession
    BY <1>1, HandleResponseLegal DEF LegalHeard, Legal
  <1>7. ready.tag = "Ready" /\ ready.rehandshake = None
    BY DEF Established
  <1> HIDE DEF m, r, ready
  <1>8. /\ r.state = ready /\ r.last_handshake_at = 0
        /\ r.init_rx_count = h.init_rx_count
        /\ r.init_rx_window_start = h.init_rx_window_start
    BY <1>1, <1>5 DEF PeerSession
  <1>9. IsReady(r) /\ ~IsRekeying(r)
    BY <1>7, <1>8 DEF IsReady, IsRekeying
  <1>10. Silence(r) >= RATE_WINDOW
    <2>1. Silence(r) = REKEY_AFTER + 1
      BY <1>3, <1>6, <1>8, <1>9, NewKeySilence
    <2> QED BY <2>1, TimingAssumption DEF RoomForInits
  <1>11. /\ h.init_rx_count = peers[n][p].init_rx_count
         /\ h.init_rx_window_start = peers[n][p].init_rx_window_start
    BY <1>1, HeardPace
  <1>12. Slower(Pace(peers[n][p]), Pace(r))
    BY <1>3, <1>6, <1>8, <1>10, <1>11, SlowerKept
  <1>13. Asking' \subseteq Asking
    BY <1>2, MessagesConsumed, AskingFrom
  <1> QED BY <1>1, <1>2, <1>3, <1>6, <1>12, <1>13, QuietPaces DEF r, m

(* A transport that decrypts or encrypts. *)
LEMMA NoncePace ==
  ASSUME NEW s \in PeerSession, IsReady(s), NEW t, NEW r \in PeerSession,
         r.state = [s.state EXCEPT !.transport = t],
         r.last_handshake_at = s.last_handshake_at
  PROVE  Silence(r) = Silence(s)
  <1>1. s.state \in ReadyState
    BY ReadyStates
  <1>2. r.state.tag = s.state.tag /\ r.state.rehandshake = s.state.rehandshake
    BY <1>1 DEF ReadyState
  <1>3. ~IsInitiating(s)
    BY DEF IsReady, IsInitiating
  <1> QED BY <1>2, <1>3, SilenceKept

(* A TRANSPORT, on either path. *)
LEMMA ReceiveTransportPaces ==
  ASSUME IInv, AttributionOK, AddressesIdentify, PacesOK,
         NEW n \in Node, NEW d \in InFlight,
         ReceiveTransport(n, d) \/ ReceiveRelayedTransport(n, d)
  PROVE  PacesOK'
  <1>1. PICK p \in Known(n), h \in PeerSession :
           /\ LegalHeard(h)
           /\ d.src \in Addr /\ h \in {Heard(n, p, d.src), HeardRelayed(n, p)}
           /\ \E m : \E r \in {h, HandleRelayedTransport(h, m)} : Install(n, p, r)
    BY TransportArrives
  <1>2. PICK m : \E r \in {h, HandleRelayedTransport(h, m)} : Install(n, p, r)
    BY <1>1
  <1>3. PICK r \in {h, HandleRelayedTransport(h, m)} : Install(n, p, r)
    BY <1>2
  <1>4. /\ p \in Node /\ p # n /\ peers[n][p] \in PeerSession
        /\ h.init_rx_count = peers[n][p].init_rx_count
        /\ h.init_rx_window_start = peers[n][p].init_rx_window_start
        /\ Silence(h) = Silence(peers[n][p])
    <2>1. p \in Node /\ p # n
      BY KnownView
    <2> QED BY <1>1, <2>1, HeardPace
  <1>5. /\ r \in PeerSession /\ r.init_rx_count = h.init_rx_count
        /\ r.init_rx_window_start = h.init_rx_window_start
        /\ Silence(r) = Silence(h)
    <2> DEFINE t == AfterDecrypt(h.state.transport)
               ready == [h.state EXCEPT !.transport = t]
               x == [h EXCEPT !.state = ready]
    <2>1. r \in PeerSession
      BY <1>1, <1>3, HandleRelayedTransportLegal DEF LegalHeard, Legal
    <2>2. r = h \/ (IsReady(h) /\ r = x)
      BY <1>3 DEF HandleRelayedTransport
    <2> HIDE DEF t
    <2>3. CASE IsReady(h) /\ r = x
      <3>1. /\ r.state = ready /\ r.last_handshake_at = h.last_handshake_at
            /\ r.init_rx_count = h.init_rx_count
            /\ r.init_rx_window_start = h.init_rx_window_start
        <4> HIDE DEF ready
        <4> QED BY <2>3 DEF PeerSession
      <3> QED BY <2>1, <2>3, <3>1, NoncePace
    <2> HIDE DEF x
    <2> QED BY <2>1, <2>2, <2>3
  <1>6. Slower(Pace(peers[n][p]), Pace(r))
    BY <1>4, <1>5, SlowerKept
  <1>7. net' = Consume(d) /\ left' = left
    BY DEF ReceiveTransport, ReceiveRelayedTransport
  <1>8. Asking' \subseteq Asking
    BY <1>7, MessagesConsumed, AskingFrom
  <1> QED BY <1>3, <1>4, <1>5, <1>6, <1>7, <1>8, QuietPaces

(* Somebody else's RELAY: what it carries was under way before. *)
LEMMA ForwardRelayPaces ==
  ASSUME IInv, PacesOK, NEW n \in Node, NEW d \in InFlight, ForwardRelay(n, d)
  PROVE  PacesOK'
  <1> DEFINE p == d.msg.from
             h == HeardRelayed(n, p)
             x == [src |-> addr[n], msg |-> d.msg, dst |-> ForwardAddress(n, d.msg.dest)]
  <1>1. p \in Known(n) /\ Install(n, p, h)
    BY DEF ForwardRelay, ArrivesRelayed
  <1>2. Inner(x.msg) \in Messages
    BY DEF Messages
  <1>3. PICK ok \in BOOLEAN :
           /\ ChargeError(ok)
           /\ \/ net' = Consume(d)
              \/ net' = Consume(d) (+) (IF ok THEN Delivered({x}) ELSE EmptyBag)
    <2>1. CASE d.msg.dest \in Known(n)
      <3>1. PICK ok \in SendOutcomes :
               /\ net' = Consume(d) (+) (IF ok THEN Delivered({x}) ELSE EmptyBag)
               /\ ChargeError(ok)
        BY <2>1 DEF ForwardRelay
      <3>2. ok \in BOOLEAN
        BY DEF SendOutcomes
      <3> HIDE DEF x
      <3> QED BY <3>1, <3>2
    <2>2. CASE d.msg.dest \notin Known(n)
      <3>1. net' = Consume(d) /\ ChargeError(TRUE)
        BY <2>2 DEF ForwardRelay, ChargeError
      <3> QED BY <3>1
    <2> QED BY <2>1, <2>2
  <1> HIDE DEF x, p
  <1>4. Asking' \subseteq Asking
    BY <1>2, <1>3, TakenAsking
  <1>5. left'.stops = left.stops
    BY <1>3, ChargedStops
  <1>6. /\ p \in Node /\ p # n /\ peers[n][p] \in PeerSession /\ h \in PeerSession
        /\ h.init_rx_count = peers[n][p].init_rx_count
        /\ h.init_rx_window_start = peers[n][p].init_rx_window_start
        /\ Silence(h) = Silence(peers[n][p])
    BY <1>1, KnownView, HeardPace, ConfigAssumption
  <1> HIDE DEF h
  <1>7. Slower(Pace(peers[n][p]), Pace(h))
    BY <1>6, SlowerKept
  <1> QED BY <1>1, <1>4, <1>5, <1>6, <1>7, QuietPaces

(* Every datagram that is received. *)
LEMMA ReceivePaces ==
  ASSUME IInv, AttributionOK, AddressesIdentify, PromptOK, RoomForInits, PacesOK,
         NEW n \in Node, NEW d \in InFlight, Receive(n, d)
  PROVE  PacesOK' /\ up' = up
  <1>1. ASSUME IgnoreUnknownSource(n, d) \/ DropStrangersRelay(n, d)
        PROVE  PacesOK'
    <2>1. net' = Consume(d) /\ left' = left /\ peers' = peers
      BY <1>1 DEF IgnoreUnknownSource, DropStrangersRelay
    <2> QED BY <2>1, MessagesConsumed, AskingFrom, SamePaces
  <1>2. ReceiveInit(n, d) \/ up' = up
    BY DEF Receive, ReceiveResponse, ReceiveTransport, IgnoreUnknownSource,
           ReceiveRelayedInit, ReceiveRelayedResponse, ReceiveRelayedTransport,
           ForwardRelay, DropStrangersRelay, world
  <1> QED BY <1>1, <1>2, ReceiveInitPaces, ReceiveRelayedInitPaces, ReceiveResponsePaces,
             ReceiveTransportPaces, ForwardRelayPaces DEF Receive

-----------------------------------------------------------------------------
(* Paces of the sessions that send. *)

(* What is sent, and whom it asks. *)
LEMMA SentAsking ==
  ASSUME IInv, NEW S, net' = net (+) Delivered(S) \/ net' = net,
         NEW q, \A y \in S : Carried(y).type = "INIT" => <<Carried(y).from, Carried(y).to>> = q
  PROVE  /\ Asking' \subseteq Asking \cup {q}
         /\ (\A y \in S : Carried(y).type # "INIT") => Asking' \subseteq Asking
  <1>1. Messages' \subseteq Messages \cup {Inner(y.msg) : y \in S}
    <2>1. CASE net' = net (+) Delivered(S)
      <3>1. IsABag(net) /\ BagToSet(net) \subseteq InFlight
        BY DEF IInv, WorldOK, InFlight
      <3> QED BY <2>1, <3>1, MessagesSent
    <2>2. CASE net' = net
      BY <2>2 DEF Messages, InFlight
    <2> QED BY <2>1, <2>2
  <1> QED BY <1>1 DEF Asking, Carried

(* Nothing that is sent is an INIT, and the session is as silent. *)
LEMMA QuietSendPaces ==
  ASSUME IInv, PacesOK, NEW n \in Node, NEW p \in Known(n), NEW r \in PeerSession,
         Install(n, p, r), left'.stops = left.stops,
         Slower(Pace(peers[n][p]), Pace(r)),
         NEW S, \A y \in S : Carried(y).type # "INIT",
         net' = net (+) Delivered(S) \/ net' = net
  PROVE  PacesOK'
  <1>1. p \in Node /\ p # n
    BY KnownView
  <1>2. \A y \in S : Carried(y).type = "INIT" => <<Carried(y).from, Carried(y).to>> = <<n, p>>
    OBVIOUS
  <1>3. Asking' \subseteq Asking
    BY <1>2, SentAsking
  <1> QED BY <1>1, <1>3, QuietPaces

(* A session whose silence is over asks, and waits for its retry. *)
LEMMA AskPaces ==
  ASSUME IInv, PromptOK, RoomForInits, PacesOK,
         NEW n \in up, n \in Node, NEW p \in Known(n), NEW r \in PeerSession,
         Install(n, p, r), left'.stops = left.stops,
         View(peers[n][p]).asks = {} \/ View(peers[n][p]).due,
         Silence(peers[n][p]) <= 0, Silence(r) = INIT_RETRY_INTERVAL,
         r.init_rx_count = peers[n][p].init_rx_count,
         r.init_rx_window_start = peers[n][p].init_rx_window_start,
         NEW S, \A y \in S : Carried(y).type = "INIT" =>
                                <<Carried(y).from, Carried(y).to>> = <<n, p>>,
         net' = net (+) Delivered(S)
  PROVE  PacesOK'
  <1> DEFINE q == <<n, p>>
             s == peers[n][p]
             b == Pace(r)
  <1>1. /\ q \in DOMAIN Views /\ Views[q] = View(s) /\ p \in Node /\ p # n
        /\ s \in PeerSession /\ s # Absent /\ r # Absent
    BY KnownView, NoneAssumption
  <1>2. q \notin Asking
    <2> SUFFICES ASSUME q \in Asking PROVE FALSE
      OBVIOUS
    <2>1. PICK d \in Handshakes : Carried(d).type = "INIT" /\ Asker(d) = q
      BY AskingTokens
    <2> QED BY <1>1, <2>1 DEF PromptOK, TokensOK, Tokens, Awaited
  <1>3. Asking' \subseteq Asking \cup {q}
    BY SentAsking
  <1>4. Paces[q] = Pace(s) /\ Paces' = [Paces EXCEPT ![q] = b]
    BY <1>1, InstallPaces
  <1>5. q \in Node \X Node /\ q # Reverse(q)
    BY <1>1 DEF Reverse
  <1>6. b \in PaceRecord /\ b.silent = Silence(r) /\ Pace(s).silent = Silence(s)
    BY <1>1, PaceTyped DEF Pace
  <1>7. Silence(r) >= RATE_WINDOW
    BY TimingAssumption DEF RoomForInits
  <1>8. Slower(Pace(s), b)
    BY <1>1, <1>7, SlowerKept
  <1>9. Stopped' = Stopped
    BY DEF Stopped
  <1> HIDE DEF q, s, b
  <1>10. AllPaced([Paces EXCEPT ![q] = b], Asking', Stopped)
    <2>1. /\ AllPaced(Paces, Asking, Stopped) /\ Paces[q].silent <= 0
          /\ Slower(Paces[q], b) /\ b.silent >= RATE_WINDOW
      BY <1>4, <1>6, <1>7, <1>8 DEF PacesOK, s
    <2> QED BY <1>2, <1>3, <1>5, <1>6, <2>1, PacedAsk
  <1> QED BY <1>4, <1>9, <1>10 DEF PacesOK

(* The due INITs. *)
LEMMA SendInitPaces ==
  ASSUME IInv, PromptOK, RoomForInits, PacesOK, NEW n \in Node, NEW p \in Node, SendInit(n, p)
  PROVE  PacesOK'
  <1> DEFINE s == peers[n][p]
             init == WriteInit(n, p, s.state.initiator)
             x == SendMaybeRelay(n, p, s.endpoint, init)
             S(ok) == IF ok THEN {x} ELSE {}
             r == InitSent(s)
  <1>1. /\ p \in Known(n) /\ s \in PeerSession /\ IsInitiating(s) /\ InitDue(s) /\ n \in up
    BY KnownSession DEF SendInit, IInv, Legal
  <1>2. PICK ok \in SendOutcomes :
           /\ Install(n, p, IF ok THEN InitSent(s) ELSE s)
           /\ net' = net (+) (IF ok THEN Delivered({x}) ELSE EmptyBag)
           /\ ChargeError(ok)
    BY DEF SendInit
  <1>3. left'.stops = left.stops
    BY <1>2, ChargedStops
  <1>4. init.type = "INIT" /\ init.from = n /\ init.to = p
    BY DEF WriteInit
  <1> HIDE DEF init
  <1>5. Carried(x) = init
    BY <1>4, SentCarried
  <1> HIDE DEF x, s
  <1>6. net' = net (+) Delivered(S(ok))
    BY <1>2, MaybeDelivered
  <1>7. CASE ~ok
    <2>1. Install(n, p, s)
      BY <1>2, <1>7
    <2>2. \A y \in S(ok) : Carried(y).type # "INIT"
      BY <1>7
    <2>3. Slower(Pace(s), Pace(s))
      BY <1>1, SlowerKept
    <2> HIDE DEF S
    <2> QED BY <1>1, <1>3, <1>6, <2>1, <2>2, <2>3, QuietSendPaces DEF s
  <1>8. CASE ok
    <2>1. /\ r \in PeerSession /\ r.state = s.state /\ r.next_init_at = INIT_RETRY_INTERVAL
          /\ r.init_rx_count = s.init_rx_count
          /\ r.init_rx_window_start = s.init_rx_window_start
      BY <1>1, TimingAssumption DEF InitSent, PeerSession
    <2>2. Install(n, p, r)
      BY <1>2, <1>8
    <2> HIDE DEF r
    <2>3. IsInitiating(r)
      BY <1>1, <2>1 DEF IsInitiating
    <2>4. Silence(s) = 0 /\ Silence(r) = INIT_RETRY_INTERVAL
      BY <1>1, <2>1, <2>3, TimingAssumption, NoneAssumption DEF Silence, InitDue
    <2>5. View(s).due
      BY <1>1, InitiatingView
    <2>6. \A y \in S(ok) : Carried(y).type = "INIT" =>
                              <<Carried(y).from, Carried(y).to>> = <<n, p>>
      BY <1>4, <1>5
    <2> HIDE DEF S
    <2> QED BY <1>1, <1>3, <1>6, <2>1, <2>2, <2>4, <2>5, <2>6, AskPaces DEF s
  <1> QED BY <1>7, <1>8

(* The retry of a rekey. *)
LEMMA RetryRekeyPaces ==
  ASSUME IInv, PromptOK, RoomForInits, PacesOK, NEW n \in Node, NEW p \in Node, RetryRekey(n, p)
  PROVE  PacesOK'
  <1> DEFINE s == peers[n][p]
             init == WriteInit(n, p, s.state.rehandshake.initiator)
             x == SendMaybeRelay(n, p, s.endpoint, init)
             S(ok) == IF ok THEN {x} ELSE {}
             again == [s EXCEPT !.state.rehandshake.next_retry_at = INIT_RETRY_INTERVAL]
             rekey == [s.state.rehandshake EXCEPT !.next_retry_at = INIT_RETRY_INTERVAL]
             ready == [s.state EXCEPT !.rehandshake = rekey]
  <1>1. /\ p \in Known(n) /\ s \in PeerSession /\ IsRekeying(s) /\ IsReady(s)
        /\ RetryDue(s) /\ n \in up
    BY KnownSession DEF RetryRekey, Maintained, IInv, Legal
  <1>2. PICK ok \in SendOutcomes :
           /\ Install(n, p, IF ok THEN again ELSE s)
           /\ net' = net (+) (IF ok THEN Delivered({x}) ELSE EmptyBag)
           /\ ChargeError(ok)
    BY DEF RetryRekey
  <1>3. left'.stops = left.stops
    BY <1>2, ChargedStops
  <1>4. init.type = "INIT" /\ init.from = n /\ init.to = p
    BY DEF WriteInit
  <1>5. s.state \in ReadyState /\ s.state.rehandshake \in Rehandshake
    BY <1>1, ReadyStates
  <1>6. rekey \in Rehandshake /\ rekey.next_retry_at = INIT_RETRY_INTERVAL
    BY <1>5, TimingAssumption DEF Rehandshake
  <1>7. again = [s EXCEPT !.state = ready]
    OBVIOUS
  <1> HIDE DEF init
  <1>8. Carried(x) = init
    BY <1>4, SentCarried
  <1> HIDE DEF x, s, rekey, again
  <1>9. ready \in PeerState /\ ready.tag = "Ready" /\ ready.rehandshake = rekey
    BY <1>5, <1>6 DEF PeerState, ReadyState
  <1> HIDE DEF ready
  <1>10. /\ again \in PeerSession /\ again.state = ready
         /\ again.init_rx_count = s.init_rx_count
         /\ again.init_rx_window_start = s.init_rx_window_start
    BY <1>1, <1>7, <1>9 DEF PeerSession
  <1>11. net' = net (+) Delivered(S(ok))
    BY <1>2, MaybeDelivered
  <1>12. CASE ~ok
    <2>1. Install(n, p, s)
      BY <1>2, <1>12
    <2>2. \A y \in S(ok) : Carried(y).type # "INIT"
      BY <1>12
    <2>3. Slower(Pace(s), Pace(s))
      BY <1>1, SlowerKept
    <2> HIDE DEF S
    <2> QED BY <1>1, <1>3, <1>11, <2>1, <2>2, <2>3, QuietSendPaces DEF s
  <1>13. CASE ok
    <2>1. IsRekeying(again) /\ ~IsInitiating(again) /\ ~IsInitiating(s)
      BY <1>1, <1>6, <1>9, <1>10, NoneAssumption DEF IsRekeying, IsReady, IsInitiating
    <2>2. Silence(s) = 0 /\ Silence(again) = INIT_RETRY_INTERVAL
      BY <1>1, <1>6, <1>9, <1>10, <2>1 DEF Silence, RetryDue
    <2>3. View(s).due
      BY <1>1, RekeyingView
    <2>4. \A y \in S(ok) : Carried(y).type = "INIT" =>
                              <<Carried(y).from, Carried(y).to>> = <<n, p>>
      BY <1>4, <1>8
    <2>5. Install(n, p, again)
      BY <1>2, <1>13
    <2> HIDE DEF S
    <2> QED BY <1>1, <1>3, <1>10, <1>11, <2>2, <2>3, <2>4, <2>5, AskPaces DEF s
  <1> QED BY <1>12, <1>13


(* A TUN packet. *)
LEMMA DispatchTunPacketPaces ==
  ASSUME IInv, PacesOK, NEW n \in Node, NEW p \in Node, DispatchTunPacket(n, p)
  PROVE  PacesOK'
  <1> DEFINE s == peers[n][p]
             t == s.state.transport
             u == AfterEncrypt(t)
             tx(ok) == IF ok THEN 0 ELSE s.last_tx_at
             r(ok) == [s EXCEPT !.state.transport = u, !.last_tx_at = tx(ok)]
             ready == [s.state EXCEPT !.transport = u]
             x == SendMaybeRelay(n, p, s.endpoint, Encrypt(t))
             S(ok) == IF ok THEN {x} ELSE {}
             data == left.data - 1
             errors(ok) == IF ok THEN left.errors ELSE left.errors - 1
  <1>1. p \in Known(n) /\ s \in PeerSession /\ IsReady(s)
    BY KnownSession DEF DispatchTunPacket, IInv, Legal
  <1>2. PICK ok \in SendOutcomes :
           /\ Install(n, p, r(ok))
           /\ net' = net (+) (IF ok THEN Delivered({x}) ELSE EmptyBag)
           /\ left' = [left EXCEPT !.data = data, !.errors = errors(ok)]
    BY DEF DispatchTunPacket
  <1>3. left'.stops = left.stops
    <2>1. left \in Budgets
      BY DEF IInv, WorldOK
    <2> HIDE DEF data, errors
    <2> QED BY <1>2, <2>1 DEF Budgets
  <1>4. s.state \in ReadyState /\ t \in Transport /\ tx(ok) \in Nat \cup {None}
    BY <1>1, ReadyStates DEF ReadyState, PeerSession
  <1>5. u \in Transport
    BY <1>4 DEF Transport, AfterEncrypt
  <1>6. r(ok) = [s EXCEPT !.state = ready, !.last_tx_at = tx(ok)]
    OBVIOUS
  <1>7. Carried(x).type # "INIT"
    <2>1. Encrypt(t).type = "TRANSPORT"
      BY DEF Encrypt
    <2> QED BY <2>1, SentCarried
  <1> HIDE DEF s, u, tx, x, data, errors
  <1>8. ready \in PeerState
    BY <1>4, <1>5 DEF PeerState, ReadyState
  <1> HIDE DEF r
  <1>9. /\ r(ok) \in PeerSession /\ r(ok).state = ready
        /\ r(ok).last_handshake_at = s.last_handshake_at
        /\ r(ok).init_rx_count = s.init_rx_count
        /\ r(ok).init_rx_window_start = s.init_rx_window_start
    <2> HIDE DEF ready
    <2> QED BY <1>1, <1>4, <1>6, <1>8 DEF PeerSession
  <1>10. Silence(r(ok)) = Silence(s)
    BY <1>1, <1>9, NoncePace
  <1>11. Slower(Pace(s), Pace(r(ok)))
    BY <1>1, <1>9, <1>10, SlowerKept
  <1>12. net' = net (+) Delivered(S(ok))
    BY <1>2, MaybeDelivered
  <1>13. \A y \in S(ok) : Carried(y).type # "INIT"
    BY <1>7
  <1> HIDE DEF S
  <1> QED BY <1>1, <1>2, <1>3, <1>9, <1>11, <1>12, <1>13, QuietSendPaces DEF s

(* A timer that is cleared, and a peer that goes stale. *)
LEMMA QuietStepPaces ==
  ASSUME IInv, PacesOK, NEW n \in Node, NEW p \in Node,
         ClearInitTimer(n, p) \/ MarkStale(n, p)
  PROVE  PacesOK'
  <1> DEFINE s == peers[n][p]
             stale == [s EXCEPT !.stale = TRUE]
  <1>1. p \in Known(n) /\ s \in PeerSession
    BY KnownSession DEF ClearInitTimer, MarkStale, Maintained, IInv, Legal
  <1>2. net' = net /\ left' = left
    BY DEF ClearInitTimer, MarkStale
  <1>3. /\ \E r \in {InitDone(s), stale} : Install(n, p, r)
        /\ ~IsInitiating(s)
    BY DEF ClearInitTimer, MarkStale, Maintained, IsReady, IsInitiating
  <1> HIDE DEF s
  <1>4. \A r \in {InitDone(s), stale} :
           /\ r \in PeerSession /\ r.state = s.state
           /\ r.last_handshake_at = s.last_handshake_at
           /\ r.init_rx_count = s.init_rx_count
           /\ r.init_rx_window_start = s.init_rx_window_start
    BY <1>1 DEF InitDone, PeerSession
  <1>5. PICK r \in {InitDone(s), stale} : Install(n, p, r)
    BY <1>3
  <1> HIDE DEF stale
  <1>6. Silence(r) = Silence(s)
    BY <1>1, <1>3, <1>4, SilenceKept
  <1>7. Slower(Pace(s), Pace(r))
    BY <1>1, <1>4, <1>6, SlowerKept
  <1>8. PICK S : S = {}
    OBVIOUS
  <1>9. \A y \in S : Carried(y).type # "INIT"
    BY <1>8
  <1> QED BY <1>1, <1>2, <1>4, <1>5, <1>7, <1>9, QuietSendPaces DEF s

(* Keepalives and the start of a rekey. *)
LEMMA KeepaliveOrRekeyPaces ==
  ASSUME IInv, PromptOK, RoomForInits, PacesOK, NEW n \in Node, NEW p \in Node,
         KeepaliveOrRekey(n, p)
  PROVE  PacesOK'
  <1> DEFINE s == peers[n][p]
             t == s.state.transport
             u == AfterEncrypt(t)
             keepalive == KeepaliveDue(s)
             rekey == RekeyDue(n, p, s)
             x == SendMaybeRelay(n, p, s.endpoint, Encrypt(t))
             y == SendMaybeRelay(n, p, s.endpoint, WriteInit(n, p, Fresh))
             probe == IF keepalive THEN {x} ELSE {}
             init == IF rekey THEN {y} ELSE {}
             tx(probed) == IF probed THEN 0 ELSE s.last_tx_at
             again == [initiator |-> Fresh, next_retry_at |-> INIT_RETRY_INTERVAL]
             ready(started) ==
                 [tag |-> "Ready",
                  transport |-> IF keepalive THEN u ELSE t,
                  rehandshake |-> IF started THEN again ELSE None]
             r(probed, started) ==
                 [s EXCEPT !.last_tx_at = tx(probed), !.state = ready(started)]
             sent(probed, started) ==
                 (IF probed THEN probe ELSE {}) \cup (IF started THEN init ELSE {})
             ok(probed, started) == (keepalive => probed) /\ (rekey => started)
  <1>1. /\ p \in Known(n) /\ s \in PeerSession /\ IsReady(s) /\ ~IsRekeying(s)
        /\ n \in up
    BY KnownSession DEF KeepaliveOrRekey, Maintained, IInv, Legal
  <1>2. PICK probed \in BOOLEAN, started \in BOOLEAN :
           /\ started => rekey
           /\ ChargeError(ok(probed, started))
           /\ net' = net (+) Delivered(sent(probed, started))
           /\ Install(n, p, r(probed, started))
    BY DEF KeepaliveOrRekey
  <1>3. left'.stops = left.stops
    <2> HIDE DEF ok
    <2> QED BY <1>2, ChargedStops
  <1>4. rekey => Fresh \in Ephemeral
    BY FreshOK DEF KeepaliveOrRekey
  <1>5. s.state \in ReadyState /\ t \in Transport
    BY <1>1, ReadyStates DEF ReadyState
  <1>6. u \in Transport
    BY <1>5 DEF Transport, AfterEncrypt
  <1>7. /\ Carried(x).type = "TRANSPORT"
        /\ Carried(y) = WriteInit(n, p, Fresh)
    <2>1. Encrypt(t).type = "TRANSPORT" /\ WriteInit(n, p, Fresh).type = "INIT"
      BY DEF Encrypt, WriteInit
    <2> QED BY <2>1, SentCarried
  <1>8. rekey => s.last_handshake_at \in Nat /\ s.last_handshake_at > REKEY_AFTER
    BY <1>1 DEF RekeyDue, Passed, PeerSession
  <1> DEFINE q == r(probed, started)
             state == ready(started)
             S == sent(probed, started)
             last == tx(probed)
  <1> HIDE DEF ok
  <1>9. q = [s EXCEPT !.last_tx_at = last, !.state = state]
    OBVIOUS
  <1>10. last \in Nat \cup {None}
    BY <1>1 DEF PeerSession
  <1>11. \A z \in S : z = x \/ (z = y /\ started)
    OBVIOUS
  <1>12. Install(n, p, q) /\ net' = net (+) Delivered(S)
    BY <1>2
  <1> HIDE DEF s, u, keepalive, rekey, x, y, q, S, last
  <1>13. started => again \in Rehandshake /\ again # None
    BY <1>2, <1>4, TimingAssumption, NoneAssumption DEF Rehandshake
  <1>14. state.tag = "Ready" /\ state.rehandshake = IF started THEN again ELSE None
    <2> HIDE DEF t, again
    <2> QED OBVIOUS
  <1>15. state \in PeerState
    <2> HIDE DEF t, again
    <2> QED BY <1>5, <1>6, <1>13 DEF PeerState, ReadyState
  <1>16. again.next_retry_at = INIT_RETRY_INTERVAL
    OBVIOUS
  <1> HIDE DEF state, again, t
  <1>17. /\ q \in PeerSession /\ q.state = state
         /\ q.last_handshake_at = s.last_handshake_at
         /\ q.init_rx_count = s.init_rx_count
         /\ q.init_rx_window_start = s.init_rx_window_start
    BY <1>1, <1>9, <1>10, <1>15 DEF PeerSession
  <1>18. ~IsInitiating(s) /\ ~IsInitiating(q) /\ IsReady(q)
    BY <1>1, <1>14, <1>17 DEF IsReady, IsInitiating
  <1>19. CASE ~started
    <2>1. ~IsRekeying(q)
      BY <1>14, <1>17, <1>19 DEF IsRekeying
    <2>2. Silence(q) = Silence(s)
      BY <1>1, <1>17, <1>18, <2>1 DEF Silence
    <2>3. Slower(Pace(s), Pace(q))
      BY <1>1, <1>17, <2>2, SlowerKept
    <2>4. \A z \in S : Carried(z).type # "INIT"
      BY <1>7, <1>11, <1>19
    <2> QED BY <1>1, <1>3, <1>12, <1>17, <2>3, <2>4, QuietSendPaces DEF s
  <1>20. CASE started
    <2>1. IsRekeying(q)
      BY <1>13, <1>14, <1>17, <1>18, <1>20 DEF IsRekeying
    <2>2. Silence(q) = INIT_RETRY_INTERVAL
      BY <1>14, <1>16, <1>17, <1>18, <1>20, <2>1 DEF Silence
    <2>3. Silence(s) <= 0
      BY <1>1, <1>2, <1>8, <1>18, <1>20, NoneAssumption, TimingAssumption DEF Silence
    <2>4. View(s).asks = {}
      BY <1>1, ReadyView
    <2>5. \A z \in S : Carried(z).type = "INIT" =>
                          <<Carried(z).from, Carried(z).to>> = <<n, p>>
      BY <1>7, <1>11 DEF WriteInit
    <2> QED BY <1>1, <1>3, <1>12, <1>17, <2>2, <2>3, <2>4, <2>5, AskPaces DEF s
  <1> QED BY <1>19, <1>20

(* A new peer has counted no INIT, and the daemon's restart that made it new was
   counted when the daemon was stopped. *)
LEMMA AddPeerPaces ==
  ASSUME IInv, PacesOK, NEW n \in Node, NEW p \in Node, AddPeer(n, p)
  PROVE  PacesOK'
  <1> DEFINE r == NewSession(n, p, Fresh)
             cfg == Config[n][p]
  <1>1. /\ p # n /\ peers[n][p] = Absent /\ cfg # None /\ Install(n, p, r)
        /\ cfg.is_initiator => Fresh \in Ephemeral
        /\ net' = net /\ left' = left
    BY FreshOK DEF AddPeer, Known
  <1>2. r \in PeerSession
    BY <1>1, NewSessionLegal DEF Legal
  <1>3. /\ r.init_rx_count = 0
        /\ IsInitiating(r) => r.next_init_at = 0
        /\ ~IsReady(r)
    BY DEF NewSession, FreshResponder, IsInitiating, IsReady
  <1>4. REKEY_AFTER \in Nat /\ RATE_WINDOW \in Nat
    BY TimingAssumption
  <1> HIDE DEF r, cfg
  <1>5. Pace(r).count = 0 /\ Pace(r).silent >= -1
    <2>1. r # Absent /\ ~IsRekeying(r)
      BY <1>2, <1>3, NoneAssumption DEF IsRekeying
    <2>2. Silence(r) >= -1
      BY <1>3, <1>4, <2>1 DEF Silence
    <2> QED BY <1>3, <2>1, <2>2 DEF Pace
  <1>6. Pace(peers[n][p]).count = 0 /\ Pace(peers[n][p]).silent = -1
    BY <1>1 DEF Pace
  <1>7. Slower(Pace(peers[n][p]), Pace(r))
    BY <1>5, <1>6 DEF Slower
  <1>8. Asking' \subseteq Asking
    BY <1>1 DEF Asking, Messages, InFlight
  <1> QED BY <1>1, <1>2, <1>7, <1>8, QuietPaces

(* Every step of a manager on its own. *)
LEMMA PeerStepPaces ==
  ASSUME IInv, PromptOK, RoomForInits, PacesOK, NEW n \in Node, NEW p \in Node,
         PeerStep(n, p)
  PROVE  PacesOK' /\ up' = up
  <1>1. up' = up
    BY DEF PeerStep, AddPeer, SendInit, ClearInitTimer, DispatchTunPacket, Maintenance,
           RetryRekey, MarkStale, KeepaliveOrRekey, world
  <1> QED BY <1>1, AddPeerPaces, SendInitPaces, QuietStepPaces, DispatchTunPacketPaces,
             RetryRekeyPaces, KeepaliveOrRekeyPaces DEF PeerStep, Maintenance

-----------------------------------------------------------------------------
(* Paces, time and the world. *)

(* Time shortens a silence by at most its unit, and a window that counts. *)
LEMMA AgedPace ==
  ASSUME NEW s \in PeerSession, Aged(s) \in PeerSession
  PROVE  LET a == Pace(s)
             b == Pace(Aged(s))
         IN  /\ b.silent >= a.silent - 1
             /\ b.count = 0 \/ (b.count = a.count /\ b.rest = a.rest - 1)
  <1>1. PICK r \in PeerSession : r = Aged(s)
    OBVIOUS
  <1>2. /\ r.next_init_at = Sooner(s.next_init_at)
        /\ r.last_handshake_at = Older(s.last_handshake_at, REKEY_AFTER)
        /\ r.init_rx_count = s.init_rx_count
        /\ r.init_rx_window_start = IF s.init_rx_window_start < RATE_WINDOW
                                    THEN s.init_rx_window_start + 1
                                    ELSE s.init_rx_window_start
        /\ r.state.tag = s.state.tag
        /\ ~IsRekeying(s) => r.state = s.state
        /\ IsRekeying(s) =>
              /\ IsRekeying(r)
              /\ r.state.rehandshake.next_retry_at
                    = Sooner(s.state.rehandshake.next_retry_at)
    BY <1>1, AgedFields
  <1>3. /\ s.next_init_at \in Nat \cup {None} /\ s.last_handshake_at \in Nat \cup {None}
        /\ s.init_rx_window_start \in Nat /\ RATE_WINDOW \in Nat /\ REKEY_AFTER \in Nat
        /\ None \notin Nat
    BY NoneAssumption, TimingAssumption DEF PeerSession
  <1>4. /\ IsInitiating(r) <=> IsInitiating(s)
        /\ IsReady(r) <=> IsReady(s)
        /\ IsRekeying(r) <=> IsRekeying(s)
    BY <1>2 DEF IsInitiating, IsReady, IsRekeying
  <1>5. Silence(r) >= Silence(s) - 1
    <2>1. CASE IsInitiating(s) /\ s.next_init_at # None
      <3>1. r.next_init_at \in Nat /\ r.next_init_at >= s.next_init_at - 1
        BY <1>2, <1>3, <2>1 DEF Sooner
      <3>2. Silence(s) = s.next_init_at /\ Silence(r) = r.next_init_at
        BY <1>3, <1>4, <2>1, <3>1 DEF Silence
      <3> QED BY <3>1, <3>2
    <2>2. CASE IsRekeying(s)
      <3>1. s.state.rehandshake.next_retry_at \in Nat
        BY <2>2, ReadyStates DEF Rehandshake
      <3>2. r.state.rehandshake.next_retry_at >= s.state.rehandshake.next_retry_at - 1
        BY <1>2, <1>3, <2>2, <3>1 DEF Sooner
      <3>3. ~IsInitiating(s)
        BY <2>2 DEF IsRekeying, IsReady, IsInitiating
      <3>4. /\ Silence(s) = s.state.rehandshake.next_retry_at
            /\ Silence(r) = r.state.rehandshake.next_retry_at
        BY <1>4, <2>2, <3>3 DEF Silence
      <3> QED BY <3>2, <3>4
    <2>3. CASE ~(IsInitiating(s) /\ s.next_init_at # None) /\ ~IsRekeying(s)
      <3>1. s.next_init_at = None => r.next_init_at = None
        BY <1>2 DEF Sooner
      <3>2. IF s.last_handshake_at = None THEN r.last_handshake_at = None
            ELSE /\ r.last_handshake_at \in Nat
                 /\ r.last_handshake_at <= s.last_handshake_at + 1
        BY <1>2, <1>3 DEF Older
      <3> QED BY <1>3, <1>4, <2>3, <3>1, <3>2 DEF Silence
    <2> QED BY <2>1, <2>2, <2>3
  <1>6. s # Absent /\ r # Absent
    BY NoneAssumption
  <1>7. /\ Pace(s).silent = Silence(s) /\ Pace(r).silent = Silence(r)
        /\ \/ Pace(r).count = 0
           \/ Pace(r).count = Pace(s).count /\ Pace(r).rest = Pace(s).rest - 1
    BY <1>2, <1>3, <1>6 DEF Pace, InWindow
  <1> QED BY <1>1, <1>5, <1>7

(* The paces after a step. *)
LEMMA PacesPrimed == Paces' = [u \in Node \X Node |-> Pace(peers'[u[1]][u[2]])]
  BY DEF Paces, Pace, InWindow, Silence, IsInitiating, IsRekeying, IsReady

(* No time passes while an INIT is under way. *)
LEMMA TickPaces ==
  ASSUME IInv, PromptNetwork, PacesOK, Tick
  PROVE  PacesOK' /\ up' = up
  <1>1. /\ peers' = [n \in Node |-> [p \in Node |->
                        IF p \in Known(n) THEN Aged(peers[n][p]) ELSE Absent]]
        /\ net' = net /\ up' = up /\ InFlight = {}
    BY DEF Tick, PromptNetwork
  <1>2. Asking = {} /\ Asking' = {}
    BY <1>1 DEF Asking, Messages, InFlight
  <1>3. left'.stops = left.stops
    <2> DEFINE ticks == left.ticks - 1
    <2>1. left' = left \/ left' = [left EXCEPT !.ticks = ticks]
      BY DEF Tick
    <2>2. left \in Budgets
      BY DEF IInv, WorldOK
    <2> HIDE DEF ticks
    <2> QED BY <2>1, <2>2 DEF Budgets
  <1>4. ASSUME NEW u \in Node \X Node
        PROVE  /\ Paces'[u] \in PaceRecord
               /\ Paces'[u].silent >= Paces[u].silent - 1
               /\ \/ Paces'[u].count = 0
                  \/ Paces'[u].count = Paces[u].count /\ Paces'[u].rest = Paces[u].rest - 1
    <2>1. PICK n \in Node, p \in Node : u = <<n, p>>
      OBVIOUS
    <2>2. /\ Paces[u] = Pace(peers[n][p])
          /\ Paces'[u] = Pace(IF p \in Known(n) THEN Aged(peers[n][p]) ELSE Absent)
      BY <1>1, <2>1, PacesPrimed DEF Paces
    <2>3. CASE p \in Known(n)
      <3>1. peers[n][p] \in PeerSession /\ Aged(peers[n][p]) \in PeerSession
        <4>1. Legal(peers[n][p])
          BY <2>3, KnownSession DEF IInv
        <4> QED BY <4>1, AgedLegal DEF Legal
      <3>2. Pace(Aged(peers[n][p])) \in PaceRecord
        BY <3>1, PaceTyped
      <3> QED BY <2>2, <2>3, <3>1, <3>2, AgedPace
    <2>4. CASE p \notin Known(n)
      <3>1. peers[n][p] = Absent
        BY <2>4 DEF Known
      <3>2. Pace(Absent) \in PaceRecord /\ Pace(Absent).count = 0 /\ Pace(Absent).silent = -1
        BY PaceTyped DEF Pace
      <3> QED BY <2>2, <2>4, <3>1, <3>2
    <2> QED BY <2>3, <2>4
  <1>5. Paces' \in [Node \X Node -> PaceRecord]
    BY <1>4, PacesPrimed
  <1>6. Stopped' = Stopped
    BY <1>3 DEF Stopped
  <1>7. AllPaced(Paces', {}, Stopped)
    <2>1. AllPaced(Paces, {}, Stopped)
      BY <1>2 DEF PacesOK
    <2> QED BY <1>4, <1>5, <2>1, PacedTick
  <1> QED BY <1>1, <1>2, <1>3, <1>6, <1>7 DEF PacesOK

(* A daemon is stopped: its peers may see one more INIT of it. *)
LEMMA StopPaces ==
  ASSUME IInv, PacesOK, NEW n \in Node, Stop(n)
  PROVE  PacesOK' /\ left'.stops < left.stops
  <1>1. /\ left.stops > 0 /\ net' = net
        /\ peers' = [peers EXCEPT ![n] = [p \in Node |-> Absent]]
    BY DEF Stop, Down
  <1>2. left \in Budgets /\ Budget \in Budgets /\ left'.stops = left.stops - 1
    <2> DEFINE stops == left.stops - 1
    <2>1. left \in Budgets /\ left' = [left EXCEPT !.stops = stops]
      BY DEF IInv, WorldOK, Stop
    <2> HIDE DEF stops
    <2>2. left'.stops = stops
      BY <2>1 DEF Budgets
    <2> QED BY <2>1, <2>2, TimingAssumption DEF stops
  <1>3. Asking' = Asking
    BY <1>1 DEF Asking, Messages, InFlight
  <1>4. Stopped' = Stopped + 1 /\ left'.stops < left.stops /\ left'.stops <= Budget.stops
    BY <1>2 DEF Stopped, PacesOK, Budgets
  <1>5. Pace(Absent) \in PaceRecord /\ Pace(Absent).count = 0
    BY PaceTyped DEF Pace
  <1>6. ASSUME NEW u \in Node \X Node
        PROVE  Paces'[u] \in PaceRecord /\ Paces'[u].count <= Paces[u].count
    <2>1. Paces[u] = Pace(peers[u[1]][u[2]]) /\ Paces'[u] = Pace(peers'[u[1]][u[2]])
      BY PacesPrimed DEF Paces
    <2>2. Paces[u] \in PaceRecord
      BY DEF PacesOK, AllPaced
    <2>3. peers'[u[1]][u[2]] = IF u[1] = n THEN Absent ELSE peers[u[1]][u[2]]
      BY <1>1 DEF IInv, TablesOK
    <2> QED BY <1>5, <2>1, <2>2, <2>3 DEF PaceRecord
  <1>7. Paces' \in [Node \X Node -> PaceRecord]
    BY <1>6, PacesPrimed
  <1>8. AllPaced(Paces', Asking, Stopped + 1)
    BY <1>6, <1>7, PacedStop DEF PacesOK
  <1> QED BY <1>3, <1>4, <1>8 DEF PacesOK

(* Loss, datagrams to nobody, roaming and starts; nothing is delivered twice. *)
LEMMA WorldPaces ==
  ASSUME IInv, PromptOK, PacesOK,
         \/ \E d \in InFlight : Lose(d) \/ Duplicate(d) \/ Vanish(d)
         \/ \E n \in Node, a \in Addr : Rebind(n, a)
         \/ \E n \in Node : Start(n)
  PROVE  PacesOK' /\ up \subseteq up'
  <1>1. left \in Budgets /\ left.dup = 0
    BY DEF IInv, WorldOK, PromptOK, TokensOK, OneCopyEach
  <1>2. ASSUME NEW d \in InFlight, Lose(d) \/ Duplicate(d) \/ Vanish(d)
        PROVE  PacesOK' /\ up \subseteq up'
    <2>1. ~Duplicate(d)
      BY <1>1 DEF Duplicate
    <2>2. net' = Consume(d) /\ peers' = peers /\ up' = up
      BY <1>2, <2>1 DEF Lose, Vanish, world
    <2>3. left'.stops = left.stops
      <3> DEFINE loss == left.loss - 1
      <3>1. left' = left \/ left' = [left EXCEPT !.loss = loss]
        BY <1>2, <2>1 DEF Lose, Vanish
      <3> HIDE DEF loss
      <3> QED BY <1>1, <3>1 DEF Budgets
    <2> QED BY <2>2, <2>3, MessagesConsumed, AskingFrom, SamePaces
  <1>3. ASSUME NEW n \in Node, (\E a \in Addr : Rebind(n, a)) \/ Start(n)
        PROVE  PacesOK' /\ up \subseteq up'
    <2>1. net' = net /\ peers' = peers /\ up \subseteq up'
      BY <1>3 DEF Rebind, Start
    <2>2. left'.stops = left.stops
      <3> DEFINE rebinds == left.rebinds - 1
      <3>1. left' = left \/ left' = [left EXCEPT !.rebinds = rebinds]
        BY <1>3 DEF Rebind, Start
      <3> HIDE DEF rebinds
      <3> QED BY <1>1, <3>1 DEF Budgets
    <2>3. Asking' \subseteq Asking
      BY <2>1 DEF Asking, Messages, InFlight
    <2> QED BY <2>1, <2>2, <2>3, SamePaces
  <1> QED BY <1>2, <1>3

-----------------------------------------------------------------------------

(* PacesOK holds initially: nobody has a session and nothing is sent. *)
LEMMA InitPaces ==
  ASSUME Init
  PROVE  PacesOK
  <1>1. InFlight = {} /\ left = Budget /\ Budget.stops \in Nat
    BY BagEmpty, TimingAssumption DEF Init, InFlight, Budgets
  <1>2. Asking = {} /\ Stopped = 0 /\ left.stops <= Budget.stops
    BY <1>1 DEF Asking, Messages, Stopped
  <1>3. Pace(Absent) \in PaceRecord /\ Pace(Absent).count = 0
    BY PaceTyped DEF Pace
  <1>4. Paces = [u \in Node \X Node |-> Pace(Absent)]
    BY DEF Init, Paces
  <1> DEFINE a == Pace(Absent)
  <1> HIDE DEF a
  <1>5. ASSUME NEW u \in Node \X Node PROVE Paced(Paces, {}, 0, u)
    <2>1. Reverse(u) \in Node \X Node
      BY ReversePairs
    <2>2. Paces[u] = a /\ Paces[Reverse(u)] = a
      BY <1>4, <2>1 DEF a
    <2>3. a.count = 0
      BY <1>3 DEF a
    <2> QED BY <2>2, <2>3 DEF Paced
  <1>6. Paces \in [Node \X Node -> PaceRecord]
    BY <1>3, <1>4
  <1> QED BY <1>2, <1>5, <1>6 DEF PacesOK, AllPaced

(* It is inductive relative to the invariants before it, and a daemon ends
   only where the environment stops it. *)
LEMMA NextKeepsPaces ==
  ASSUME AddressesIdentify, PromptNetwork, RoomForInits
  PROVE  IInv /\ AttributionOK /\ PromptOK /\ PacesOK /\ [Next]_vars =>
             PacesOK' /\ (up \subseteq up' \/ left'.stops < left.stops)
  <1> SUFFICES ASSUME IInv, AttributionOK, PromptOK, PacesOK, [Next]_vars
               PROVE  PacesOK' /\ (up \subseteq up' \/ left'.stops < left.stops)
    OBVIOUS
  <1>1. CASE UNCHANGED vars
    <2>1. net' = net /\ peers' = peers /\ up' = up /\ left' = left
      BY <1>1 DEF vars
    <2>2. Asking' \subseteq Asking
      BY <2>1 DEF Asking, Messages, InFlight
    <2> QED BY <2>1, <2>2, SamePaces
  <1>2. ASSUME NEW n \in Node, NEW p \in Node, PeerStep(n, p) PROVE PacesOK' /\ up' = up
    BY <1>2, PeerStepPaces
  <1>3. ASSUME NEW n \in Node, NEW d \in InFlight, Receive(n, d) PROVE PacesOK' /\ up' = up
    BY <1>3, ReceivePaces
  <1>4. ASSUME NEW n \in Node, Stop(n) PROVE PacesOK' /\ left'.stops < left.stops
    BY <1>4, StopPaces
  <1>5. CASE Tick
    BY <1>5, TickPaces
  <1> QED BY <1>1, <1>2, <1>3, <1>4, <1>5, WorldPaces DEF Next

(* Where the network is prompt and the limit of check_init_cookie has room for
   the INITs of every restart, no datagram ends a daemon: a retry and a rekey
   are further apart than the window, so generate_cookie, which panics, is never
   reached. *)
THEOREM DaemonsRun ==
  ASSUME NEW flags, PlainFlags(flags), PromptNetwork, RoomForInits
  PROVE  Spec => DaemonKeepsRunning
  <1>1. AddressesIdentify
    BY FlagsIdentify
  <1>2. Init => PacesOK
    BY InitPaces
  <1>3. IInv /\ AttributionOK /\ PromptOK /\ PacesOK /\ [Next]_vars =>
            PacesOK' /\ (up \subseteq up' \/ left'.stops < left.stops)
    BY <1>1, NextKeepsPaces
  <1>4. Spec => []IInv
    BY Invariance
  <1>5. Spec => []AttributionOK
    BY AttributionInvariance
  <1> QED BY <1>2, <1>3, <1>4, <1>5, PromptInvariance, PTL DEF Spec, DaemonKeepsRunning
=============================================================================
