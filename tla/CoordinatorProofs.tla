------------------------- MODULE CoordinatorProofs -------------------------
(***************************************************************************)
(* Proofs about the coordinator, for every pool, every number of requests  *)
(* at a time and every statement that may fail: its tables and handlers    *)
(* keep their types, the pool agrees with the table, an address is lost    *)
(* only by a failure, and the coordinator implements Registry.             *)
(***************************************************************************)
EXTENDS OpenCoordinator, TLAPS

(* A handler has what its next section needs. *)
Worker(x, known) ==
    /\ x \in CallRecord
    /\ x.pc \in {"update", "revoke", "create", "delete"}
          => x.node \in NodeId \cap known
    /\ x.pc = "insert" => x.identity \in Identity /\ x.wg \in WgKey
    /\ x.pc = "update" => x.report \in Report

TablesOK ==
    /\ DOMAIN nodes \subseteq NodeId \cap drawn
    /\ nodes \in [DOMAIN nodes -> NodeRow]
    /\ DOMAIN tokens \subseteq Token \cap drawn
    /\ tokens \in [DOMAIN tokens -> TokenRow]
    /\ \A t \in DOMAIN tokens : tokens[t].node \in drawn
    /\ used \subseteq Address
    /\ drawn \subseteq NodeId \cup Token

CallsOK ==
    /\ calls \in [Call -> CallRecord]
    /\ \A c \in Call : Worker(calls[c], drawn)

UniqueAddresses ==
    \A m, n \in DOMAIN nodes : m # n => nodes[m].ip # nodes[n].ip

(* The inductive invariant.  ReservedAddresses needs UniqueAddresses: when a
   row is deleted its address goes from the table into the hands of the
   handler, and must not stay in the table as well. *)
IInv == TablesOK /\ CallsOK /\ ReservedAddresses /\ UniqueAddresses

(* The inductive invariant contains the types. *)
LEMMA IInvTypeOK == IInv => TypeOK
  BY DEF IInv, TablesOK, CallsOK, Worker, TypeOK

-----------------------------------------------------------------------------
(* Facts about the helpers. *)

(* A handler that is idle. *)
LEMMA IdleIs ==
  /\ Idle \in CallRecord
  /\ Idle.pc = "idle"
  BY CoordinatorAssumption DEF Idle, CallRecord

(* A handler that is about to answer. *)
LEMMA AnsweredIs ==
  ASSUME NEW answer \in {"ok", "error"}
  PROVE  /\ Answered(answer) \in CallRecord
         /\ Answered(answer).pc = answer
  BY CoordinatorAssumption DEF Answered, Idle, CallRecord

(* The ranges of lifetimes and addresses. *)
LEMMA RangesAre == TTL \in 0..TTL /\ Address \subseteq 0..HostCount
  BY CoordinatorAssumption DEF Address

(* A unit of time less is a lifetime again. *)
LEMMA LessIs == \A n \in 0..TTL : Less(n) \in 0..TTL
  BY CoordinatorAssumption DEF Less

(* One handler goes on: the others are as they were. *)
LEMMA GotoKeepsCalls ==
  ASSUME CallsOK, NEW c \in Call, NEW x, Goto(c, x),
         drawn \subseteq drawn', Worker(x, drawn')
  PROVE  CallsOK'
  BY DEF CallsOK, Worker, Goto

(* No address changes hands. *)
LEMMA SameHands ==
  ASSUME calls \in [Call -> CallRecord], ReservedAddresses,
         NEW c \in Call, NEW x, Goto(c, x),
         c \notin Holding, x.pc \notin {"insert", "release"},
         used' = used, Assigned' = Assigned
  PROVE  ReservedAddresses'
  BY DEF ReservedAddresses, Holding, Goto

-----------------------------------------------------------------------------
(* Every step keeps the inductive invariant. *)

(* At first the tables are empty and every handler is idle. *)
LEMMA InitHolds == Init => IInv
<1> SUFFICES ASSUME Init PROVE IInv
  OBVIOUS
<1>1. nodes = <<>> /\ tokens = <<>> /\ used = {} /\ drawn = {}
  BY DEF Init, CoordInit
<1>2. TablesOK
  BY <1>1 DEF TablesOK
<1>3. calls = [c \in Call |-> Idle]
  BY DEF Init, CoordInit
<1>4. CallsOK
  BY <1>3, IdleIs DEF CallsOK, Worker
<1>5. ReservedAddresses /\ UniqueAddresses
  BY <1>1, <1>3, IdleIs
     DEF ReservedAddresses, UniqueAddresses, Assigned, Holding
<1> QED
  BY <1>2, <1>4, <1>5 DEF IInv

(* Nothing changes. *)
LEMMA StutterKeeps ==
  ASSUME IInv, UNCHANGED vars
  PROVE  IInv'
  BY DEF IInv, TablesOK, CallsOK, Worker, ReservedAddresses, UniqueAddresses,
         Assigned, Holding, vars

(* A section that writes no table and takes no address. *)
LEMMA QuietKeeps ==
  ASSUME IInv, NEW c \in Call, NEW x, Goto(c, x), Worker(x, drawn),
         c \notin Holding, x.pc \notin {"insert", "release"},
         UNCHANGED <<nodes, tokens, used, drawn>>
  PROVE  IInv'
<1>1. TablesOK' /\ UniqueAddresses'
  BY DEF IInv, TablesOK, UniqueAddresses
<1>2. CallsOK'
  BY GotoKeepsCalls DEF IInv
<1>3. Assigned' = Assigned
  BY DEF Assigned
<1>4. ReservedAddresses'
  BY <1>3, SameHands DEF IInv, CallsOK
<1> QED
  BY <1>1, <1>2, <1>4 DEF IInv

(* A handler that gives its answer and holds no address. *)
LEMMA AnswerKeeps ==
  ASSUME IInv, NEW c \in Call, NEW answer \in {"ok", "error"},
         Goto(c, Answered(answer)), c \notin Holding,
         UNCHANGED <<nodes, tokens, used, drawn>>
  PROVE  IInv'
<1>1. Worker(Answered(answer), drawn)
  BY AnsweredIs DEF Worker
<1> QED
  BY <1>1, AnsweredIs, QuietKeeps

(* A registration takes a free address, or is refused at once. *)
LEMMA RegisterKeeps ==
  ASSUME IInv, NEW c \in Call, NEW k \in Identity, NEW w \in WgKey,
         Register(c, k, w), drawn' = drawn
  PROVE  IInv'
<1>1. CASE Free = {} /\ Goto(c, Answered("error")) /\ UNCHANGED used
  BY <1>1, AnswerKeeps DEF Register, Holding
<1>2. ASSUME NEW i \in Free, used' = used \cup {i},
             Goto(c, [Idle EXCEPT !.pc = "insert", !.identity = k, !.wg = w,
                                  !.ip = i, !.left = TTL])
      PROVE  IInv'
  <2> DEFINE x == [Idle EXCEPT !.pc = "insert", !.identity = k, !.wg = w,
                               !.ip = i, !.left = TTL]
  <2>1. i \in Address /\ i \notin used
    BY <1>2 DEF Free
  <2>2. /\ x.pc = "insert" /\ x.ip = i /\ x.identity = k /\ x.wg = w
        /\ x \in CallRecord
    BY <2>1, RangesAre, IdleIs DEF CallRecord
  <2> HIDE DEF x
  <2>3. Goto(c, x)
    BY <1>2 DEF x
  <2>4. UNCHANGED <<nodes, tokens>>
    BY DEF Register
  <2>5. TablesOK' /\ UniqueAddresses'
    BY <1>2, <2>1, <2>4 DEF IInv, TablesOK, UniqueAddresses
  <2>6. CallsOK'
    BY <2>2, <2>3, GotoKeepsCalls DEF IInv, Worker
  <2>7. Assigned' = Assigned
    BY <2>4 DEF Assigned
  <2>8. \A d \in Call : calls'[d] = IF d = c THEN x ELSE calls[d]
    BY <2>3 DEF Goto, IInv, CallsOK
  <2>9. ReservedAddresses'
    BY <1>2, <2>1, <2>2, <2>7, <2>8 DEF IInv, ReservedAddresses, Holding
  <2> QED
    BY <2>5, <2>6, <2>9 DEF IInv
<1> QED
  BY <1>1, <1>2 DEF Register

(* A request that authenticates goes on for a node of the table. *)
LEMMA AuthenticateKeeps ==
  ASSUME IInv, NEW c \in Call, NEW t, NEW k, NEW x \in CallRecord,
         x.pc \in {"list", "update", "revoke", "delete"},
         x.pc = "update" => x.report \in Report,
         Authenticate(c, t, k, x), drawn' = drawn
  PROVE  IInv'
<1> DEFINE y == [x EXCEPT !.node = tokens[t].node]
<1>1. Goto(c, y) /\ UNCHANGED <<nodes, tokens, used>> /\ c \notin Holding
  BY DEF Authenticate, Holding
<1>2. tokens[t].node \in NodeId \cap drawn
  BY DEF Authenticate, Active, IInv, TablesOK
<1>3. y \in CallRecord /\ y.pc = x.pc /\ y.node = tokens[t].node
      /\ y.report = x.report
  BY <1>2 DEF CallRecord
<1> HIDE DEF y
<1>4. Worker(y, drawn)
  BY <1>2, <1>3 DEF Worker
<1> QED
  BY <1>1, <1>3, <1>4, QuietKeeps

(* Every request that arrives. *)
LEMMA RequestKeeps ==
  ASSUME IInv, NEW c \in Call, Request(c)
  PROVE  IInv'
<1>1. drawn' = drawn
  BY DEF Request
<1>2. CASE \E k \in Identity, w \in WgKey : Register(c, k, w)
  BY <1>1, <1>2, RegisterKeeps
<1>3. ASSUME NEW t \in DOMAIN tokens, Peers(c, t)
      PROVE  IInv'
  <2> DEFINE x == [Idle EXCEPT !.pc = "list"]
  <2>1. x \in CallRecord /\ x.pc = "list"
    BY IdleIs DEF CallRecord
  <2>2. Authenticate(c, t, nodes[tokens[t].node].identity, x)
    BY <1>3 DEF Peers
  <2> QED
    BY <1>1, <2>1, <2>2, AuthenticateKeeps
<1>4. ASSUME NEW t \in DOMAIN tokens, NEW k \in Identity, NEW r \in Report,
             Heartbeat(c, t, k, r)
      PROVE  IInv'
  <2> DEFINE x == [Idle EXCEPT !.pc = "update", !.report = r]
  <2>1. x \in CallRecord /\ x.pc = "update" /\ x.report = r
    BY IdleIs DEF CallRecord
  <2>2. Authenticate(c, t, k, x)
    BY <1>4 DEF Heartbeat
  <2> QED
    BY <1>1, <2>1, <2>2, AuthenticateKeeps
<1>5. ASSUME NEW t \in DOMAIN tokens, NEW k \in Identity, RefreshToken(c, t, k)
      PROVE  IInv'
  <2> DEFINE x == [Idle EXCEPT !.pc = "revoke", !.left = TTL]
  <2>1. x \in CallRecord /\ x.pc = "revoke"
    BY IdleIs, RangesAre DEF CallRecord
  <2>2. Authenticate(c, t, k, x)
    BY <1>5 DEF RefreshToken
  <2> QED
    BY <1>1, <2>1, <2>2, AuthenticateKeeps
<1>6. ASSUME NEW t \in DOMAIN tokens, NEW k \in Identity, DeleteNode(c, t, k)
      PROVE  IInv'
  <2> DEFINE x == [Idle EXCEPT !.pc = "delete"]
  <2>1. x \in CallRecord /\ x.pc = "delete"
    BY IdleIs DEF CallRecord
  <2>2. Authenticate(c, t, k, x)
    BY <1>6 DEF DeleteNode
  <2> QED
    BY <1>1, <2>1, <2>2, AuthenticateKeeps
<1> QED
  BY <1>2, <1>3, <1>4, <1>5, <1>6 DEF Request

(* The row is new, and its address was in the hands of the handler. *)
LEMMA InsertKeeps ==
  ASSUME IInv, NEW c \in Call, NEW n \in NodeId \ drawn, NEW t \in Token \ drawn,
         InsertNode(c, n, t),
         drawn' = IF nodes' = nodes THEN drawn ELSE drawn \cup {n, t}
  PROVE  IInv'
<1> DEFINE call == calls[c]
           row == [identity |-> call.identity, wg |-> call.wg, ip |-> call.ip,
                   endpoint |-> None, via_relay |-> None]
           answer == [Answered("ok") EXCEPT !.node = n, !.token = t,
                                            !.left = call.left]
           token == [node |-> n, left |-> call.left]
<1>1. /\ call \in CallRecord /\ call.pc = "insert"
      /\ call.identity \in Identity /\ call.wg \in WgKey
      /\ c \in Holding /\ call.ip \in used \ Assigned /\ call.ip \in Address
  BY DEF InsertNode, IInv, CallsOK, TablesOK, Worker, ReservedAddresses, Holding
<1>2. row \in NodeRow /\ row.ip = call.ip
  BY <1>1 DEF NodeRow
<1>3. token \in TokenRow /\ token.node = n
  BY <1>1 DEF TokenRow, CallRecord
<1>4. answer \in CallRecord /\ answer.pc = "ok"
  BY <1>1, AnsweredIs DEF CallRecord
<1>5. n \notin DOMAIN nodes /\ t \notin DOMAIN tokens
  BY DEF IInv, TablesOK
<1>6. CASE Fail(c)
  <2>1. UNCHANGED <<nodes, tokens, used, drawn>>
        /\ Goto(c, Answered("error"))
    BY <1>6 DEF Fail, InsertNode
  <2>2. TablesOK' /\ UniqueAddresses' /\ Assigned' = Assigned
    BY <2>1 DEF IInv, TablesOK, UniqueAddresses, Assigned
  <2>3. CallsOK'
    BY <2>1, AnsweredIs, GotoKeepsCalls DEF IInv, Worker
  <2>4. \A d \in Call : calls'[d] = IF d = c THEN Answered("error") ELSE calls[d]
    BY <2>1 DEF Goto, IInv, CallsOK
  <2>5. ReservedAddresses'
    BY <2>1, <2>2, <2>4, AnsweredIs DEF IInv, ReservedAddresses, Holding
  <2> QED
    BY <2>2, <2>3, <2>5 DEF IInv
<1>7. ASSUME NEW x \in CallRecord, x.pc \in {"ok", "error"}, Goto(c, x),
             nodes' = With(nodes, n, row), used' = used,
             \/ tokens' = With(tokens, t, token)
             \/ tokens' = tokens
      PROVE  IInv'
  <2> HIDE DEF row, token, answer
  <2>1. /\ DOMAIN nodes' = DOMAIN nodes \cup {n}
        /\ nodes' \in [DOMAIN nodes' -> NodeRow]
        /\ nodes'[n] = row
        /\ \A m \in DOMAIN nodes : m # n => nodes'[m] = nodes[m]
    <3>1. nodes \in [DOMAIN nodes -> NodeRow]
      BY DEF IInv, TablesOK
    <3> QED
      BY <1>2, <1>7, <3>1 DEF With
  <2>2. drawn' = drawn \cup {n, t}
    BY <1>5, <2>1
  <2>3. /\ DOMAIN tokens' \subseteq DOMAIN tokens \cup {t}
        /\ tokens' \in [DOMAIN tokens' -> TokenRow]
        /\ \A u \in DOMAIN tokens' : \/ u \in DOMAIN tokens /\ tokens'[u] = tokens[u]
                                    \/ tokens'[u].node = n
    <3>1. tokens \in [DOMAIN tokens -> TokenRow]
      BY DEF IInv, TablesOK
    <3>2. CASE tokens' = tokens
      BY <3>1, <3>2
    <3>3. CASE tokens' = With(tokens, t, token)
      BY <1>3, <3>1, <3>3 DEF With
    <3> QED
      BY <1>7, <3>2, <3>3
  <2>4. TablesOK'
    BY <1>7, <2>1, <2>2, <2>3 DEF IInv, TablesOK
  <2>5. CallsOK'
    BY <1>7, <2>2, GotoKeepsCalls DEF IInv, Worker
  <2>6. Assigned' = Assigned \cup {call.ip}
    BY <1>2, <1>5, <2>1 DEF Assigned
  <2>7. UniqueAddresses'
    BY <1>1, <1>2, <1>5, <2>1 DEF IInv, UniqueAddresses, Assigned
  <2>8. \A d \in Call : calls'[d] = IF d = c THEN x ELSE calls[d]
    BY <1>7 DEF Goto, IInv, CallsOK
  <2>9. ReservedAddresses'
    BY <1>1, <1>7, <2>6, <2>8 DEF IInv, ReservedAddresses, Holding
  <2> QED
    BY <2>4, <2>5, <2>7, <2>9 DEF IInv
<1>8. Answered("error") \in CallRecord /\ Answered("error").pc = "error"
  BY AnsweredIs
<1> QED
  BY <1>4, <1>6, <1>7, <1>8 DEF InsertNode

(* A new token row, for a node that may be gone by then. *)
LEMMA CreateKeeps ==
  ASSUME IInv, NEW c \in Call, NEW t \in Token \ drawn, CreateToken(c, t),
         drawn' = IF tokens' = tokens THEN drawn ELSE drawn \cup {t}
  PROVE  IInv'
<1> DEFINE call == calls[c]
           answer == [Answered("ok") EXCEPT !.node = call.node, !.token = t,
                                            !.left = call.left]
           token == [node |-> call.node, left |-> call.left]
<1>1. /\ call \in CallRecord /\ call.pc = "create"
      /\ call.node \in NodeId \cap drawn
      /\ c \notin Holding
  BY DEF CreateToken, IInv, CallsOK, Worker, Holding
<1>2. token \in TokenRow /\ token.node = call.node
  BY <1>1 DEF TokenRow, CallRecord
<1>3. answer \in CallRecord /\ answer.pc = "ok"
  BY <1>1, AnsweredIs DEF CallRecord
<1>4. used' = used
  BY DEF CreateToken
<1>5. CASE Fail(c)
  <2>1. drawn' = drawn
    BY <1>5 DEF Fail
  <2> QED
    BY <1>1, <1>4, <1>5, <2>1, AnswerKeeps DEF Fail
<1>6. ASSUME tokens' = With(tokens, t, token), Goto(c, answer), nodes' = nodes
      PROVE  IInv'
  <2> HIDE DEF token, answer
  <2>1. /\ DOMAIN tokens' = DOMAIN tokens \cup {t}
        /\ tokens' \in [DOMAIN tokens' -> TokenRow]
        /\ tokens'[t] = token
        /\ \A u \in DOMAIN tokens : u # t => tokens'[u] = tokens[u]
    <3>1. tokens \in [DOMAIN tokens -> TokenRow]
      BY DEF IInv, TablesOK
    <3> QED
      BY <1>2, <1>6, <3>1 DEF With
  <2>2. drawn' = drawn \cup {t}
    BY <2>1 DEF IInv, TablesOK
  <2>3. TablesOK' /\ UniqueAddresses' /\ Assigned' = Assigned
    BY <1>1, <1>2, <1>4, <1>6, <2>1, <2>2
       DEF IInv, TablesOK, UniqueAddresses, Assigned
  <2>4. CallsOK'
    BY <1>3, <1>6, <2>2, GotoKeepsCalls DEF IInv, Worker
  <2>5. ReservedAddresses'
    BY <1>1, <1>3, <1>4, <1>6, <2>3, SameHands DEF IInv, CallsOK
  <2> QED
    BY <2>3, <2>4, <2>5 DEF IInv
<1> QED
  BY <1>5, <1>6 DEF CreateToken

(* A heartbeat changes two columns of one row at most. *)
LEMMA ReportedIs ==
  ASSUME NEW row \in NodeRow, NEW r \in Report
  PROVE  /\ Reported(row, r) \in NodeRow
         /\ Reported(row, r).ip = row.ip
  BY CoordinatorAssumption DEF Reported, NodeRow

(* A heartbeat that is written down. *)
LEMMA UpdateKeeps ==
  ASSUME IInv, NEW c \in Call, UpdateHeartbeat(c), drawn' = drawn
  PROVE  IInv'
<1> DEFINE call == calls[c]
<1>1. call.pc = "update" /\ call.report \in Report /\ c \notin Holding
      /\ used' = used
  BY DEF UpdateHeartbeat, IInv, CallsOK, Worker, Holding
<1>2. CASE Fail(c)
  BY <1>1, <1>2, AnswerKeeps DEF Fail
<1>3. CASE /\ Goto(c, Answered("ok"))
           /\ nodes' = [n \in DOMAIN nodes |->
                           IF n = call.node THEN Reported(nodes[n], call.report)
                           ELSE nodes[n]]
           /\ tokens' = tokens
  <2>1. \A n \in DOMAIN nodes : nodes[n] \in NodeRow
    BY DEF IInv, TablesOK
  <2>2. DOMAIN nodes' = DOMAIN nodes
    BY <1>3
  <2>3. \A n \in DOMAIN nodes :
           nodes'[n] \in NodeRow /\ nodes'[n].ip = nodes[n].ip
    BY <1>1, <1>3, <2>1, ReportedIs
  <2>4. nodes' \in [DOMAIN nodes' -> NodeRow]
    BY <1>3, <2>2, <2>3
  <2>5. TablesOK' /\ UniqueAddresses' /\ Assigned' = Assigned
    BY <1>1, <1>3, <2>2, <2>3, <2>4
       DEF IInv, TablesOK, UniqueAddresses, Assigned
  <2>6. CallsOK'
    BY <1>3, AnsweredIs, GotoKeepsCalls DEF IInv, Worker
  <2>7. ReservedAddresses'
    BY <1>1, <1>3, <2>5, AnsweredIs, SameHands DEF IInv, CallsOK
  <2> QED
    BY <2>5, <2>6, <2>7 DEF IInv
<1> QED
  BY <1>2, <1>3 DEF UpdateHeartbeat

(* Rows of tokens may go at any time. *)
LEMMA FewerTokens ==
  ASSUME TablesOK, NEW K, tokens' = Without(tokens, K),
         UNCHANGED <<nodes, used, drawn>>
  PROVE  TablesOK' /\ DOMAIN tokens' = DOMAIN tokens \ K
<1>1. tokens \in [DOMAIN tokens -> TokenRow]
  BY DEF TablesOK
<1>2. /\ DOMAIN tokens' = DOMAIN tokens \ K
      /\ tokens' \in [DOMAIN tokens' -> TokenRow]
      /\ \A t \in DOMAIN tokens' : tokens'[t] = tokens[t]
  BY <1>1 DEF Without, Restrict
<1> QED
  BY <1>2 DEF TablesOK

(* The tokens of a node end. *)
LEMMA RevokeKeeps ==
  ASSUME IInv, NEW c \in Call, RevokeTokens(c), drawn' = drawn
  PROVE  IInv'
<1> DEFINE call == calls[c]
           x == [call EXCEPT !.pc = "create"]
<1>1. /\ call \in CallRecord /\ call.pc = "revoke" /\ c \notin Holding
      /\ call.node \in NodeId \cap drawn /\ used' = used
  BY DEF RevokeTokens, IInv, CallsOK, Worker, Holding
<1>2. CASE Fail(c)
  BY <1>1, <1>2, AnswerKeeps DEF Fail
<1>3. CASE /\ Goto(c, x)
           /\ tokens' = Without(tokens, TokensOf(call.node))
           /\ nodes' = nodes
  <2>1. x \in CallRecord /\ x.pc = "create" /\ x.node = call.node
    BY <1>1 DEF CallRecord
  <2> HIDE DEF x
  <2>2. TablesOK'
    BY <1>1, <1>3, FewerTokens DEF IInv
  <2>3. UniqueAddresses' /\ Assigned' = Assigned
    BY <1>3 DEF IInv, UniqueAddresses, Assigned
  <2>4. CallsOK'
    BY <1>1, <1>3, <2>1, GotoKeepsCalls DEF IInv, Worker
  <2>5. ReservedAddresses'
    BY <1>1, <1>3, <2>1, <2>3, SameHands DEF IInv, CallsOK
  <2> QED
    BY <2>2, <2>3, <2>4, <2>5 DEF IInv
<1> QED
  BY <1>2, <1>3 DEF RevokeTokens

(* The address of the deleted row passes to the handler, or is lost. *)
LEMMA DeleteKeeps ==
  ASSUME IInv, NEW c \in Call, DeleteRows(c), drawn' = drawn
  PROVE  IInv'
<1> DEFINE n == calls[c].node
           taken == [Idle EXCEPT !.pc = "release", !.ip = nodes[n].ip]
<1>1. calls[c].pc = "delete" /\ c \notin Holding /\ used' = used
  BY DEF DeleteRows, Holding
<1>2. \A x, d : d \in Call /\ Goto(c, x) =>
               calls'[d] = IF d = c THEN x ELSE calls[d]
  BY DEF Goto, IInv, CallsOK
<1>3. CASE /\ Goto(c, Answered("error")) /\ nodes' = nodes
           /\ tokens' \in {tokens, Without(tokens, TokensOf(n))}
  <2>1. TablesOK'
    BY <1>1, <1>3, FewerTokens DEF IInv, TablesOK
  <2>2. UniqueAddresses' /\ Assigned' = Assigned
    BY <1>3 DEF IInv, UniqueAddresses, Assigned
  <2>3. CallsOK'
    BY <1>3, AnsweredIs, GotoKeepsCalls DEF IInv, Worker
  <2>4. ReservedAddresses'
    BY <1>1, <1>3, <2>2, AnsweredIs, SameHands DEF IInv, CallsOK
  <2> QED
    BY <2>1, <2>2, <2>3, <2>4 DEF IInv
<1>4. ASSUME nodes' = Without(nodes, {n}),
             tokens' = Without(tokens, TokensOf(n)),
             \/ Goto(c, Answered("ok"))
             \/ n \in DOMAIN nodes /\ Goto(c, taken)
      PROVE  IInv'
  <2>1. /\ DOMAIN nodes' = DOMAIN nodes \ {n}
        /\ nodes' \in [DOMAIN nodes' -> NodeRow]
        /\ \A m \in DOMAIN nodes' : nodes'[m] = nodes[m]
    <3>1. nodes \in [DOMAIN nodes -> NodeRow]
      BY DEF IInv, TablesOK
    <3> QED
      BY <1>4, <3>1 DEF Without, Restrict
  <2>2. /\ DOMAIN tokens' \subseteq DOMAIN tokens
        /\ tokens' \in [DOMAIN tokens' -> TokenRow]
        /\ \A t \in DOMAIN tokens' : tokens'[t] = tokens[t]
    <3>1. tokens \in [DOMAIN tokens -> TokenRow]
      BY DEF IInv, TablesOK
    <3> QED
      BY <1>4, <3>1 DEF Without, Restrict
  <2>3. TablesOK' /\ UniqueAddresses'
    BY <1>1, <2>1, <2>2 DEF IInv, TablesOK, UniqueAddresses
  <2>4. Assigned' \subseteq Assigned
    BY <2>1 DEF Assigned
  <2>5. CASE Goto(c, Answered("ok"))
    <3>1. CallsOK'
      BY <2>5, AnsweredIs, GotoKeepsCalls DEF IInv, Worker
    <3>2. ReservedAddresses'
      BY <1>1, <1>2, <2>4, <2>5, AnsweredIs DEF IInv, ReservedAddresses, Holding
    <3> QED
      BY <2>3, <3>1, <3>2 DEF IInv
  <2>6. CASE n \in DOMAIN nodes /\ Goto(c, taken)
    <3>1. nodes[n].ip \in Assigned /\ nodes[n].ip \in Address
      BY <2>6 DEF Assigned, IInv, TablesOK, NodeRow
    <3>2. taken \in CallRecord /\ taken.pc = "release"
          /\ taken.ip = nodes[n].ip
      BY <3>1, IdleIs, RangesAre DEF CallRecord
    <3> HIDE DEF taken
    <3>3. CallsOK'
      BY <2>6, <3>2, GotoKeepsCalls DEF IInv, Worker
    <3>4. nodes[n].ip \notin Assigned'
      BY <2>1, <2>6 DEF Assigned, IInv, UniqueAddresses
    <3>5. ReservedAddresses'
      BY <1>1, <1>2, <2>4, <2>6, <3>1, <3>2, <3>4
         DEF IInv, ReservedAddresses, Holding
    <3> QED
      BY <2>3, <3>3, <3>5 DEF IInv
  <2> QED
    BY <1>4, <2>5, <2>6
<1> QED
  BY <1>3, <1>4 DEF DeleteRows

(* An address goes back into the pool. *)
LEMMA ReleaseKeeps ==
  ASSUME IInv, NEW c \in Call, ReleaseAddress(c), drawn' = drawn
  PROVE  IInv'
<1>1. /\ c \in Holding /\ used' = used \ {calls[c].ip}
      /\ Goto(c, Answered("ok")) /\ UNCHANGED <<nodes, tokens>>
  BY DEF ReleaseAddress, Holding
<1>2. TablesOK' /\ UniqueAddresses' /\ Assigned' = Assigned
  BY <1>1 DEF IInv, TablesOK, UniqueAddresses, Assigned
<1>3. CallsOK'
  BY <1>1, AnsweredIs, GotoKeepsCalls DEF IInv, Worker
<1>4. \A d \in Call : calls'[d] = IF d = c THEN Answered("ok") ELSE calls[d]
  BY <1>1 DEF Goto, IInv, CallsOK
<1>5. ReservedAddresses'
  BY <1>1, <1>2, <1>4, AnsweredIs DEF IInv, ReservedAddresses, Holding
<1> QED
  BY <1>2, <1>3, <1>5 DEF IInv

(* Every section a handler goes on with. *)
LEMMA ServeKeeps ==
  ASSUME IInv, NEW c \in Call, Serve(c)
  PROVE  IInv'
<1>1. CASE ListPeers(c) /\ drawn' = drawn
  BY <1>1, AnswerKeeps DEF ListPeers, Holding
<1>2. CASE Respond(c) /\ drawn' = drawn
  BY <1>2, IdleIs, QuietKeeps DEF Respond, Holding, Worker
<1> QED
  BY <1>1, <1>2, InsertKeeps, CreateKeeps, UpdateKeeps, RevokeKeeps,
     DeleteKeeps, ReleaseKeeps DEF Serve

(* A restart drops every handler and takes the pool from the table. *)
LEMMA RestartKeeps ==
  ASSUME IInv, Restart, drawn' = drawn
  PROVE  IInv'
<1>1. /\ calls' = [c \in Call |-> Idle] /\ used' = Assigned
      /\ UNCHANGED <<nodes, tokens>>
  BY DEF Restart
<1>2. Assigned \subseteq Address /\ Assigned' = Assigned
  BY <1>1 DEF IInv, TablesOK, NodeRow, Assigned
<1>3. TablesOK' /\ UniqueAddresses'
  BY <1>1, <1>2 DEF IInv, TablesOK, UniqueAddresses
<1>4. CallsOK'
  BY <1>1, IdleIs DEF CallsOK, Worker
<1>5. ReservedAddresses'
  BY <1>1, <1>2, IdleIs DEF ReservedAddresses, Holding
<1> QED
  BY <1>3, <1>4, <1>5 DEF IInv

(* Time passes. *)
LEMMA ExpireKeeps ==
  ASSUME IInv, Expire, drawn' = drawn
  PROVE  IInv'
<1>1. ASSUME NEW t \in DOMAIN tokens
      PROVE  /\ [tokens[t] EXCEPT !.left = Less(tokens[t].left)] \in TokenRow
             /\ [tokens[t] EXCEPT !.left = Less(tokens[t].left)].node
                   = tokens[t].node
  <2>1. tokens[t] \in TokenRow
    BY DEF IInv, TablesOK
  <2>2. Less(tokens[t].left) \in 0..TTL
    BY <2>1, LessIs DEF TokenRow
  <2> QED
    BY <2>1, <2>2 DEF TokenRow
<1>2. /\ DOMAIN tokens' = DOMAIN tokens
      /\ tokens' \in [DOMAIN tokens' -> TokenRow]
      /\ \A t \in DOMAIN tokens : tokens'[t].node = tokens[t].node
  BY <1>1 DEF Expire
<1>3. TablesOK' /\ UniqueAddresses' /\ Assigned' = Assigned
  BY <1>2 DEF Expire, IInv, TablesOK, UniqueAddresses, Assigned
<1>4. ASSUME NEW c \in Call
      PROVE  /\ Worker(calls'[c], drawn)
             /\ calls'[c].pc = calls[c].pc /\ calls'[c].ip = calls[c].ip
  <2> DEFINE left == Less(calls[c].left)
  <2>1. calls[c] \in CallRecord /\ Worker(calls[c], drawn)
    BY DEF IInv, CallsOK
  <2>2. left \in 0..TTL
    BY <2>1, LessIs DEF CallRecord
  <2>3. calls'[c] = [calls[c] EXCEPT !.left = left]
    BY DEF Expire
  <2> HIDE DEF left
  <2> QED
    BY <2>1, <2>2, <2>3 DEF CallRecord, Worker
<1>5. CallsOK'
  <2>1. calls' = [c \in Call |-> calls'[c]]
    BY DEF Expire
  <2> QED
    BY <1>4, <2>1 DEF CallsOK, Worker, Expire
<1>6. ReservedAddresses'
  <2>1. Holding' = Holding
    BY <1>4 DEF Holding
  <2>2. \A c \in Call : calls'[c].ip = calls[c].ip
    BY <1>4
  <2>3. used' = used
    BY DEF Expire
  <2>4. ReservedAddresses
    BY DEF IInv
  <2>5. \A c \in Holding : calls'[c].ip = calls[c].ip
    BY <2>2 DEF Holding
  <2>6. Assigned' \subseteq used'
    BY <1>3, <2>3, <2>4 DEF ReservedAddresses
  <2>7. \A c \in Holding' : calls'[c].ip \in used' \ Assigned'
    BY <1>3, <2>1, <2>3, <2>4, <2>5 DEF ReservedAddresses
  <2>8. \A c, d \in Holding' : c # d => calls'[c].ip # calls'[d].ip
    BY <2>1, <2>4, <2>5 DEF ReservedAddresses
  <2> QED
    BY <2>6, <2>7, <2>8 DEF ReservedAddresses
<1> QED
  BY <1>3, <1>5, <1>6 DEF IInv

(* IInv is inductive: one step per disjunct of Next. *)
LEMMA NextKeeps == IInv /\ [Next]_vars => IInv'
<1> SUFFICES ASSUME IInv, [Next]_vars PROVE IInv'
  OBVIOUS
<1>1. CASE UNCHANGED vars
  BY <1>1, StutterKeeps
<1>2. CASE Next
  BY <1>2, RequestKeeps, ServeKeeps, RestartKeeps, ExpireKeeps DEF Next
<1> QED
  BY <1>1, <1>2

(* The inductive invariant holds in every reachable state. *)
THEOREM CoordInvariance == Spec => []IInv
  BY InitHolds, NextKeeps, PTL DEF Spec

(* However requests interleave, fail and are cut off, the tables and the
   handlers hold values of the right kind, and every handler works for a node
   that was in the table. *)
THEOREM CoordTypeCorrect == Spec => []TypeOK
  BY CoordInvariance, IInvTypeOK, PTL

(* The pool agrees with the table in every execution, for every size of the
   pool and any number of requests at a time: no address is ever handed out
   that a node or another handler has. *)
THEOREM PoolAgrees == Spec => []ReservedAddresses
<1>1. IInv => ReservedAddresses
  BY DEF IInv
<1> QED
  BY <1>1, CoordInvariance, PTL

-----------------------------------------------------------------------------
(* The coordinator implements Registry: every step maps to one of its steps
   or to none. *)

PromiseStep == [Promise!Next]_(Promise!registryVars)

(* Empty tables are an empty register. *)
LEMMA InitMaps == Init => Promise!Init
<1> SUFFICES ASSUME Init PROVE Promise!Init
  OBVIOUS
<1>1. nodes = <<>> /\ tokens = <<>> /\ drawn = {}
  BY DEF Init, CoordInit
<1>2. Good = {}
  BY <1>1 DEF Good, Active
<1>3. Credentials = <<>>
  BY <1>2, SMT DEF Credentials
<1> QED
  BY <1>1, <1>3 DEF Promise!Init

(* What the register sees of a step is the rows of nodes, the good tokens and
   the names drawn. *)
LEMMA UnseenMaps ==
  ASSUME nodes' = nodes, drawn' = drawn, Good' = Good,
         \A t \in Good : tokens'[t].node = tokens[t].node
  PROVE  PromiseStep
<1>1. Credentials' = Credentials
  BY DEF Credentials
<1> QED
  BY <1>1 DEF PromiseStep, Promise!registryVars

(* A step that writes no table is a stutter. *)
LEMMA SameTablesMap ==
  ASSUME UNCHANGED <<nodes, tokens, drawn>>
  PROVE  PromiseStep
  BY UnseenMaps DEF Good, Active

(* Credentials that end. *)
LEMMA EndMaps ==
  ASSUME nodes' = nodes, drawn' = drawn, Good' \subseteq Good,
         \A t \in Good' : tokens'[t].node = tokens[t].node
  PROVE  PromiseStep
<1> DEFINE ended == Good \ Good'
<1>1. DOMAIN Credentials = Good /\ ended \in SUBSET DOMAIN Credentials
  BY DEF Credentials
<1>2. Good \ ended = Good'
  OBVIOUS
<1>3. Credentials' = Restrict(Credentials, DOMAIN Credentials \ ended)
  BY <1>1, <1>2 DEF Credentials, Restrict
<1>4. Promise!End(ended)
  BY <1>3 DEF Promise!End, Restrict, Promise!Restrict
<1>5. Promise!Next
  BY <1>1, <1>4 DEF Promise!Next
<1> QED
  BY <1>5 DEF PromiseStep

(* The credentials of the register are the good tokens. *)
LEMMA CredentialsAre ==
  /\ DOMAIN Credentials = Good
  /\ \A t \in Good : Credentials[t] = tokens[t].node
  BY DEF Credentials

(* A registration is one step of the register although it is two rows: no
   token refers to the new node yet. *)
LEMMA InsertMaps ==
  ASSUME IInv, NEW c \in Call, NEW n \in NodeId \ drawn, NEW t \in Token \ drawn,
         InsertNode(c, n, t),
         drawn' = IF nodes' = nodes THEN drawn ELSE drawn \cup {n, t}
  PROVE  PromiseStep
<1> DEFINE call == calls[c]
           row == [identity |-> call.identity, wg |-> call.wg, ip |-> call.ip,
                   endpoint |-> None, via_relay |-> None]
           token == [node |-> n, left |-> call.left]
<1>1. CASE Fail(c)
  BY <1>1, SameTablesMap DEF Fail
<1>2. ASSUME ~Conflict(row), nodes' = With(nodes, n, row),
             tokens' = With(tokens, t, token) \/ tokens' = tokens
      PROVE  PromiseStep
  <2> DEFINE granted == Good' \cap {t}
  <2>1. /\ n \notin DOMAIN nodes /\ t \notin DOMAIN tokens
        /\ \A u \in DOMAIN tokens : tokens[u].node # n
    BY DEF IInv, TablesOK
  <2>2. row \in Promise!Newcomer
    BY DEF InsertNode, IInv, CallsOK, TablesOK, Worker, ReservedAddresses,
           Holding, Promise!Newcomer
  <2>3. \A m \in DOMAIN nodes : /\ nodes[m].identity # row.identity
                               /\ nodes[m].wg # row.wg
                               /\ nodes[m].ip # row.ip
    BY <1>2 DEF Conflict
  <2>4. token.node = n
    OBVIOUS
  <2> HIDE DEF row, token
  <2>5. /\ nodes' = [m \in DOMAIN nodes \cup {n} |->
                        IF m = n THEN row ELSE nodes[m]]
        /\ DOMAIN nodes' = DOMAIN nodes \cup {n}
    BY <1>2 DEF With
  <2>6. /\ DOMAIN tokens' \subseteq DOMAIN tokens \cup {t}
        /\ DOMAIN tokens \subseteq DOMAIN tokens'
        /\ \A u \in DOMAIN tokens : tokens'[u] = tokens[u]
        /\ t \in DOMAIN tokens' => tokens'[t].node = n
    BY <1>2, <2>1, <2>4 DEF With
  <2>7. \A u \in DOMAIN tokens : u \in Good' <=> u \in Good
    BY <2>1, <2>5, <2>6 DEF Good, Active
  <2>8. Good' = Good \cup granted /\ t \notin Good
    BY <2>1, <2>6, <2>7 DEF Good
  <2>9. \A u \in Good' : tokens'[u].node = IF u \in granted THEN n
                                          ELSE Credentials[u]
    BY <2>1, <2>6, <2>8, CredentialsAre DEF Good
  <2>10. Credentials' = [u \in DOMAIN Credentials \cup granted |->
                           IF u \in granted THEN n ELSE Credentials[u]]
    BY <2>8, <2>9, CredentialsAre DEF Credentials
  <2>11. drawn' = drawn \cup {n, t}
    BY <2>1, <2>5
  <2>12. Promise!Draw({n} \cup granted)
    BY <2>11 DEF Promise!Draw
  <2>13. granted \in SUBSET Token
    OBVIOUS
  <2> HIDE DEF granted
  <2>14. Promise!Join(n, row, granted)
    BY <2>3, <2>5, <2>10, <2>12 DEF Promise!Join
  <2>15. Promise!Next
    BY <2>2, <2>13, <2>14 DEF Promise!Next
  <2> QED
    BY <2>15 DEF PromiseStep
<1> QED
  BY <1>1, <1>2 DEF InsertNode

(* A token that is made for a node that is gone is none. *)
LEMMA CreateMaps ==
  ASSUME IInv, NEW c \in Call, NEW t \in Token \ drawn, CreateToken(c, t),
         drawn' = IF tokens' = tokens THEN drawn ELSE drawn \cup {t}
  PROVE  PromiseStep
<1> DEFINE n == calls[c].node
           token == [node |-> n, left |-> calls[c].left]
<1>1. CASE Fail(c)
  BY <1>1, SameTablesMap DEF Fail
<1>2. ASSUME tokens' = With(tokens, t, token), nodes' = nodes
      PROVE  PromiseStep
  <2>1. t \notin DOMAIN tokens /\ n \in NodeId /\ token.node = n
    BY DEF CreateToken, IInv, TablesOK, CallsOK, Worker
  <2> HIDE DEF n, token
  <2>2. /\ DOMAIN tokens' = DOMAIN tokens \cup {t}
        /\ tokens'[t] = token
        /\ \A u \in DOMAIN tokens : tokens'[u] = tokens[u]
    BY <1>2, <2>1 DEF With
  <2>3. drawn' = drawn \cup {t}
    BY <2>1, <2>2
  <2>4. \A u \in DOMAIN tokens : u \in Good' <=> u \in Good
    BY <1>2, <2>2 DEF Good, Active
  <2>5. CASE t \in Good'
    <3>1. n \in DOMAIN nodes
      BY <1>2, <2>1, <2>2, <2>5 DEF Good, Active
    <3>2. Good' = Good \cup {t} /\ t \notin Good
      BY <2>1, <2>2, <2>4, <2>5 DEF Good
    <3>3. \A u \in Good' : tokens'[u].node = IF u = t THEN n ELSE Credentials[u]
      BY <2>1, <2>2, <3>2, CredentialsAre DEF Good
    <3>4. Credentials' = [u \in DOMAIN Credentials \cup {t} |->
                            IF u = t THEN n ELSE Credentials[u]]
      BY <3>2, <3>3, CredentialsAre DEF Credentials
    <3>5. Promise!Issue(n, t)
      BY <1>2, <2>3, <3>1, <3>4 DEF Promise!Issue, Promise!Draw
    <3>6. Promise!Next
      BY <2>1, <3>5 DEF Promise!Next
    <3> QED
      BY <3>6 DEF PromiseStep
  <2>6. CASE t \notin Good'
    <3>1. Good' = Good
      BY <2>1, <2>2, <2>4, <2>6 DEF Good
    <3>2. \A u \in Good : tokens'[u].node = tokens[u].node
      BY <2>2 DEF Good
    <3>3. Credentials' = Credentials
      BY <3>1, <3>2 DEF Credentials
    <3>4. Promise!Draw({})
      BY <2>3 DEF Promise!Draw
    <3>5. Promise!Next
      BY <1>2, <3>3, <3>4 DEF Promise!Next
    <3> QED
      BY <3>5 DEF PromiseStep
  <2> QED
    BY <2>5, <2>6
<1> QED
  BY <1>1, <1>2 DEF CreateToken

(* A heartbeat moves the member, unless its row is gone. *)
LEMMA UpdateMaps ==
  ASSUME IInv, NEW c \in Call, UpdateHeartbeat(c), drawn' = drawn
  PROVE  PromiseStep
<1> DEFINE m == calls[c].node
           report == calls[c].report
           row == nodes[m]
           where == [endpoint |-> report.endpoint,
                     via_relay |-> IF report.via_relay = None
                                   THEN row.via_relay ELSE report.via_relay]
<1>1. CASE Fail(c)
  BY <1>1, SameTablesMap DEF Fail
<1>2. ASSUME nodes' = [n \in DOMAIN nodes |->
                         IF n = m THEN Reported(nodes[n], report) ELSE nodes[n]],
             tokens' = tokens
      PROVE  PromiseStep
  <2>1. /\ m \in NodeId /\ report \in Report
        /\ nodes = [n \in DOMAIN nodes |-> nodes[n]]
        /\ \A n \in DOMAIN nodes : nodes[n] \in NodeRow
    BY DEF UpdateHeartbeat, IInv, TablesOK, CallsOK, Worker
  <2>2. DOMAIN nodes' = DOMAIN nodes
    BY <1>2
  <2>3. Good' = Good
    BY <1>2, <2>2 DEF Good, Active
  <2>4. Credentials' = Credentials
    BY <1>2, <2>3 DEF Credentials
  <2>5. CASE m \notin DOMAIN nodes
    <3>1. nodes' = nodes
      BY <1>2, <2>1, <2>5
    <3> QED
      BY <1>2, <3>1, SameTablesMap
  <2>6. CASE m \in DOMAIN nodes
    <3>1. where \in Where
      BY <2>1, <2>6 DEF Where, NodeRow
    <3>2. /\ where.endpoint = report.endpoint
          /\ where.via_relay = IF report.via_relay = None
                               THEN row.via_relay ELSE report.via_relay
      OBVIOUS
    <3> HIDE DEF where
    <3>3. nodes' = [nodes EXCEPT ![m].endpoint = where.endpoint,
                                 ![m].via_relay = where.via_relay]
      BY <1>2, <2>1, <2>6, <3>2 DEF Reported, NodeRow
    <3>4. Promise!Move(m, where)
      BY <2>4, <2>6, <3>3 DEF Promise!Move
    <3>5. Promise!Next
      BY <2>1, <3>1, <3>4 DEF Promise!Next
    <3> QED
      BY <3>5 DEF PromiseStep
  <2> QED
    BY <2>5, <2>6
<1> QED
  BY <1>1, <1>2 DEF UpdateHeartbeat

(* A revocation ends credentials. *)
LEMMA RevokeMaps ==
  ASSUME IInv, NEW c \in Call, RevokeTokens(c), drawn' = drawn
  PROVE  PromiseStep
<1>1. CASE Fail(c)
  BY <1>1, SameTablesMap DEF Fail
<1>2. ASSUME tokens' = Without(tokens, TokensOf(calls[c].node)), nodes' = nodes
      PROVE  PromiseStep
  <2>1. /\ DOMAIN tokens' \subseteq DOMAIN tokens
        /\ \A t \in DOMAIN tokens' : tokens'[t] = tokens[t]
    BY <1>2 DEF Without, Restrict
  <2>2. Good' \subseteq Good
    BY <1>2, <2>1 DEF Good, Active
  <2>3. \A t \in Good' : tokens'[t].node = tokens[t].node
    BY <2>1 DEF Good
  <2> QED
    BY <1>2, <2>2, <2>3, EndMaps
<1> QED
  BY <1>1, <1>2 DEF RevokeTokens

(* A deletion is one step: the tokens are gone before the lock is released. *)
LEMMA DeleteMaps ==
  ASSUME IInv, NEW c \in Call, DeleteRows(c), drawn' = drawn
  PROVE  PromiseStep
<1> DEFINE n == calls[c].node
<1>1. n \in NodeId /\ nodes = [m \in DOMAIN nodes |-> nodes[m]]
  BY DEF DeleteRows, IInv, TablesOK, CallsOK, Worker
<1>2. CASE nodes' = nodes /\ tokens' = tokens
  BY <1>2, SameTablesMap
<1>3. ASSUME tokens' = Without(tokens, TokensOf(n))
      PROVE  /\ DOMAIN tokens' = DOMAIN tokens \ TokensOf(n)
             /\ \A t \in DOMAIN tokens' : tokens'[t] = tokens[t]
  BY <1>3 DEF Without, Restrict
<1> HIDE DEF n
<1>4. CASE nodes' = nodes /\ tokens' = Without(tokens, TokensOf(n))
  <2>1. Good' \subseteq Good
    BY <1>3, <1>4 DEF Good, Active
  <2>2. \A t \in Good' : tokens'[t].node = tokens[t].node
    BY <1>3, <1>4 DEF Good
  <2> QED
    BY <1>4, <2>1, <2>2, EndMaps
<1>5. CASE nodes' = Without(nodes, {n}) /\ tokens' = Without(tokens, TokensOf(n))
  <2>1. DOMAIN nodes' = DOMAIN nodes \ {n}
    BY <1>5 DEF Without, Restrict
  <2>2. Good' = {t \in Good : tokens[t].node # n}
    BY <1>3, <1>5, <2>1 DEF Good, Active, TokensOf
  <2>3. \A t \in Good' : tokens'[t].node = tokens[t].node
    BY <1>3, <1>5 DEF Good
  <2>4. CASE n \notin DOMAIN nodes
    <3>1. nodes' = nodes
      BY <1>1, <1>5, <2>4 DEF Without, Restrict
    <3>2. Good' \subseteq Good
      BY <2>2
    <3> QED
      BY <2>3, <3>1, <3>2, EndMaps
  <2>5. CASE n \in DOMAIN nodes
    <3>1. Good' = DOMAIN Credentials \ Promise!CredentialsOf(n)
      BY <2>2, CredentialsAre DEF Promise!CredentialsOf
    <3>2. \A t \in Good' : tokens'[t].node = Credentials[t]
      BY <2>2, <2>3, CredentialsAre
    <3>3. Credentials' = [t \in Good' |-> Credentials[t]]
      BY <3>2 DEF Credentials
    <3>4. Promise!Leave(n)
      BY <1>5, <2>5, <3>1, <3>3
         DEF Promise!Leave, Without, Restrict, Promise!Restrict
    <3>5. Promise!Next
      BY <1>1, <3>4 DEF Promise!Next
    <3> QED
      BY <3>5 DEF PromiseStep
  <2> QED
    BY <2>4, <2>5
<1>6. \/ nodes' = nodes /\ tokens' = tokens
      \/ nodes' = nodes /\ tokens' = Without(tokens, TokensOf(n))
      \/ nodes' = Without(nodes, {n}) /\ tokens' = Without(tokens, TokensOf(n))
  BY DEF DeleteRows, n
<1> QED
  BY <1>2, <1>4, <1>5, <1>6

(* Time ends credentials. *)
LEMMA ExpireMaps ==
  ASSUME IInv, Expire, drawn' = drawn
  PROVE  PromiseStep
<1>1. ASSUME NEW t \in DOMAIN tokens
      PROVE  /\ tokens'[t].node = tokens[t].node
             /\ tokens'[t].left > 0 => tokens[t].left > 0
  <2>1. tokens[t] \in TokenRow /\ tokens[t].left \in 0..TTL
    BY DEF IInv, TablesOK, TokenRow
  <2>2. tokens'[t] = [tokens[t] EXCEPT !.left = Less(tokens[t].left)]
    BY DEF Expire
  <2>3. /\ tokens'[t].node = tokens[t].node
        /\ tokens'[t].left = Less(tokens[t].left)
    BY <2>1, <2>2 DEF TokenRow
  <2> QED
    BY <2>1, <2>3, CoordinatorAssumption DEF Less
<1>2. DOMAIN tokens' = DOMAIN tokens /\ nodes' = nodes
  BY DEF Expire
<1>3. Good' \subseteq Good
  BY <1>1, <1>2 DEF Good, Active
<1>4. \A t \in Good' : tokens'[t].node = tokens[t].node
  BY <1>1, <1>2 DEF Good
<1> QED
  BY <1>2, <1>3, <1>4, EndMaps

(* Every step is a step of the register or a stutter. *)
LEMMA StepMaps == IInv /\ [Next]_vars => PromiseStep
<1> SUFFICES ASSUME IInv, [Next]_vars PROVE PromiseStep
  OBVIOUS
<1>1. CASE UNCHANGED vars
  BY <1>1, SameTablesMap DEF vars
<1>2. ASSUME NEW c \in Call, Request(c)
      PROVE  PromiseStep
  <2>1. UNCHANGED <<nodes, tokens, drawn>>
    BY <1>2 DEF Request, Register, Peers, Heartbeat, RefreshToken, DeleteNode,
                Authenticate
  <2> QED
    BY <2>1, SameTablesMap
<1>3. ASSUME NEW c \in Call, Serve(c)
      PROVE  PromiseStep
  <2>1. CASE /\ ListPeers(c) \/ ReleaseAddress(c) \/ Respond(c)
             /\ drawn' = drawn
    BY <2>1, SameTablesMap DEF ListPeers, ReleaseAddress, Respond
  <2> QED
    BY <1>3, <2>1, InsertMaps, CreateMaps, UpdateMaps, RevokeMaps, DeleteMaps
       DEF Serve
<1>4. CASE Restart /\ drawn' = drawn
  BY <1>4, SameTablesMap DEF Restart
<1>5. CASE Expire /\ drawn' = drawn
  BY <1>5, ExpireMaps
<1> QED
  BY <1>1, <1>2, <1>3, <1>4, <1>5 DEF Next

(* The coordinator implements the register of members: whatever handlers
   overlap, whatever statement fails and whenever the process dies, a member
   joins and leaves in one step, and a token that does not work any more never
   works again. *)
THEOREM ImplementsRegistry == Spec => KeepsPromise
<1>1. IInv /\ [Next]_vars => [Promise!Next]_(Promise!registryVars)
  BY StepMaps DEF PromiseStep
<1> QED
  BY InitMaps, CoordInvariance, <1>1, PTL DEF Spec, KeepsPromise, Promise!Spec

-----------------------------------------------------------------------------
(* Addresses that are lost. *)

(* No address is lost by a step that keeps whose it is. *)
LEMMA NothingLost ==
  ASSUME used' \subseteq used \cup Held',
         Assigned \cup Held \subseteq Assigned' \cup Held'
  PROVE  Lost' \subseteq Lost
  BY DEF Lost

(* What the other handlers hold they keep. *)
LEMMA OthersKeep ==
  ASSUME CallsOK, NEW c \in Call, NEW x, Goto(c, x)
  PROVE  /\ calls'[c] = x
         /\ \A i \in Held : i \in Held' \/ (c \in Holding /\ i = calls[c].ip)
         /\ x.pc \in {"insert", "release"} => x.ip \in Held'
<1>1. \A d \in Call : calls'[d] = IF d = c THEN x ELSE calls[d]
  BY DEF CallsOK, Goto
<1> QED
  BY <1>1 DEF Held, Holding

(* A handler without an address loses none. *)
LEMMA EmptyHandsLoseNothing ==
  ASSUME CallsOK, NEW c \in Call, NEW x, Goto(c, x), c \notin Holding,
         used' = used, Assigned' = Assigned
  PROVE  Lost' \subseteq Lost
  BY OthersKeep, NothingLost

(* A request that arrives loses none. *)
LEMMA RequestLosesNothing ==
  ASSUME IInv, NEW c \in Call, Request(c)
  PROVE  Lost' \subseteq Lost
<1>1. CallsOK /\ Assigned' = Assigned
  BY DEF IInv, Assigned, Request, Register, Peers, Heartbeat, RefreshToken,
         DeleteNode, Authenticate
<1>2. ASSUME NEW k, NEW w, Register(c, k, w)
      PROVE  Lost' \subseteq Lost
  <2>1. CASE Goto(c, Answered("error")) /\ UNCHANGED used
    BY <1>1, <1>2, <2>1, EmptyHandsLoseNothing DEF Register, Holding
  <2>2. ASSUME NEW i \in Free, used' = used \cup {i},
               Goto(c, [Idle EXCEPT !.pc = "insert", !.identity = k, !.wg = w,
                                    !.ip = i, !.left = TTL])
        PROVE  Lost' \subseteq Lost
    <3> DEFINE x == [Idle EXCEPT !.pc = "insert", !.identity = k, !.wg = w,
                                 !.ip = i, !.left = TTL]
    <3>1. x.pc = "insert" /\ x.ip = i
      BY DEF Idle
    <3> HIDE DEF x
    <3>2. Goto(c, x) /\ c \notin Holding
      BY <1>2, <2>2 DEF x, Register, Holding
    <3> QED
      BY <1>1, <2>2, <3>1, <3>2, OthersKeep, NothingLost
  <2> QED
    BY <1>2, <2>1, <2>2 DEF Register
<1>3. ASSUME NEW t, NEW k, NEW x, Authenticate(c, t, k, x)
      PROVE  Lost' \subseteq Lost
  BY <1>1, <1>3, EmptyHandsLoseNothing DEF Authenticate, Holding
<1> QED
  BY <1>2, <1>3 DEF Request, Peers, Heartbeat, RefreshToken, DeleteNode

(* A registration keeps its address in the table, or fails. *)
LEMMA InsertLoses ==
  ASSUME IInv, NEW c \in Call, NEW n \in NodeId \ drawn, NEW t \in Token,
         InsertNode(c, n, t), NEW i \in Lost' \ Lost
  PROVE  FailedWith(i)
<1> DEFINE row == [identity |-> calls[c].identity, wg |-> calls[c].wg,
                   ip |-> calls[c].ip, endpoint |-> None, via_relay |-> None]
<1>1. CallsOK /\ calls[c].pc = "insert" /\ c \in Holding /\ used' = used
  BY DEF InsertNode, IInv, Holding
<1>2. CASE Fail(c)
  <2>1. Goto(c, Answered("error")) /\ Assigned' = Assigned
    BY <1>2 DEF Fail, Assigned
  <2>2. calls'[c].pc = "error"
    BY <1>1, <2>1, OthersKeep, AnsweredIs
  <2>3. i = calls[c].ip
    BY <1>1, <2>1, OthersKeep DEF Lost
  <2> QED
    BY <1>1, <2>2, <2>3 DEF FailedWith
<1>3. ASSUME NEW x, Goto(c, x), nodes' = With(nodes, n, row)
      PROVE  FALSE
  <2>1. n \notin DOMAIN nodes /\ row.ip = calls[c].ip
    BY DEF IInv, TablesOK
  <2> HIDE DEF row
  <2>2. Assigned' = Assigned \cup {calls[c].ip}
    BY <1>3, <2>1 DEF Assigned, With
  <2> QED
    BY <1>1, <1>3, <2>2, OthersKeep, NothingLost
<1> QED
  BY <1>2, <1>3 DEF InsertNode

(* A deletion takes the address along, unless it could not read it. *)
LEMMA DeleteLoses ==
  ASSUME IInv, NEW c \in Call, DeleteRows(c), NEW i \in Lost' \ Lost
  PROVE  FailedWith(i)
<1> DEFINE n == calls[c].node
           taken == [Idle EXCEPT !.pc = "release", !.ip = nodes[n].ip]
<1>1. CallsOK /\ calls[c].pc = "delete" /\ c \notin Holding /\ used' = used
  BY DEF DeleteRows, IInv, Holding
<1>2. ASSUME NEW x, Goto(c, x), nodes' = nodes
      PROVE  FALSE
  BY <1>1, <1>2, EmptyHandsLoseNothing DEF Assigned
<1>3. ASSUME NEW x, Goto(c, x), nodes' = Without(nodes, {n}), n \notin DOMAIN nodes
      PROVE  FALSE
  <2>1. Assigned' = Assigned
    BY <1>3 DEF Assigned, Without, Restrict
  <2> QED
    BY <1>1, <1>3, <2>1, EmptyHandsLoseNothing
<1>4. ASSUME nodes' = Without(nodes, {n}), n \in DOMAIN nodes
      PROVE  \A j \in Assigned : j \in Assigned' \/ j = nodes[n].ip
  BY <1>4 DEF Assigned, Without, Restrict
<1>5. CASE nodes' = Without(nodes, {n}) /\ n \in DOMAIN nodes /\ Goto(c, taken)
  <2>1. taken.pc = "release" /\ taken.ip = nodes[n].ip
    BY DEF Idle
  <2> HIDE DEF taken
  <2>2. nodes[n].ip \in Held'
    BY <1>1, <1>5, <2>1, OthersKeep
  <2> QED
    BY <1>1, <1>4, <1>5, <2>2, OthersKeep, NothingLost
<1>6. CASE /\ nodes' = Without(nodes, {n}) /\ n \in DOMAIN nodes /\ DbErrors
           /\ Goto(c, Answered("ok"))
  <2>1. calls'[c].pc = "ok"
    BY <1>1, <1>6, OthersKeep, AnsweredIs
  <2>2. i = nodes[n].ip
    BY <1>1, <1>4, <1>6, OthersKeep DEF Lost
  <2> QED
    BY <1>1, <1>6, <2>1, <2>2 DEF FailedWith
<1> QED
  BY <1>2, <1>3, <1>5, <1>6 DEF DeleteRows

(* Of the sections, only those with a failing statement lose an address. *)
LEMMA ServeLoses ==
  ASSUME IInv, NEW c \in Call, Serve(c), NEW i \in Lost' \ Lost
  PROVE  FailedWith(i)
<1>1. CallsOK
  BY DEF IInv
<1>2. ASSUME NEW x, Goto(c, x), c \notin Holding, used' = used,
             Assigned' = Assigned
      PROVE  FALSE
  BY <1>1, <1>2, EmptyHandsLoseNothing
<1>3. CASE ListPeers(c) \/ RevokeTokens(c) \/ Respond(c)
  BY <1>2, <1>3
     DEF ListPeers, RevokeTokens, Respond, Fail, Holding, Assigned
<1>4. ASSUME NEW t, CreateToken(c, t)
      PROVE  FALSE
  BY <1>2, <1>4 DEF CreateToken, Fail, Holding, Assigned
<1>5. CASE UpdateHeartbeat(c)
  <2>1. Assigned' = Assigned
    <3>1. CASE nodes' = nodes
      BY <3>1 DEF Assigned
    <3>2. CASE nodes' = [n \in DOMAIN nodes |->
                           IF n = calls[c].node
                           THEN Reported(nodes[n], calls[c].report)
                           ELSE nodes[n]]
      <4>1. \A n \in DOMAIN nodes : nodes[n] \in NodeRow
        BY DEF IInv, TablesOK
      <4>2. calls[c].report \in Report
        BY <1>5 DEF UpdateHeartbeat, IInv, CallsOK, Worker
      <4>3. /\ DOMAIN nodes' = DOMAIN nodes
            /\ \A n \in DOMAIN nodes : nodes'[n].ip = nodes[n].ip
        BY <3>2, <4>1, <4>2, ReportedIs
      <4> QED
        BY <4>3 DEF Assigned
    <3> QED
      BY <1>5, <3>1, <3>2 DEF UpdateHeartbeat, Fail
  <2> QED
    BY <1>2, <1>5, <2>1 DEF UpdateHeartbeat, Fail, Holding
<1>6. CASE ReleaseAddress(c)
  <2>1. /\ Goto(c, Answered("ok")) /\ used' = used \ {calls[c].ip}
        /\ Assigned' = Assigned
    BY <1>6 DEF ReleaseAddress, Assigned
  <2> QED
    BY <1>1, <2>1, OthersKeep DEF Lost
<1> QED
  BY <1>3, <1>4, <1>5, <1>6, InsertLoses, DeleteLoses DEF Serve

(* Of all steps, only those with a failing statement lose an address. *)
LEMMA StepLoses == IInv /\ [Next]_vars => \A i \in Lost' \ Lost : FailedWith(i)
<1> SUFFICES ASSUME IInv, [Next]_vars, NEW i \in Lost' \ Lost
             PROVE  FailedWith(i)
  OBVIOUS
<1>1. CASE UNCHANGED vars
  BY <1>1 DEF vars, Lost, Assigned, Held, Holding
<1>2. ASSUME NEW c \in Call, Request(c)
      PROVE  FALSE
  BY <1>2, RequestLosesNothing
<1>3. CASE Restart
  BY <1>3 DEF Restart, Lost, Assigned
<1>4. CASE Expire
  <2>1. /\ calls \in [Call -> CallRecord]
        /\ \A c \in Call : calls'[c] = [calls[c] EXCEPT !.left = Less(calls[c].left)]
        /\ used' = used /\ Assigned' = Assigned
    BY <1>4 DEF Expire, IInv, CallsOK, Assigned
  <2>2. ASSUME NEW c \in Call
        PROVE  calls'[c].pc = calls[c].pc /\ calls'[c].ip = calls[c].ip
    <3> DEFINE left == Less(calls[c].left)
    <3>1. calls[c] \in CallRecord /\ calls'[c] = [calls[c] EXCEPT !.left = left]
      BY <2>1
    <3> HIDE DEF left
    <3> QED
      BY <3>1 DEF CallRecord
  <2>3. Holding' = Holding
    BY <2>2 DEF Holding
  <2>4. Held' = Held
    <3>1. \A c \in Holding : calls'[c].ip = calls[c].ip
      BY <2>2 DEF Holding
    <3>2. Held' = {calls'[c].ip : c \in Holding'}
      BY DEF Held
    <3> QED
      BY <2>3, <3>1, <3>2 DEF Held
  <2> QED
    BY <2>1, <2>4 DEF Lost
<1> QED
  BY <1>1, <1>2, <1>3, <1>4, ServeLoses DEF Next

(* No interleaving of handlers loses an address, only a statement that fails,
   for every size of the pool and any number of requests at a time. *)
THEOREM OnlyFailuresLose == Spec => LostOnlyByFailure
<1>1. IInv /\ [Next]_vars => [\A i \in Lost' \ Lost : FailedWith(i)]_vars
  BY StepLoses
<1> QED
  BY CoordInvariance, <1>1, PTL DEF Spec, LostOnlyByFailure
=============================================================================
