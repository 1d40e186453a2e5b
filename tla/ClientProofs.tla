---------------------------- MODULE ClientProofs ----------------------------
(***************************************************************************)
(* Proofs about Client: the types of files, processes, tables and          *)
(* handlers, and that a running daemon keeps its token.  The argument for  *)
(* the latter is a margin: how long the token lasts beyond what the faults *)
(* and commands that are left may cost.  Only what nobody can help, which  *)
(* `excused` records, takes it away.                                       *)
(***************************************************************************)
EXTENDS Client, TLAPS, FiniteSetTheorems

(* Nobody runs out of random values. *)
Spare ==
    /\ \E t \in Token : UnusedToken(t)
    /\ \E n \in NodeId : UnusedNode(n)
    /\ \E k \in Identity : k \notin UsedIdentities
    /\ \E k \in WgKey : k \notin UsedWgKeys

-----------------------------------------------------------------------------
(* Types: the coordinator's tables and handlers. *)

Rendezvous == {r.endpoint : r \in Report} \cup {r.via_relay : r \in Report}
              \cup {None}

NodeRow == [identity : Identity, wg : WgKey, ip : Address,
            endpoint : Rendezvous, via_relay : Rendezvous]

TokenRow == [node : NodeId, left : 0..TTL]

CallRecord ==
    [pc : {"idle", "insert", "list", "update", "revoke", "create", "delete",
           "release", "ok", "error"},
     node : NodeId \cup {None}, identity : Identity \cup {None},
     wg : WgKey \cup {None}, ip : 0..HostCount,
     report : Report \cup {None}, token : Token \cup {None}, left : 0..TTL]

(* A handler has what its next section needs. *)
Worker(x) ==
    /\ x \in CallRecord
    /\ x.pc \in {"update", "revoke", "create", "delete"} => x.node \in NodeId
    /\ x.pc = "insert" =>
          x.identity \in Identity /\ x.wg \in WgKey /\ x.ip \in Address
    /\ x.pc = "update" => x.report \in Report

NodesTyped == DOMAIN nodes \subseteq NodeId /\ nodes \in [DOMAIN nodes -> NodeRow]
TokensTyped ==
    DOMAIN tokens \subseteq Token /\ tokens \in [DOMAIN tokens -> TokenRow]
CallsTyped ==
    calls \in [Call -> CallRecord] /\ \A c \in Call : Worker(calls[c])

(* The sections of the handler that a process in this stage has called. *)
Sections(stage) ==
    CASE stage = "register" -> {"insert"}
      [] stage = "peers" -> {"list"}
      [] stage \in {"first heartbeat", "heartbeat"} -> {"update"}
      [] stage = "refresh" -> {"revoke", "create"}
      [] stage = "delete" -> {"delete", "release"}

(* A process that waits for an answer waits for that of its own call, unless
   the coordinator has restarted. *)
CallOf(c, p) ==
    p.sent =>
      /\ p.stage \in Calling
      /\ calls[c].pc \in Sections(p.stage) \cup {"ok", "error", "idle"}
      /\ calls[c].pc = "ok" /\ p.stage \in {"refresh", "register"} =>
            calls[c].token \in Token /\ calls[c].node \in NodeId

Saving == {"truncate", "write"}

(* The daemon, its call and what it is going to save. *)
DaemonOK ==
    /\ CallOf("daemon", daemon)
    /\ Running /\ ~daemon.sent => calls["daemon"].pc = "idle"
    /\ \/ daemon = NotRunning
       \/ daemon.stage \in {"peers", "first heartbeat", "heartbeat", "refresh",
                            "asleep", "due"} \cup Saving
    /\ daemon.stage \in Saving => daemon.then \in {"heartbeat", "asleep"}
    /\ Readable(daemon.copy) <=>
          daemon.stage \in {"peers", "first heartbeat"} \cup Saving

(* The command: one that needs keys runs with those of the files. *)
CommandOK ==
    /\ CallOf("command", command)
    /\ \/ command = NotRunning
       \/ /\ command.op = "init"
          /\ command.stage \in {"save identity", "save wg"} /\ ~command.sent
       \/ /\ command.op = "register"
          /\ command.stage \in {"register"} \cup Saving
       \/ /\ command.op \in Commands \ {"init", "register"}
          /\ command.stage \in {"peers", "heartbeat", "refresh", "delete"}
                                \cup Saving
          /\ Readable(command.copy)
    /\ command.op \notin {"none", "init"} =>
          /\ command.identity \in Identity /\ command.wg \in WgKey
          /\ command.identity = disk.identity

TypesOK ==
    NodesTyped /\ TokensTyped /\ CallsTyped /\ TypeOK /\ DaemonOK /\ CommandOK

-----------------------------------------------------------------------------
(* Facts about the helpers. *)

(* The random values that are drawn are new. *)
LEMMA Draws ==
  ASSUME Spare
  PROVE  /\ NewToken \in Token /\ UnusedToken(NewToken)
         /\ NewNode \in NodeId /\ UnusedNode(NewNode)
         /\ NewKey(Identity, UsedIdentities) \in Identity \ UsedIdentities
         /\ NewKey(WgKey, UsedWgKeys) \in WgKey \ UsedWgKeys
<1>1. NewToken \in Token /\ UnusedToken(NewToken)
  BY DEF Spare, NewToken
<1>2. NewNode \in NodeId /\ UnusedNode(NewNode)
  BY DEF Spare, NewNode
<1>3. NewKey(Identity, UsedIdentities) \in Identity \ UsedIdentities
  BY DEF Spare, NewKey
<1>4. NewKey(WgKey, UsedWgKeys) \in WgKey \ UsedWgKeys
  BY DEF Spare, NewKey
<1> QED
  BY <1>1, <1>2, <1>3, <1>4

(* A handler that is idle, and one that is about to answer. *)
LEMMA AnsweredIs ==
  ASSUME NEW answer \in {"ok", "error"}
  PROVE  /\ Worker(Idle) /\ Idle.pc = "idle"
         /\ Worker(Answered(answer)) /\ Answered(answer).pc = answer
         /\ Answered(answer).token = None /\ Answered(answer).left = 0
  BY CoordinatorAssumption DEF Answered, Idle, CallRecord, Worker

(* An answer that carries a token. *)
AnsweredWith(n, t, l) == [Answered("ok") EXCEPT !.node = n, !.token = t, !.left = l]

(* Its fields. *)
LEMMA AnsweredWithIs ==
  ASSUME NEW n \in NodeId, NEW t \in Token, NEW l \in 0..TTL
  PROVE  /\ Worker(AnsweredWith(n, t, l)) /\ AnsweredWith(n, t, l).pc = "ok"
         /\ AnsweredWith(n, t, l).node = n /\ AnsweredWith(n, t, l).token = t
         /\ AnsweredWith(n, t, l).left = l
<1>1. Answered("ok") \in CallRecord /\ Answered("ok").pc = "ok"
  BY AnsweredIs DEF Worker
<1> QED
  BY <1>1 DEF CallRecord, Worker, AnsweredWith

(* A lifetime, and a unit of time less. *)
LEMMA LessIs ==
  /\ TTL \in 0..TTL /\ 0 \in 0..TTL
  /\ \A n \in 0..TTL : Less(n) \in 0..TTL
  /\ \A m, n \in 0..TTL : m <= n => Less(m) <= Less(n)
  BY CoordinatorAssumption DEF Less

(* One handler goes on: the others are as they were. *)
LEMMA GotoIs ==
  ASSUME CallsTyped, NEW c \in Call, NEW x, Goto(c, x), Worker(x)
  PROVE  /\ CallsTyped' /\ calls'[c] = x
         /\ \A d \in Call : d # c => calls'[d] = calls[d]
  BY DEF CallsTyped, Worker, Goto

(* What a heartbeat says does not touch the keys. *)
LEMMA ReportedIs ==
  ASSUME NEW row \in NodeRow, NEW r \in Report
  PROVE  Reported(row, r) \in NodeRow /\ Reported(row, r).identity = row.identity
<1> DEFINE relay == IF r.via_relay = None THEN row.via_relay ELSE r.via_relay
<1>1. r.endpoint \in Rendezvous /\ relay \in Rendezvous
  BY DEF Rendezvous, NodeRow
<1>2. Reported(row, r) = [row EXCEPT !.endpoint = r.endpoint, !.via_relay = relay]
  BY DEF Reported
<1> HIDE DEF relay
<1> QED
  BY <1>1, <1>2 DEF NodeRow

-----------------------------------------------------------------------------
(* The handlers keep the types. *)

(* What a section makes of its handler. *)
ServedCall(x, y) ==
    /\ Worker(y)
    /\ \/ /\ x.pc \in {"insert", "list", "update", "revoke", "create", "delete",
                       "release"}
          /\ y.pc \in {"ok", "error"}
          /\ x.pc = "revoke" => y.pc = "error"
          /\ y.pc = "ok" /\ x.pc \in {"insert", "create"} =>
                y.token \in Token /\ y.node \in NodeId
       \/ x.pc = "revoke" /\ y = [x EXCEPT !.pc = "create"]
       \/ x.pc = "delete" /\ y.pc = "release"

(* A new row and its token. *)
LEMMA InsertTypes ==
  ASSUME NodesTyped, TokensTyped, CallsTyped, NEW c \in Call,
         NEW n \in NodeId, NEW t \in Token, InsertNode(c, n, t)
  PROVE  /\ NodesTyped' /\ TokensTyped' /\ CallsTyped'
         /\ \A d \in Call : d # c => calls'[d] = calls[d]
         /\ ServedCall(calls[c], calls'[c])
<1> DEFINE call == calls[c]
           row == [identity |-> call.identity, wg |-> call.wg, ip |-> call.ip,
                   endpoint |-> None, via_relay |-> None]
           answer == AnsweredWith(n, t, call.left)
           token == [node |-> n, left |-> call.left]
<1>1. /\ Worker(call) /\ call.pc = "insert" /\ call.left \in 0..TTL
      /\ row \in NodeRow /\ token \in TokenRow
  BY DEF InsertNode, CallsTyped, Worker, CallRecord, NodeRow, TokenRow, Rendezvous
<1>2. Worker(answer) /\ answer.pc = "ok" /\ answer.node = n /\ answer.token = t
  BY <1>1, AnsweredWithIs
<1>3. /\ Goto(c, Answered("error")) \/ Goto(c, answer)
      /\ nodes' = nodes \/ nodes' = With(nodes, n, row)
      /\ tokens' = tokens \/ tokens' = With(tokens, t, token)
  BY DEF InsertNode, Fail, AnsweredWith
<1> HIDE DEF call, row, answer, token
<1>4. NodesTyped'
  BY <1>1, <1>3 DEF NodesTyped, With
<1>5. TokensTyped'
  BY <1>1, <1>3 DEF TokensTyped, With
<1>6. CASE Goto(c, Answered("error"))
  BY <1>1, <1>4, <1>5, <1>6, AnsweredIs, GotoIs DEF ServedCall, call
<1>7. CASE Goto(c, answer)
  BY <1>1, <1>2, <1>4, <1>5, <1>7, GotoIs DEF ServedCall, call
<1> QED
  BY <1>3, <1>6, <1>7

(* A new token. *)
LEMMA CreateTypes ==
  ASSUME NodesTyped, TokensTyped, CallsTyped, NEW c \in Call,
         NEW t \in Token, CreateToken(c, t)
  PROVE  /\ NodesTyped' /\ TokensTyped' /\ CallsTyped'
         /\ \A d \in Call : d # c => calls'[d] = calls[d]
         /\ ServedCall(calls[c], calls'[c])
<1> DEFINE call == calls[c]
           answer == AnsweredWith(call.node, t, call.left)
           token == [node |-> call.node, left |-> call.left]
<1>1. /\ Worker(call) /\ call.pc = "create" /\ call.left \in 0..TTL
      /\ call.node \in NodeId /\ token \in TokenRow
  BY DEF CreateToken, CallsTyped, Worker, CallRecord, TokenRow
<1>2. /\ Worker(answer) /\ answer.pc = "ok" /\ answer.node = call.node
      /\ answer.token = t
  BY <1>1, AnsweredWithIs
<1>3. /\ Goto(c, Answered("error")) \/ Goto(c, answer)
      /\ nodes' = nodes
      /\ tokens' = tokens \/ tokens' = With(tokens, t, token)
  BY DEF CreateToken, Fail, AnsweredWith
<1> HIDE DEF call, answer, token
<1>4. NodesTyped' /\ TokensTyped'
  BY <1>1, <1>3 DEF NodesTyped, TokensTyped, With
<1>5. CASE Goto(c, Answered("error"))
  BY <1>1, <1>4, <1>5, AnsweredIs, GotoIs DEF ServedCall, call
<1>6. CASE Goto(c, answer)
  BY <1>1, <1>2, <1>4, <1>6, GotoIs DEF ServedCall, call
<1> QED
  BY <1>3, <1>5, <1>6

(* Rows that go leave typed tables. *)
LEMMA WithoutTypes ==
  ASSUME NodesTyped, TokensTyped, NEW S
  PROVE  /\ nodes' = nodes \/ nodes' = Without(nodes, S) => NodesTyped'
         /\ tokens' = tokens \/ tokens' = Without(tokens, S) => TokensTyped'
<1>1. nodes' = Without(nodes, S) => NodesTyped'
  BY DEF NodesTyped, Without, Restrict
<1>2. tokens' = Without(tokens, S) => TokensTyped'
  BY DEF TokensTyped, Without, Restrict
<1> QED
  BY <1>1, <1>2 DEF NodesTyped, TokensTyped

(* The sections that add no row. *)
LEMMA OtherTypes ==
  ASSUME NodesTyped, TokensTyped, CallsTyped, NEW c \in Call,
         \/ ListPeers(c) \/ UpdateHeartbeat(c) \/ RevokeTokens(c)
         \/ DeleteRows(c) \/ ReleaseAddress(c)
  PROVE  /\ NodesTyped' /\ TokensTyped' /\ CallsTyped'
         /\ \A d \in Call : d # c => calls'[d] = calls[d]
         /\ ServedCall(calls[c], calls'[c])
<1>1. Worker(calls[c])
  BY DEF CallsTyped
<1>2. ASSUME NEW answer \in {"ok", "error"}, Goto(c, Answered(answer)),
             calls[c].pc \in {"list", "update", "revoke", "delete", "release"},
             calls[c].pc = "revoke" => answer = "error"
      PROVE  /\ CallsTyped' /\ ServedCall(calls[c], calls'[c])
             /\ \A d \in Call : d # c => calls'[d] = calls[d]
  BY <1>2, AnsweredIs, GotoIs DEF ServedCall
<1>3. CASE ListPeers(c)
  <2>1. NodesTyped' /\ TokensTyped'
    BY <1>3 DEF ListPeers, NodesTyped, TokensTyped
  <2> QED
    BY <1>2, <1>3, <2>1 DEF ListPeers
<1>4. CASE UpdateHeartbeat(c)
  <2>1. calls[c].report \in Report
    BY <1>1, <1>4 DEF UpdateHeartbeat, Worker
  <2>2. TokensTyped'
    BY <1>4 DEF UpdateHeartbeat, Fail, TokensTyped
  <2>3. NodesTyped'
    <3>1. CASE nodes' = nodes
      BY <3>1 DEF NodesTyped
    <3>2. CASE nodes' = [n \in DOMAIN nodes |->
                           IF n = calls[c].node
                           THEN Reported(nodes[n], calls[c].report)
                           ELSE nodes[n]]
      BY <2>1, <3>2, ReportedIs DEF NodesTyped
    <3> QED
      BY <1>4, <3>1, <3>2 DEF UpdateHeartbeat, Fail
  <2> QED
    BY <1>2, <1>4, <2>2, <2>3 DEF UpdateHeartbeat, Fail
<1>5. CASE RevokeTokens(c)
  <2>1. NodesTyped'
    BY <1>5 DEF RevokeTokens, Fail, NodesTyped
  <2>2. TokensTyped'
    <3>1. tokens' = tokens \/ tokens' = Without(tokens, TokensOf(calls[c].node))
      BY <1>5 DEF RevokeTokens, Fail
    <3> QED
      BY <3>1, WithoutTypes
  <2>3. CASE Fail(c)
    BY <1>2, <1>5, <2>1, <2>2, <2>3 DEF RevokeTokens, Fail
  <2>4. CASE Goto(c, [calls[c] EXCEPT !.pc = "create"])
    <3> DEFINE x == [calls[c] EXCEPT !.pc = "create"]
    <3>1. Worker(x) /\ calls[c].pc = "revoke"
      BY <1>1, <1>5 DEF RevokeTokens, Worker, CallRecord
    <3>2. ServedCall(calls[c], x)
      BY <3>1 DEF ServedCall
    <3> HIDE DEF x
    <3> QED
      BY <2>1, <2>2, <2>4, <3>1, <3>2, GotoIs DEF x
  <2> QED
    BY <1>5, <2>3, <2>4 DEF RevokeTokens
<1>6. CASE DeleteRows(c)
  <2>1. NodesTyped'
    <3>1. nodes' = nodes \/ nodes' = Without(nodes, {calls[c].node})
      BY <1>6 DEF DeleteRows
    <3> QED
      BY <3>1, WithoutTypes
  <2>2. TokensTyped'
    <3>1. tokens' = tokens \/ tokens' = Without(tokens, TokensOf(calls[c].node))
      BY <1>6 DEF DeleteRows
    <3> QED
      BY <3>1, WithoutTypes
  <2>3. ASSUME NEW answer \in {"ok", "error"}, Goto(c, Answered(answer))
        PROVE  /\ CallsTyped' /\ ServedCall(calls[c], calls'[c])
               /\ \A d \in Call : d # c => calls'[d] = calls[d]
    BY <1>2, <1>6, <2>3 DEF DeleteRows
  <2>4. ASSUME calls[c].node \in DOMAIN nodes,
               Goto(c, [Idle EXCEPT !.pc = "release",
                                    !.ip = nodes[calls[c].node].ip])
        PROVE  /\ CallsTyped' /\ ServedCall(calls[c], calls'[c])
               /\ \A d \in Call : d # c => calls'[d] = calls[d]
    <3> DEFINE ip == nodes[calls[c].node].ip
               x == [Idle EXCEPT !.pc = "release", !.ip = ip]
    <3>1. ip \in 0..HostCount
      BY <2>4, CoordinatorAssumption DEF NodesTyped, NodeRow, Address
    <3>2. Goto(c, x)
      BY <2>4
    <3> HIDE DEF ip
    <3>3. Worker(x) /\ x.pc = "release"
      BY <3>1, AnsweredIs DEF Worker, CallRecord
    <3>4. ServedCall(calls[c], x)
      BY <1>6, <3>3 DEF ServedCall, DeleteRows
    <3> HIDE DEF x
    <3> QED
      BY <3>2, <3>3, <3>4, GotoIs
  <2>5. \/ \E answer \in {"ok", "error"} : Goto(c, Answered(answer))
        \/ /\ calls[c].node \in DOMAIN nodes
           /\ Goto(c, [Idle EXCEPT !.pc = "release",
                                   !.ip = nodes[calls[c].node].ip])
    BY <1>6 DEF DeleteRows
  <2> QED
    BY <2>1, <2>2, <2>3, <2>4, <2>5
<1>7. CASE ReleaseAddress(c)
  <2>1. NodesTyped' /\ TokensTyped'
    BY <1>7 DEF ReleaseAddress, NodesTyped, TokensTyped
  <2> QED
    BY <1>2, <1>7, <2>1 DEF ReleaseAddress
<1> QED
  BY <1>3, <1>4, <1>5, <1>6, <1>7

-----------------------------------------------------------------------------
(* What a process's call comes to. *)

(* A request that authenticates. *)
LEMMA AuthenticateIs ==
  ASSUME TokensTyped, CallsTyped, NEW c \in Call, NEW t, NEW k,
         NEW x \in CallRecord, x.pc \in {"list", "update", "revoke", "delete"},
         x.pc = "update" => x.report \in Report, Authenticate(c, t, k, x)
  PROVE  /\ calls[c].pc = "idle" /\ nodes' = nodes /\ tokens' = tokens
         /\ CallsTyped' /\ \A d \in Call : d # c => calls'[d] = calls[d]
         /\ calls'[c].pc = x.pc /\ calls'[c].left = x.left
         /\ calls'[c].node = tokens[t].node /\ Authentic(t, k)
<1> DEFINE node == tokens[t].node
           y == [x EXCEPT !.node = node]
<1>1. Authentic(t, k) /\ Goto(c, y) /\ node \in NodeId
  BY DEF Authenticate, Active, Authentic, TokensTyped, TokenRow
<1> HIDE DEF node
<1>2. y \in CallRecord /\ y.pc = x.pc /\ y.node = node
      /\ y.report = x.report /\ y.left = x.left
  BY <1>1 DEF CallRecord
<1> HIDE DEF y
<1>3. Worker(y)
  BY <1>1, <1>2 DEF Worker
<1>4. calls[c].pc = "idle" /\ nodes' = nodes /\ tokens' = tokens
  BY DEF Authenticate
<1> QED
  BY <1>1, <1>2, <1>3, <1>4, GotoIs DEF node

(* A request, whatever the stage it is made in. *)
LEMMA RequestedIs ==
  ASSUME TokensTyped, CallsTyped, NEW c \in Call, NEW p \in Process,
         p.stage \in Calling, Requested(c, p),
         p.stage = "register" => p.identity \in Identity /\ p.wg \in WgKey
  PROVE  /\ calls[c].pc = "idle" /\ nodes' = nodes /\ tokens' = tokens
         /\ CallsTyped' /\ \A d \in Call : d # c => calls'[d] = calls[d]
         /\ calls'[c].pc \in Sections(p.stage) \cup {"error"}
         /\ p.stage = "register" /\ calls'[c].pc = "insert" =>
               calls'[c].identity = p.identity
         /\ p.stage = "refresh" =>
               /\ calls'[c].pc = "revoke" /\ calls'[c].left = TTL
               /\ calls'[c].node = tokens[p.token].node
               /\ Authentic(p.token, p.identity)
<1>0. Idle \in CallRecord
  BY AnsweredIs DEF Worker
<1>1. CASE p.stage = "register"
  <2>1. Register(c, p.identity, p.wg)
    BY <1>1 DEF Requested
  <2>2. CASE Goto(c, Answered("error"))
    BY <1>1, <2>1, <2>2, AnsweredIs, GotoIs DEF Register
  <2>3. ASSUME NEW i \in Free,
               Goto(c, [Idle EXCEPT !.pc = "insert", !.identity = p.identity,
                                    !.wg = p.wg, !.ip = i, !.left = TTL])
        PROVE  /\ CallsTyped' /\ \A d \in Call : d # c => calls'[d] = calls[d]
               /\ calls'[c].pc = "insert" /\ calls'[c].identity = p.identity
    <3> DEFINE k == p.identity
               w == p.wg
               x == [Idle EXCEPT !.pc = "insert", !.identity = k, !.wg = w,
                                 !.ip = i, !.left = TTL]
    <3>1. Goto(c, x) /\ k \in Identity /\ w \in WgKey
      BY <1>1, <2>3
    <3>2. i \in Address /\ i \in 0..HostCount
      BY CoordinatorAssumption DEF Free, Address
    <3> HIDE DEF k, w
    <3>3. Worker(x) /\ x.pc = "insert" /\ x.identity = k
      BY <1>0, <3>1, <3>2, LessIs DEF Worker, CallRecord
    <3> HIDE DEF x
    <3> QED
      BY <3>1, <3>3, GotoIs DEF k
  <2> QED
    BY <1>1, <2>1, <2>2, <2>3, AnsweredIs DEF Register, Sections
<1>2. CASE p.stage = "peers"
  <2> DEFINE x == [Idle EXCEPT !.pc = "list"]
  <2>1. Authenticate(c, p.token, nodes[tokens[p.token].node].identity, x)
    BY <1>2 DEF Requested, Peers
  <2>2. x \in CallRecord /\ x.pc = "list"
    BY <1>0 DEF CallRecord
  <2> HIDE DEF x
  <2> QED
    BY <1>2, <2>1, <2>2, AuthenticateIs DEF Sections
<1>3. CASE p.stage \in {"first heartbeat", "heartbeat"}
  <2>1. PICK r \in Report : Heartbeat(c, p.token, p.identity, r)
    BY <1>3 DEF Requested
  <2> DEFINE x == [Idle EXCEPT !.pc = "update", !.report = r]
  <2>2. Authenticate(c, p.token, p.identity, x)
    BY <2>1 DEF Heartbeat
  <2>3. x \in CallRecord /\ x.pc = "update" /\ x.report = r
    BY <1>0 DEF CallRecord
  <2> HIDE DEF x
  <2> QED
    BY <1>3, <2>2, <2>3, AuthenticateIs DEF Sections
<1>4. CASE p.stage = "refresh"
  <2> DEFINE x == [Idle EXCEPT !.pc = "revoke", !.left = TTL]
  <2>1. Authenticate(c, p.token, p.identity, x)
    BY <1>4 DEF Requested, RefreshToken
  <2>2. x \in CallRecord /\ x.pc = "revoke" /\ x.left = TTL
    BY <1>0, LessIs DEF CallRecord
  <2> HIDE DEF x
  <2> QED
    BY <1>4, <2>1, <2>2, AuthenticateIs DEF Sections
<1>5. CASE p.stage = "delete"
  <2> DEFINE x == [Idle EXCEPT !.pc = "delete"]
  <2>1. Authenticate(c, p.token, p.identity, x)
    BY <1>5 DEF Requested, DeleteNode
  <2>2. x \in CallRecord /\ x.pc = "delete"
    BY <1>0 DEF CallRecord
  <2> HIDE DEF x
  <2> QED
    BY <1>5, <2>1, <2>2, AuthenticateIs DEF Sections
<1> QED
  BY <1>1, <1>2, <1>3, <1>4, <1>5 DEF Calling

(* An answer that leaves the coordinator. *)
LEMMA RespondIs ==
  ASSUME CallsTyped, NEW c \in Call, Respond(c)
  PROVE  /\ calls[c].pc \in {"ok", "error"} /\ nodes' = nodes /\ tokens' = tokens
         /\ CallsTyped' /\ \A d \in Call : d # c => calls'[d] = calls[d]
         /\ calls'[c] = Idle /\ calls'[c].pc = "idle"
  BY AnsweredIs, GotoIs DEF Respond

(* How a call goes on. *)
Sent(c, p) ==
    ~p.sent /\ Requested(c, p) /\ left' = left
Succeeds(c, p) ==
    p.sent /\ calls[c].pc = "ok" /\ calls'[c] = Idle /\ left' = left
Fails(c, p) ==
    \/ ~p.sent /\ calls[c].pc = "idle" /\ calls' = calls /\ Refused(p) /\ left' = left
    \/ ~p.sent /\ calls[c].pc = "idle" /\ calls' = calls /\ Spend("faults")
    \/ p.sent /\ calls[c].pc = "ok" /\ calls'[c] = Idle /\ Spend("faults")
    \/ /\ p.sent /\ calls[c].pc = "error" /\ calls'[c] = Idle
       /\ left' = left \/ Spend("faults")
    \/ p.sent /\ calls[c].pc = "idle" /\ calls' = calls /\ left' = left

(* These are the ways. *)
LEMMA AwaitIs ==
  ASSUME TokensTyped, CallsTyped, NEW c \in Call, NEW p \in Process, CallOf(c, p),
         p.stage = "register" => p.identity \in Identity /\ p.wg \in WgKey,
         NEW outcome \in Outcome, Await(c, p, outcome)
  PROVE  /\ p.stage \in Calling
         /\ nodes' = nodes /\ tokens' = tokens
         /\ CallsTyped' /\ \A d \in Call : d # c => calls'[d] = calls[d]
         /\ \/ outcome = "sent" /\ Sent(c, p)
            \/ outcome = "ok" /\ Succeeds(c, p)
            \/ outcome = "error" /\ Fails(c, p) /\ calls'[c].pc = "idle"
<1>1. p.stage \in Calling
  BY DEF Await, CallOf
<1>2. CASE outcome = "sent" /\ ~p.sent /\ Requested(c, p) /\ UNCHANGED left
  BY <1>1, <1>2, RequestedIs DEF Sent
<1>3. CASE /\ ~p.sent /\ ~Open(c) /\ outcome = "error" /\ UNCHANGED coordVars
           /\ (Refused(p) /\ left' = left) \/ Spend("faults")
  <2>1. calls' = calls /\ nodes' = nodes /\ tokens' = tokens /\ calls[c].pc = "idle"
    BY <1>3 DEF coordVars, Open
  <2>2. CallsTyped'
    BY <2>1 DEF CallsTyped
  <2> QED
    BY <1>1, <1>3, <2>1, <2>2 DEF Fails
<1>4. CASE /\ p.sent /\ Respond(c)
           /\ \/ outcome = calls[c].pc /\ UNCHANGED left
              \/ outcome = "error" /\ Spend("faults")
  <2>1. outcome = "ok" => calls[c].pc = "ok" /\ UNCHANGED left
    BY <1>4
  <2>2. outcome \in {"ok", "error"}
    BY <1>4, RespondIs
  <2>3. outcome = "ok" => Succeeds(c, p)
    BY <1>4, <2>1, RespondIs DEF Succeeds
  <2>4. outcome = "error" => Fails(c, p)
    BY <1>4, RespondIs DEF Fails
  <2> QED
    BY <1>1, <1>4, <2>2, <2>3, <2>4, RespondIs
<1>5. CASE p.sent /\ ~Open(c) /\ outcome = "error" /\ UNCHANGED <<coordVars, left>>
  <2>1. calls' = calls /\ nodes' = nodes /\ tokens' = tokens /\ calls[c].pc = "idle"
        /\ left' = left
    BY <1>5 DEF coordVars, Open
  <2>2. CallsTyped'
    BY <2>1 DEF CallsTyped
  <2> QED
    BY <1>1, <1>5, <2>1, <2>2 DEF Fails
<1> QED
  BY <1>2, <1>3, <1>4, <1>5 DEF Await

-----------------------------------------------------------------------------
(* Every step keeps the types. *)

Files == [identity : Identity \cup {Absent}, wg : WgKey \cup {Absent},
          state : SavedState \cup {Absent, Torn}]

(* A state that can be read is a saved one. *)
LEMMA ReadableIs ==
  /\ \A s \in SavedState : Readable(s)
  /\ \A s \in SavedState \cup {Absent, Torn} : Readable(s) => s \in SavedState
  /\ ~Readable(Absent) /\ ~Readable(Torn)
  BY NoFileAssumption DEF Readable

(* A process that does not run. *)
LEMMA NotRunningIs ==
  /\ NotRunning \in Process /\ NotRunning.stage = "off" /\ NotRunning.op = "none"
  /\ NotRunning.copy = Absent /\ NotRunning.sent = FALSE
  BY DEF NotRunning, Process, Stages

(* One unit of the budget is spent. *)
LEMMA SpendIs ==
  ASSUME left \in Budgets, NEW what \in {"commands", "starts", "faults"}, Spend(what)
  PROVE  /\ left' \in Budgets /\ left'[what] = left[what] - 1
         /\ \A b \in {"commands", "starts", "faults"} : b # what => left'[b] = left[b]
<1> DEFINE l == left[what] - 1
<1>1. l \in Nat /\ left' = [left EXCEPT ![what] = l]
  BY DEF Spend, Budgets
<1> HIDE DEF l
<1>2. left' \in Budgets /\ left'[what] = l
      /\ \A b \in {"commands", "starts", "faults"} : b # what => left'[b] = left[b]
  BY <1>1 DEF Budgets
<1> QED
  BY <1>2 DEF l

(* The history variable. *)
LEMMA HistoryTyped ==
  ASSUME excused \in BOOLEAN, History
  PROVE  excused' \in BOOLEAN
  BY DEF History, Unfit, Withdrawn, LosesToken, LosesState

(* What a handler does is no process's affair. *)
LEMMA ServeTypes ==
  ASSUME TypesOK, Spare, NEW c \in Call, ServeCall(c), excused' \in BOOLEAN
  PROVE  TypesOK'
<1>1. UNCHANGED <<disk, daemon, command, left>>
  BY DEF ServeCall
<1>2. /\ NodesTyped' /\ TokensTyped' /\ CallsTyped'
      /\ \A d \in Call : d # c => calls'[d] = calls[d]
      /\ ServedCall(calls[c], calls'[c])
  <2>1. NewToken \in Token /\ NewNode \in NodeId
    BY Draws
  <2> QED
    BY <2>1, InsertTypes, CreateTypes, OtherTypes DEF ServeCall, TypesOK
<1>3. TypeOK'
  BY <1>1 DEF TypesOK, TypeOK
<1>4. \A p \in Process : CallOf(c, p) /\ p.sent =>
         /\ p.stage \in Calling
         /\ calls'[c].pc \in Sections(p.stage) \cup {"ok", "error", "idle"}
         /\ calls'[c].pc = "ok" /\ p.stage \in {"refresh", "register"} =>
               calls'[c].token \in Token /\ calls'[c].node \in NodeId
  <2> SUFFICES ASSUME NEW p \in Process, CallOf(c, p), p.sent
               PROVE  /\ p.stage \in Calling
                      /\ calls'[c].pc \in Sections(p.stage) \cup {"ok", "error", "idle"}
                      /\ calls'[c].pc = "ok" /\ p.stage \in {"refresh", "register"} =>
                            calls'[c].token \in Token /\ calls'[c].node \in NodeId
    OBVIOUS
  <2>1. calls[c] \in CallRecord
    BY DEF TypesOK, CallsTyped
  <2>2. p.stage \in Calling
    BY DEF CallOf
  <2>3. calls[c].pc \in Sections(p.stage)
    <3>1. calls[c].pc \notin {"ok", "error", "idle"}
      BY <1>2 DEF ServedCall
    <3> QED
      BY <3>1 DEF CallOf
  <2>4. calls[c].pc = "revoke" => p.stage = "refresh"
    BY <2>2, <2>3 DEF Sections, Calling
  <2>5. calls[c].pc = "delete" => p.stage = "delete"
    BY <2>2, <2>3 DEF Sections, Calling
  <2>6. p.stage \in {"refresh", "register"} /\ calls'[c].pc = "ok"
           => calls[c].pc \in {"insert", "create", "revoke"}
    BY <2>3 DEF Sections
  <2>7. CASE calls[c].pc = "revoke" /\ calls'[c] = [calls[c] EXCEPT !.pc = "create"]
    <3>1. calls'[c].pc = "create"
      BY <2>1, <2>7 DEF CallRecord
    <3> QED
      BY <2>2, <2>4, <2>7, <3>1 DEF Sections
  <2>8. CASE calls[c].pc = "delete" /\ calls'[c].pc = "release"
    BY <2>2, <2>5, <2>8 DEF Sections
  <2>9. CASE calls'[c].pc \in {"ok", "error"}
             /\ (calls'[c].pc = "ok" /\ calls[c].pc \in {"insert", "create"} =>
                   calls'[c].token \in Token /\ calls'[c].node \in NodeId)
             /\ calls[c].pc # "revoke"
    <3>1. calls'[c].pc = "ok" /\ p.stage \in {"refresh", "register"} =>
             calls'[c].token \in Token /\ calls'[c].node \in NodeId
      BY <2>6, <2>9
    <3> QED
      BY <2>2, <2>9, <3>1
  <2>10. CASE calls[c].pc = "revoke" /\ calls'[c].pc = "error"
    BY <2>2, <2>10
  <2> QED
    BY <1>2, <2>7, <2>8, <2>9, <2>10 DEF ServedCall
<1>5. ASSUME NEW p \in Process, NEW d \in Call, CallOf(d, p)
      PROVE  p.sent => /\ p.stage \in Calling
                       /\ calls'[d].pc \in Sections(p.stage) \cup {"ok", "error", "idle"}
                       /\ calls'[d].pc = "ok" /\ p.stage \in {"refresh", "register"} =>
                             calls'[d].token \in Token /\ calls'[d].node \in NodeId
  BY <1>2, <1>4, <1>5 DEF CallOf
<1>6. "daemon" \in Call /\ "command" \in Call /\ daemon \in Process /\ command \in Process
  BY ClientAssumption DEF TypesOK, TypeOK
<1>7. CallOf("daemon", daemon)' /\ CallOf("command", command)'
  <2>1. CallOf("daemon", daemon) /\ CallOf("command", command)
    BY DEF TypesOK, DaemonOK, CommandOK
  <2>2. CallOf("daemon", daemon)'
    BY <1>1, <1>5, <1>6, <2>1 DEF CallOf
  <2>3. CallOf("command", command)'
    BY <1>1, <1>5, <1>6, <2>1 DEF CallOf
  <2> QED
    BY <2>2, <2>3
<1>8. calls["daemon"].pc = "idle" => calls'["daemon"].pc = "idle"
  BY <1>2, <1>6 DEF ServedCall
<1>9. DaemonOK'
  BY <1>1, <1>7, <1>8 DEF TypesOK, DaemonOK, Running, Readable
<1>10. CommandOK'
  BY <1>1, <1>7 DEF TypesOK, CommandOK, Readable
<1> QED
  BY <1>2, <1>3, <1>9, <1>10 DEF TypesOK

(* How a command starts. *)
Startable(op, stage) ==
    \/ op = "init" /\ stage = "save identity"
    \/ op = "register" /\ stage = "register" /\ HasKeys
    \/ /\ op \in Commands \ {"init", "register"}
       /\ stage \in {"peers", "heartbeat", "refresh", "delete"}
       /\ HasKeys /\ Readable(disk.state)

(* These are the commands. *)
LEMMA CommandStarts ==
  ASSUME CommandNext
  PROVE  \E op \in Commands, stage \in Stages : Start(op, stage) /\ Startable(op, stage)
<1>1. CASE StartInit
  <2>1. Start("init", "save identity") /\ "init" \in Commands
    BY <1>1 DEF StartInit, Start
  <2> QED
    BY <2>1 DEF Startable, Stages, Calling
<1>2. CASE StartRegister
  <2>1. Start("register", "register") /\ HasKeys /\ "register" \in Commands
    BY <1>2 DEF StartRegister, Start
  <2> QED
    BY <2>1 DEF Startable, Stages, Calling
<1>3. CASE StartPeers
  <2>1. Start("peers", "peers") /\ HasKeys /\ Readable(disk.state)
        /\ "peers" \in Commands
    BY <1>3 DEF StartPeers, Start
  <2> QED
    BY <2>1 DEF Startable, Stages, Calling
<1>4. CASE StartHeartbeat
  <2> DEFINE stage == IF IsTokenExpired(disk.state) THEN "refresh" ELSE "heartbeat"
  <2>1. Start("heartbeat", stage) /\ HasKeys /\ Readable(disk.state)
        /\ "heartbeat" \in Commands
    BY <1>4 DEF StartHeartbeat, Start
  <2>2. stage \in {"refresh", "heartbeat"}
    OBVIOUS
  <2> HIDE DEF stage
  <2> QED
    BY <2>1, <2>2 DEF Startable, Stages, Calling
<1>5. CASE StartRefresh
  <2>1. Start("refresh-token", "refresh") /\ HasKeys /\ Readable(disk.state)
        /\ "refresh-token" \in Commands
    BY <1>5 DEF StartRefresh, Start
  <2> QED
    BY <2>1 DEF Startable, Stages, Calling
<1>6. CASE StartDeregister
  <2>1. Start("deregister", "delete") /\ HasKeys /\ Readable(disk.state)
        /\ "deregister" \in Commands
    BY <1>6 DEF StartDeregister, Start
  <2> QED
    BY <2>1 DEF Startable, Stages, Calling
<1> QED
  BY <1>1, <1>2, <1>3, <1>4, <1>5, <1>6 DEF CommandNext

(* What the new process is. *)
LEMMA StartIs ==
  ASSUME TypesOK, NEW op \in Commands, NEW stage, Start(op, stage), Startable(op, stage)
  PROVE  /\ command = NotRunning /\ command' \in Process
         /\ command'.op = op /\ command'.stage = stage /\ ~command'.sent
         /\ command'.identity = disk.identity /\ command'.wg = disk.wg
         /\ command'.copy = IF op \in {"init", "register"} THEN Absent ELSE disk.state
         /\ UNCHANGED <<coordVars, disk, daemon>>
         /\ left' \in Budgets /\ left'.commands = left.commands - 1
         /\ left'.faults = left.faults
<1> DEFINE copy == IF op \in {"init", "register"} THEN Absent ELSE disk.state
           token == IF op \in {"init", "register"} THEN None ELSE disk.state.token
           identity == disk.identity
           wg == disk.wg
<1>1. disk \in Files
  BY DEF TypesOK, TypeOK, Files
<1>2. /\ identity \in Identity \cup {Absent} /\ wg \in WgKey \cup {Absent}
      /\ op \notin {"init", "register"} => disk.state \in SavedState
  BY <1>1, ReadableIs DEF Files, Startable
<1>3. copy \in SavedState \cup {Absent} /\ token \in Token \cup {None}
  BY <1>2 DEF SavedState
<1>4. stage \in Stages
  BY DEF Startable, Stages, Calling
<1>5. command' = [NotRunning EXCEPT !.op = op, !.stage = stage, !.identity = identity,
                                    !.wg = wg, !.copy = copy, !.token = token]
  BY DEF Start
<1> HIDE DEF copy, token, identity, wg
<1>6. /\ command' \in Process /\ command'.op = op /\ command'.stage = stage
      /\ ~command'.sent /\ command'.copy = copy
      /\ command'.identity = identity /\ command'.wg = wg
  <2>1. /\ command'.op = op /\ command'.stage = stage
        /\ ~command'.sent /\ command'.copy = copy
        /\ command'.identity = identity /\ command'.wg = wg
    BY <1>5 DEF NotRunning
  <2>2. command' \in Process
    BY <1>2, <1>3, <1>4, <1>5 DEF NotRunning, Process
  <2> QED
    BY <2>1, <2>2
<1>7. left \in Budgets /\ Spend("commands")
  BY DEF TypesOK, TypeOK, Start
<1> QED
  BY <1>6, <1>7, SpendIs DEF Start, copy, identity, wg

(* A command starts. *)
LEMMA StartTypes ==
  ASSUME TypesOK, excused' \in BOOLEAN,
         NEW op \in Commands, NEW stage, Start(op, stage), Startable(op, stage)
  PROVE  TypesOK'
<1>1. /\ nodes' = nodes /\ tokens' = tokens /\ calls' = calls
      /\ disk' = disk /\ daemon' = daemon
  BY StartIs DEF coordVars
<1>2. NodesTyped' /\ TokensTyped' /\ CallsTyped' /\ DaemonOK'
  BY <1>1 DEF TypesOK, NodesTyped, TokensTyped, CallsTyped, DaemonOK, CallOf,
              Running, Readable
<1>3. stage \notin Saving
  BY DEF Startable, Saving
<1>4. TypeOK'
  BY <1>1, <1>3, StartIs DEF TypesOK, TypeOK, Saving
<1>5. disk \in Files
  BY DEF TypesOK, TypeOK, Files
<1>6. HasKeys => disk.identity \in Identity /\ disk.wg \in WgKey
  BY <1>5 DEF HasKeys, Files
<1>7. CommandOK'
  BY <1>1, <1>6, StartIs DEF CommandOK, CallOf, Startable, Readable
<1> QED
  BY <1>2, <1>4, <1>7 DEF TypesOK

(* init replaces the keys. *)
LEMMA SaveTypes ==
  ASSUME TypesOK, Spare, excused' \in BOOLEAN, SaveIdentity \/ SaveWg
  PROVE  TypesOK'
<1>1. /\ nodes' = nodes /\ tokens' = tokens /\ calls' = calls
      /\ daemon' = daemon /\ left' = left
  BY DEF SaveIdentity, SaveWg, coordVars
<1>2. NodesTyped' /\ TokensTyped' /\ CallsTyped' /\ DaemonOK'
  BY <1>1 DEF TypesOK, NodesTyped, TokensTyped, CallsTyped, DaemonOK, CallOf,
              Running, Readable
<1>3. disk \in Files /\ command \in Process
  BY DEF TypesOK, TypeOK, Files
<1>4. command.op = "init" /\ ~command.sent
  <2>1. command.stage \in {"save identity", "save wg"}
    BY DEF SaveIdentity, SaveWg
  <2> QED
    BY <2>1, NotRunningIs DEF TypesOK, CommandOK, Saving
<1>5. CASE SaveIdentity
  <2> DEFINE k == NewKey(Identity, UsedIdentities)
  <2>1. k \in Identity /\ disk' = [disk EXCEPT !.identity = k]
    BY <1>5, Draws DEF SaveIdentity
  <2> HIDE DEF k
  <2>2. disk' \in Files
    BY <1>3, <2>1 DEF Files
  <2>3. /\ command' \in Process /\ command'.stage = "save wg"
        /\ command'.op = "init" /\ ~command'.sent
    BY <1>3, <1>4, <1>5 DEF SaveIdentity, Process, Stages
  <2>4. TypeOK'
    BY <1>1, <2>2, <2>3 DEF TypesOK, TypeOK, Files
  <2>5. CommandOK'
    BY <2>3 DEF CommandOK, CallOf
  <2> QED
    BY <1>2, <2>4, <2>5 DEF TypesOK
<1>6. CASE SaveWg
  <2> DEFINE k == NewKey(WgKey, UsedWgKeys)
  <2>1. k \in WgKey /\ disk' = [disk EXCEPT !.wg = k]
    BY <1>6, Draws DEF SaveWg
  <2> HIDE DEF k
  <2>2. disk' \in Files
    BY <1>3, <2>1 DEF Files
  <2>3. command' = NotRunning
    BY <1>6 DEF SaveWg
  <2>4. TypeOK'
    BY <1>1, <2>2, <2>3, NotRunningIs DEF TypesOK, TypeOK, Files
  <2>5. CommandOK'
    BY <2>3, NotRunningIs DEF CommandOK, CallOf
  <2> QED
    BY <1>2, <2>4, <2>5 DEF TypesOK
<1> QED
  BY <1>5, <1>6

(* A state with the token of an answer. *)
LEMMA IssuedIs ==
  ASSUME NEW s \in SavedState, NEW c \in Call, calls[c].token \in Token,
         calls[c].left \in 0..TTL
  PROVE  /\ Issued(s, c) \in SavedState /\ Issued(s, c).token = calls[c].token
         /\ Issued(s, c).left = calls[c].left
<1> DEFINE t == calls[c].token
           l == calls[c].left
<1>1. Issued(s, c) = [s EXCEPT !.token = t, !.left = l]
  BY DEF Issued
<1>2. t \in Token /\ l \in 0..TTL
  OBVIOUS
<1> HIDE DEF t, l
<1>3. /\ Issued(s, c) \in SavedState /\ Issued(s, c).token = t
      /\ Issued(s, c).left = l
  BY <1>1, <1>2 DEF SavedState
<1> QED
  BY <1>3 DEF t, l

(* The command after an answer. *)
AnsweredCommand(outcome) ==
    \/ command' = NotRunning
    \/ /\ outcome = "ok" /\ command'.op = command.op /\ ~command'.sent
       /\ command'.identity = command.identity /\ command'.wg = command.wg
       /\ command'.copy \in SavedState
       /\ \/ /\ command.stage = "register" /\ command'.stage = "truncate"
             /\ command'.copy = [node |-> calls["command"].node,
                                 token |-> calls["command"].token,
                                 left |-> calls["command"].left]
          \/ /\ command.stage = "refresh" /\ command'.stage \in {"heartbeat", "truncate"}
             /\ command'.copy.token = calls["command"].token
             /\ command'.copy.left = calls["command"].left
          \/ /\ command.stage \notin {"register", "refresh"}
             /\ command'.stage = "truncate" /\ command'.copy = command.copy

(* These are the command's fields, and their types. *)
LEMMA AnsweredCommandIs ==
  ASSUME TypesOK, NEW outcome \in {"ok", "error"}, AfterCommand(outcome),
         command.stage \in Calling,
         outcome = "ok" => Succeeds("command", command)
  PROVE  /\ command' \in Process /\ AnsweredCommand(outcome)
         /\ command.op \in Commands \ {"init"} /\ command # NotRunning
         /\ command.stage = "register" <=> command.op = "register"
<1>1. /\ command \in Process /\ "command" \in Call
      /\ calls["command"].left \in 0..TTL
  BY ClientAssumption DEF TypesOK, TypeOK, CallsTyped, CallRecord
<1>2. /\ command.op \in Commands \ {"init"} /\ command # NotRunning
      /\ command.stage = "register" <=> command.op = "register"
      /\ command.op # "register" => Readable(command.copy)
  BY NotRunningIs DEF TypesOK, TypeOK, CommandOK, Process, Calling, Saving
<1>3. CASE command' = NotRunning
  BY <1>2, <1>3, NotRunningIs DEF AnsweredCommand
<1>4. CASE outcome = "ok" /\ command.stage # "delete"
  <2> DEFINE call == calls["command"]
             stage == IF command.stage = "refresh" /\ command.op = "heartbeat"
                      THEN "heartbeat" ELSE "truncate"
             slip == [node |-> call.node, token |-> call.token, left |-> call.left]
  <2>1. command.stage \in {"register", "refresh"} =>
           call.token \in Token /\ call.node \in NodeId
    BY <1>4 DEF TypesOK, CommandOK, CallOf, Succeeds
  <2>2. CASE command.stage = "register"
    <3>1. command' = [command EXCEPT !.sent = FALSE, !.stage = "truncate", !.copy = slip]
      BY <1>4, <2>2 DEF AfterCommand
    <3>2. slip \in SavedState
      BY <1>1, <2>1, <2>2 DEF SavedState
    <3> HIDE DEF slip
    <3>3. /\ command' \in Process /\ ~command'.sent /\ command'.stage = "truncate"
          /\ command'.copy = slip /\ command'.op = command.op
          /\ command'.identity = command.identity /\ command'.wg = command.wg
      BY <1>1, <3>1, <3>2 DEF Process, Stages
    <3> QED
      BY <1>2, <1>4, <2>2, <3>2, <3>3 DEF AnsweredCommand, slip
  <2>3. CASE command.stage = "refresh"
    <3> DEFINE copy == Issued(command.copy, "command")
               token == call.token
    <3>1. command' = [command EXCEPT !.sent = FALSE, !.stage = stage, !.copy = copy,
                                     !.token = token]
      BY <1>4, <2>3 DEF AfterCommand
    <3>2. command.copy \in SavedState
      BY <1>1, <1>2, <2>3, ReadableIs DEF Process
    <3>3. copy \in SavedState /\ copy.token = token /\ copy.left = call.left
      BY <1>1, <2>1, <2>3, <3>2, IssuedIs
    <3>4. token \in Token /\ stage \in {"heartbeat", "truncate"} /\ stage \in Stages
      BY <2>1, <2>3 DEF Stages, Calling
    <3> HIDE DEF copy, token, stage
    <3>5. /\ command' \in Process /\ ~command'.sent /\ command'.stage = stage
          /\ command'.copy = copy /\ command'.op = command.op
          /\ command'.identity = command.identity /\ command'.wg = command.wg
      BY <1>1, <3>1, <3>3, <3>4 DEF Process
    <3> QED
      BY <1>2, <1>4, <2>3, <3>3, <3>4, <3>5 DEF AnsweredCommand, token
  <2>4. CASE command.stage \notin {"register", "refresh"}
    <3>1. command' = [command EXCEPT !.sent = FALSE, !.stage = "truncate"]
      BY <1>4, <2>4 DEF AfterCommand
    <3>2. command.copy \in SavedState
      BY <1>1, <1>2, <2>4, ReadableIs DEF Process
    <3> QED
      BY <1>1, <1>2, <1>4, <2>4, <3>1, <3>2 DEF AnsweredCommand, Process, Stages
  <2> QED
    BY <2>2, <2>3, <2>4
<1> QED
  BY <1>3, <1>4 DEF AfterCommand

(* The command makes a call, or has its answer. *)
LEMMA CommandAnswerTypes ==
  ASSUME TypesOK, excused' \in BOOLEAN, NEW outcome \in Outcome,
         Await("command", command, outcome), AfterCommand(outcome),
         UNCHANGED <<disk, daemon>>
  PROVE  TypesOK'
<1>1. /\ command \in Process /\ left \in Budgets /\ disk \in Files
      /\ "command" \in Call /\ "daemon" \in Call
  BY ClientAssumption DEF TypesOK, TypeOK, Files
<1>2. command.stage = "register" => command.identity \in Identity /\ command.wg \in WgKey
  BY NotRunningIs DEF TypesOK, CommandOK, Saving
<1>3. /\ command.stage \in Calling /\ nodes' = nodes /\ tokens' = tokens
      /\ CallsTyped' /\ calls'["daemon"] = calls["daemon"]
      /\ \/ outcome = "sent" /\ Sent("command", command)
         \/ outcome = "ok" /\ Succeeds("command", command)
         \/ outcome = "error" /\ Fails("command", command)
  BY <1>1, <1>2, AwaitIs DEF TypesOK, CommandOK
<1>4. NodesTyped' /\ TokensTyped' /\ DaemonOK'
  BY <1>3 DEF TypesOK, NodesTyped, TokensTyped, DaemonOK, CallOf, Running, Readable
<1>5. left' \in Budgets
  <2>1. left' = left \/ Spend("faults")
    BY <1>3 DEF Sent, Succeeds, Fails
  <2> QED
    BY <1>1, <2>1, SpendIs
<1>6. ASSUME command' \in Process, command'.stage \in Saving => command'.copy # Absent
      PROVE  TypeOK'
  BY <1>5, <1>6 DEF TypesOK, TypeOK, Saving
<1>7. command.op \in Commands \ {"init"} /\ command # NotRunning
  BY <1>3, NotRunningIs DEF TypesOK, TypeOK, CommandOK, Process, Calling, Saving
<1>8. CASE outcome = "sent" /\ Sent("command", command)
  <2>1. command' = [command EXCEPT !.sent = TRUE]
    BY <1>8 DEF AfterCommand
  <2>2. /\ command' \in Process /\ command'.sent /\ command'.stage = command.stage
        /\ command'.op = command.op /\ command'.copy = command.copy
        /\ command'.identity = command.identity /\ command'.wg = command.wg
    BY <1>1, <2>1 DEF Process
  <2>3. calls'["command"].pc \in Sections(command.stage) \cup {"error"}
    BY <1>1, <1>2, <1>3, <1>8, RequestedIs DEF Sent, TypesOK
  <2>4. CommandOK'
    <3>1. calls'["command"].pc # "ok"
      BY <1>3, <2>3 DEF Sections, Calling
    <3>2. CallOf("command", command)'
      BY <1>3, <2>2, <2>3, <3>1 DEF CallOf
    <3> QED
      BY <1>7, <2>2, <3>2 DEF TypesOK, CommandOK, Readable
  <2>5. command.stage \notin Saving
    BY <1>3 DEF Calling, Saving
  <2> QED
    BY <1>3, <1>4, <1>6, <2>2, <2>4, <2>5 DEF TypesOK
<1>9. CASE outcome \in {"ok", "error"}
  <2>1. /\ command' \in Process /\ AnsweredCommand(outcome)
        /\ command.stage = "register" <=> command.op = "register"
    BY <1>3, <1>9, AnsweredCommandIs
  <2>2. CASE command' = NotRunning
    <3>1. CommandOK'
      BY <2>2, NotRunningIs DEF CommandOK, CallOf
    <3> QED
      BY <1>3, <1>4, <1>6, <2>1, <2>2, <3>1, NotRunningIs DEF TypesOK, Saving
  <2>3. CASE command' # NotRunning
    <3>1. Readable(command'.copy) /\ command'.copy # Absent
      BY <2>1, <2>3, ReadableIs, NoFileAssumption DEF AnsweredCommand
    <3>2. /\ command'.op = command.op /\ ~command'.sent
          /\ command'.identity = command.identity /\ command'.wg = command.wg
          /\ command'.stage \in {"heartbeat"} \cup Saving
          /\ command.op = "register" => command'.stage \in Saving
      BY <2>1, <2>3 DEF AnsweredCommand, Saving
    <3>3. CommandOK'
      BY <1>7, <3>1, <3>2 DEF TypesOK, CommandOK, CallOf, Readable
    <3> QED
      BY <1>3, <1>4, <1>6, <2>1, <3>1, <3>3 DEF TypesOK
  <2> QED
    BY <2>2, <2>3
<1> QED
  BY <1>3, <1>8, <1>9

(* A process saves: what is in the file then is a state or nothing to read. *)
LEMMA SavingTypes ==
  ASSUME disk \in Files, NEW p \in Process, Truncate(p) \/ Write(p),
         p.stage \in Saving => p.copy # Absent
  PROVE  /\ disk' \in Files /\ disk'.identity = disk.identity /\ p.stage \in Saving
         /\ disk'.wg = disk.wg
<1>1. p.stage \in Saving
  BY DEF Truncate, Write, Saving
<1>2. p.copy \in SavedState
  BY <1>1 DEF Process
<1>3. disk' = [disk EXCEPT !.state = Torn] \/ disk' = [disk EXCEPT !.state = p.copy]
  BY DEF Truncate, Write
<1> QED
  BY <1>1, <1>2, <1>3 DEF Files

(* The command saves, and ends. *)
LEMMA CommandSaveTypes ==
  ASSUME TypesOK, excused' \in BOOLEAN, UNCHANGED <<coordVars, left, daemon>>,
         \/ Truncate(command) /\ command' = [command EXCEPT !.stage = "write"]
         \/ Write(command) /\ command' = NotRunning
  PROVE  TypesOK'
<1>1. /\ nodes' = nodes /\ tokens' = tokens /\ calls' = calls
      /\ daemon' = daemon /\ left' = left
  BY DEF coordVars
<1>2. NodesTyped' /\ TokensTyped' /\ CallsTyped' /\ DaemonOK'
  BY <1>1 DEF TypesOK, NodesTyped, TokensTyped, CallsTyped, DaemonOK, CallOf,
              Running, Readable
<1>3. disk \in Files /\ command \in Process
  BY DEF TypesOK, TypeOK, Files
<1>4. command.stage \in Saving => command.copy # Absent
  BY DEF TypesOK, TypeOK, Saving
<1>5. disk' \in Files /\ disk'.identity = disk.identity /\ command.stage \in Saving
  BY <1>3, <1>4, SavingTypes
<1>6. ~command.sent
  BY <1>5 DEF TypesOK, CommandOK, CallOf, Calling, Saving
<1>7. CASE command' = NotRunning
  <2>1. CommandOK'
    BY <1>7, NotRunningIs DEF CommandOK, CallOf
  <2>2. TypeOK'
    BY <1>1, <1>5, <1>7, NotRunningIs DEF TypesOK, TypeOK, Files
  <2> QED
    BY <1>2, <2>1, <2>2 DEF TypesOK
<1>8. CASE command' = [command EXCEPT !.stage = "write"]
  <2>1. /\ command' \in Process /\ command'.stage = "write" /\ ~command'.sent
        /\ command'.op = command.op /\ command'.copy = command.copy
        /\ command'.identity = command.identity /\ command'.wg = command.wg
    BY <1>3, <1>6, <1>8 DEF Process, Stages
  <2>2. command.op \in Commands \ {"init"} /\ command # NotRunning
    BY <1>5, NotRunningIs DEF TypesOK, TypeOK, CommandOK, Process, Saving
  <2>3. CommandOK'
    BY <1>5, <2>1, <2>2, NotRunningIs DEF TypesOK, CommandOK, CallOf, Readable, Saving
  <2>4. TypeOK'
    BY <1>1, <1>4, <1>5, <2>1 DEF TypesOK, TypeOK, Files
  <2> QED
    BY <1>2, <2>3, <2>4 DEF TypesOK
<1> QED
  BY <1>7, <1>8

(* The daemon starts. *)
LEMMA StartUpIs ==
  ASSUME TypesOK, StartUp
  PROVE  /\ daemon = NotRunning /\ daemon' \in Process /\ daemon'.stage = "peers"
         /\ calls["daemon"].pc = "idle" /\ Readable(disk.state)
         /\ ~daemon'.sent /\ daemon'.copy = disk.state
         /\ daemon'.token = disk.state.token /\ daemon'.identity = disk.identity
         /\ UNCHANGED <<coordVars, disk, command>>
         /\ left' \in Budgets /\ left'.faults = left.faults
         /\ left'.commands = left.commands
<1> DEFINE copy == disk.state
           token == disk.state.token
           identity == disk.identity
           wg == disk.wg
<1>1. /\ Readable(disk.state) /\ disk \in Files
      /\ daemon' = [NotRunning EXCEPT !.stage = "peers", !.copy = copy, !.token = token,
                                      !.identity = identity, !.wg = wg]
  BY DEF StartUp, TypesOK, TypeOK, Files
<1>2. /\ copy \in SavedState /\ token \in Token
      /\ identity \in Identity \cup {Absent} /\ wg \in WgKey \cup {Absent}
  BY <1>1, ReadableIs DEF Files, SavedState
<1> HIDE DEF copy, token, identity, wg
<1>3. /\ daemon' \in Process /\ daemon'.stage = "peers"
      /\ ~daemon'.sent /\ daemon'.copy = copy
      /\ daemon'.token = token /\ daemon'.identity = identity
  BY <1>1, <1>2, NotRunningIs DEF Process, Stages, Calling
<1>4. left \in Budgets /\ Spend("starts")
  BY DEF TypesOK, TypeOK, StartUp
<1> QED
  BY <1>1, <1>3, <1>4, SpendIs DEF StartUp, Open, copy, token, identity

(* Its types. *)
LEMMA StartUpTypes ==
  ASSUME TypesOK, excused' \in BOOLEAN, StartUp
  PROVE  TypesOK'
<1>1. /\ nodes' = nodes /\ tokens' = tokens /\ calls' = calls
      /\ command' = command /\ disk' = disk
  BY StartUpIs DEF coordVars
<1>2. NodesTyped' /\ TokensTyped' /\ CallsTyped' /\ CommandOK'
  BY <1>1 DEF TypesOK, NodesTyped, TokensTyped, CallsTyped, CommandOK, CallOf, Readable
<1>3. TypeOK'
  BY <1>1, StartUpIs DEF TypesOK, TypeOK
<1>4. DaemonOK'
  BY <1>1, StartUpIs DEF TypesOK, DaemonOK, CallOf, Running, Readable, Saving
<1> QED
  BY <1>2, <1>3, <1>4 DEF TypesOK

(* The daemon after an answer. *)
AnsweredDaemon(outcome) ==
    \/ daemon.stage = "peers" /\ outcome = "error" /\ daemon' = NotRunning
    \/ /\ daemon.stage = "peers" /\ outcome = "ok"
       /\ daemon'.stage = "first heartbeat"
       /\ daemon'.copy = daemon.copy /\ daemon'.token = daemon.token
    \/ /\ daemon.stage = "first heartbeat"
       /\ daemon'.stage = "truncate" /\ daemon'.then = "asleep"
       /\ daemon'.copy = daemon.copy /\ daemon'.token = daemon.token
    \/ /\ daemon.stage = "refresh" /\ outcome = "error"
       /\ daemon'.stage = "heartbeat"
       /\ daemon'.copy = Absent /\ daemon'.token = daemon.token
    \/ /\ daemon.stage = "refresh" /\ outcome = "ok"
       /\ daemon'.token = calls["daemon"].token
       /\ \/ /\ Readable(disk.state)
             /\ daemon'.stage = "truncate" /\ daemon'.then = "heartbeat"
             /\ daemon'.copy = Issued(disk.state, "daemon")
          \/ /\ ~Readable(disk.state)
             /\ daemon'.stage = "heartbeat" /\ daemon'.copy = Absent
    \/ /\ daemon.stage = "heartbeat" /\ daemon'.token = daemon.token
       /\ \/ /\ Readable(disk.state)
             /\ daemon'.stage = "truncate" /\ daemon'.then = "asleep"
             /\ daemon'.copy = disk.state
          \/ /\ ~Readable(disk.state)
             /\ daemon'.stage = "asleep" /\ daemon'.copy = Absent

(* These are the daemon's fields, and their types. *)
LEMMA AnsweredDaemonIs ==
  ASSUME TypesOK, NEW outcome \in {"ok", "error"}, AfterDaemon(outcome),
         daemon.stage \in Calling,
         outcome = "ok" => Succeeds("daemon", daemon)
  PROVE  /\ daemon' \in Process /\ ~daemon'.sent
         /\ daemon' = NotRunning \/ daemon'.identity = daemon.identity
         /\ AnsweredDaemon(outcome)
<1>1. /\ daemon \in Process /\ disk \in Files /\ "daemon" \in Call
      /\ calls["daemon"].left \in 0..TTL
  BY ClientAssumption DEF TypesOK, TypeOK, Files, CallsTyped, CallRecord
<1>2. daemon.stage \in {"peers", "first heartbeat", "refresh", "heartbeat"}
  BY NotRunningIs DEF TypesOK, DaemonOK, Saving, Calling
<1>3. CASE daemon.stage = "peers" /\ outcome = "error"
  <2>1. daemon' = NotRunning
    BY <1>3 DEF AfterDaemon
  <2> QED
    BY <1>3, <2>1, NotRunningIs DEF AnsweredDaemon
<1>4. CASE daemon.stage = "peers" /\ outcome = "ok"
  <2>1. daemon' = [daemon EXCEPT !.sent = FALSE, !.stage = "first heartbeat"]
    BY <1>4 DEF AfterDaemon
  <2> QED
    BY <1>1, <1>4, <2>1 DEF AnsweredDaemon, Process, Stages, Calling
<1>5. CASE daemon.stage = "first heartbeat"
  <2>1. daemon' = [daemon EXCEPT !.sent = FALSE, !.stage = "truncate", !.then = "asleep"]
    BY <1>5 DEF AfterDaemon
  <2> QED
    BY <1>1, <1>5, <2>1 DEF AnsweredDaemon, Process, Stages, Calling
<1>6. CASE daemon.stage = "refresh" /\ outcome = "error"
  <2>1. daemon' = [daemon EXCEPT !.sent = FALSE, !.copy = Absent, !.stage = "heartbeat"]
    BY <1>1, <1>6 DEF AfterDaemon, Process
  <2> QED
    BY <1>1, <1>6, <2>1 DEF AnsweredDaemon, Process, Stages, Calling
<1>7. CASE daemon.stage = "refresh" /\ outcome = "ok"
  <2> DEFINE token == calls["daemon"].token
             copy == Issued(disk.state, "daemon")
  <2>1. token \in Token
    BY <1>7 DEF TypesOK, DaemonOK, CallOf, Succeeds
  <2>2. CASE Readable(disk.state)
    <3>1. disk.state \in SavedState
      BY <1>1, <2>2, ReadableIs DEF Files
    <3>2. copy \in SavedState
      BY <1>1, <2>1, <3>1, IssuedIs
    <3>3. daemon' = [daemon EXCEPT !.sent = FALSE, !.copy = copy, !.token = token,
                                   !.stage = "truncate", !.then = "heartbeat"]
      <4> HIDE DEF copy, token
      <4>1. daemon' = Reload([daemon EXCEPT !.sent = FALSE, !.copy = Absent,
                                            !.token = token], copy, "heartbeat")
        BY <1>1, <1>7 DEF AfterDaemon, copy, token, Process
      <4> QED
        BY <1>1, <2>2, <4>1 DEF Reload, Process
    <3> HIDE DEF copy, token
    <3>4. /\ daemon' \in Process /\ ~daemon'.sent
          /\ daemon'.identity = daemon.identity
          /\ daemon'.stage = "truncate" /\ daemon'.then = "heartbeat"
          /\ daemon'.copy = copy /\ daemon'.token = token
      BY <1>1, <2>1, <3>2, <3>3 DEF Process, Stages
    <3> QED
      BY <1>7, <2>2, <3>4 DEF AnsweredDaemon, copy, token
  <2>3. CASE ~Readable(disk.state)
    <3>1. daemon' = [daemon EXCEPT !.sent = FALSE, !.copy = Absent, !.token = token,
                                   !.stage = "heartbeat"]
      <4> HIDE DEF copy, token
      <4>1. daemon' = Reload([daemon EXCEPT !.sent = FALSE, !.copy = Absent,
                                            !.token = token], copy, "heartbeat")
        BY <1>1, <1>7 DEF AfterDaemon, copy, token, Process
      <4> QED
        BY <1>1, <2>3, <4>1 DEF Reload, Process
    <3> HIDE DEF token
    <3>2. /\ daemon' \in Process /\ ~daemon'.sent
          /\ daemon'.identity = daemon.identity
          /\ daemon'.stage = "heartbeat"
          /\ daemon'.copy = Absent /\ daemon'.token = token
      BY <1>1, <2>1, <3>1 DEF Process, Stages, Calling
    <3> QED
      BY <1>7, <2>3, <3>2 DEF AnsweredDaemon, token
  <2> QED
    BY <2>2, <2>3
<1>8. CASE daemon.stage = "heartbeat"
  <2> DEFINE heard == outcome = "ok"
             copy == disk.state
             back == [daemon EXCEPT !.sent = FALSE, !.copy = Absent, !.heard = heard]
  <2>1. daemon' = Reload(back, copy, "asleep") /\ heard \in BOOLEAN
    BY <1>1, <1>8 DEF AfterDaemon, Process
  <2> HIDE DEF heard
  <2>2. CASE Readable(disk.state)
    <3>1. copy \in SavedState
      BY <1>1, <2>2, ReadableIs DEF Files
    <3>2. daemon' = [daemon EXCEPT !.sent = FALSE, !.copy = copy, !.heard = heard,
                                   !.stage = "truncate", !.then = "asleep"]
      <4> HIDE DEF copy
      <4> QED
        BY <1>1, <2>1, <2>2 DEF Reload, Process
    <3> HIDE DEF copy
    <3>3. /\ daemon' \in Process /\ ~daemon'.sent
          /\ daemon'.identity = daemon.identity
          /\ daemon'.stage = "truncate" /\ daemon'.then = "asleep"
          /\ daemon'.copy = copy /\ daemon'.token = daemon.token
      BY <1>1, <2>1, <3>1, <3>2 DEF Process, Stages
    <3> QED
      BY <1>8, <2>2, <3>3 DEF AnsweredDaemon, copy
  <2>3. CASE ~Readable(disk.state)
    <3>1. daemon' = [daemon EXCEPT !.sent = FALSE, !.copy = Absent, !.heard = heard,
                                   !.stage = "asleep"]
      <4> HIDE DEF copy
      <4> QED
        BY <1>1, <2>1, <2>3 DEF Reload, Process
    <3>2. /\ daemon' \in Process /\ ~daemon'.sent
          /\ daemon'.identity = daemon.identity
          /\ daemon'.stage = "asleep"
          /\ daemon'.copy = Absent /\ daemon'.token = daemon.token
      BY <1>1, <2>1, <3>1 DEF Process, Stages
    <3> QED
      BY <1>8, <2>3, <3>2 DEF AnsweredDaemon
  <2> QED
    BY <2>2, <2>3
<1> QED
  BY <1>2, <1>3, <1>4, <1>5, <1>6, <1>7, <1>8

(* The daemon makes a call, or has its answer. *)
LEMMA DaemonAnswerTypes ==
  ASSUME TypesOK, excused' \in BOOLEAN, NEW outcome \in Outcome,
         Await("daemon", daemon, outcome), AfterDaemon(outcome),
         UNCHANGED <<disk, command>>
  PROVE  TypesOK'
<1>1. /\ daemon \in Process /\ left \in Budgets /\ disk \in Files
      /\ "command" \in Call /\ "daemon" \in Call
  BY ClientAssumption DEF TypesOK, TypeOK, Files
<1>2. daemon.stage # "register"
  BY NotRunningIs DEF TypesOK, DaemonOK, Saving
<1>3. /\ daemon.stage \in Calling /\ nodes' = nodes /\ tokens' = tokens
      /\ CallsTyped' /\ calls'["command"] = calls["command"]
      /\ \/ outcome = "sent" /\ Sent("daemon", daemon)
         \/ outcome = "ok" /\ Succeeds("daemon", daemon)
         \/ outcome = "error" /\ Fails("daemon", daemon) /\ calls'["daemon"].pc = "idle"
  BY <1>1, <1>2, AwaitIs DEF TypesOK, DaemonOK
<1>4. NodesTyped' /\ TokensTyped' /\ CommandOK'
  BY <1>3 DEF TypesOK, NodesTyped, TokensTyped, CommandOK, CallOf, Readable
<1>5. left' \in Budgets
  <2>1. left' = left \/ Spend("faults")
    BY <1>3 DEF Sent, Succeeds, Fails
  <2> QED
    BY <1>1, <2>1, SpendIs
<1>6. ASSUME daemon' \in Process, daemon'.stage \in Saving => daemon'.copy # Absent
      PROVE  TypeOK'
  BY <1>5, <1>6 DEF TypesOK, TypeOK, Saving
<1>7. CASE outcome = "sent" /\ Sent("daemon", daemon)
  <2>1. daemon' = [daemon EXCEPT !.sent = TRUE]
    BY <1>7 DEF AfterDaemon
  <2>2. /\ daemon' \in Process /\ daemon'.sent /\ daemon'.stage = daemon.stage
        /\ daemon'.copy = daemon.copy /\ daemon'.then = daemon.then
    BY <1>1, <2>1 DEF Process
  <2>3. calls'["daemon"].pc \in Sections(daemon.stage) \cup {"error"}
    BY <1>1, <1>2, <1>3, <1>7, RequestedIs DEF Sent, TypesOK
  <2>4. calls'["daemon"].pc # "ok"
    BY <1>3, <2>3 DEF Sections, Calling
  <2>5. CallOf("daemon", daemon)'
    BY <1>3, <2>2, <2>3, <2>4 DEF CallOf
  <2>6. DaemonOK'
    BY <1>3, <2>2, <2>5, NotRunningIs DEF TypesOK, DaemonOK, Readable, Calling
  <2>7. daemon.stage \notin Saving
    BY <1>3 DEF Calling, Saving
  <2> QED
    BY <1>3, <1>4, <1>6, <2>2, <2>6, <2>7 DEF TypesOK
<1>8. CASE outcome \in {"ok", "error"}
  <2>1. /\ daemon' \in Process /\ ~daemon'.sent
        /\ AnsweredDaemon(outcome)
    BY <1>3, <1>8, AnsweredDaemonIs
  <2>2. calls'["daemon"].pc = "idle"
    BY <1>3, <1>8, AnsweredIs DEF Succeeds
  <2>3. Readable(disk.state) => Readable(Issued(disk.state, "daemon")) \/ outcome # "ok" \/ daemon.stage # "refresh"
    <3> SUFFICES ASSUME Readable(disk.state), outcome = "ok", daemon.stage = "refresh"
                 PROVE  Readable(Issued(disk.state, "daemon"))
      OBVIOUS
    <3>1. disk.state \in SavedState /\ calls["daemon"].left \in 0..TTL
      BY <1>1, ReadableIs DEF Files, TypesOK, CallsTyped, CallRecord
    <3>2. calls["daemon"].token \in Token
      BY <1>3 DEF TypesOK, DaemonOK, CallOf, Succeeds
    <3>3. Issued(disk.state, "daemon") \in SavedState
      BY <1>1, <3>1, <3>2, IssuedIs
    <3> QED
      BY <3>3, ReadableIs
  <2>4. /\ daemon' = NotRunning \/ daemon'.stage \in {"first heartbeat", "heartbeat",
                                                       "asleep", "truncate"}
        /\ daemon'.stage = "truncate" => daemon'.then \in {"heartbeat", "asleep"}
        /\ Readable(daemon'.copy) <=> daemon'.stage \in {"first heartbeat", "truncate"}
    BY <2>1, <2>3, NotRunningIs, ReadableIs
       DEF AnsweredDaemon, TypesOK, DaemonOK
  <2>5. DaemonOK'
    BY <2>1, <2>2, <2>4, NotRunningIs DEF DaemonOK, CallOf, Running, Readable, Saving
  <2>6. daemon'.stage \in Saving => daemon'.copy # Absent
    BY <2>4, NotRunningIs, ReadableIs DEF Saving
  <2> QED
    BY <1>3, <1>4, <1>6, <2>1, <2>5, <2>6 DEF TypesOK
<1> QED
  BY <1>3, <1>7, <1>8

(* The daemon saves, and goes on. *)
LEMMA DaemonSaveTypes ==
  ASSUME TypesOK, excused' \in BOOLEAN, UNCHANGED <<coordVars, left, command>>,
         \/ Truncate(daemon) /\ daemon' = [daemon EXCEPT !.stage = "write"]
         \/ Write(daemon) /\ daemon' = [daemon EXCEPT !.stage = daemon.then,
                                                      !.copy = Absent]
  PROVE  TypesOK'
<1>1. /\ nodes' = nodes /\ tokens' = tokens /\ calls' = calls
      /\ command' = command /\ left' = left
  BY DEF coordVars
<1>2. disk \in Files /\ daemon \in Process
  BY DEF TypesOK, TypeOK, Files
<1>3. daemon.stage \in Saving => daemon.copy # Absent
  BY DEF TypesOK, TypeOK, Saving
<1>4. disk' \in Files /\ disk'.identity = disk.identity /\ daemon.stage \in Saving
  BY <1>2, <1>3, SavingTypes
<1>5. NodesTyped' /\ TokensTyped' /\ CallsTyped' /\ CommandOK'
  BY <1>1, <1>4 DEF TypesOK, NodesTyped, TokensTyped, CallsTyped, CommandOK, CallOf,
                    Readable
<1>6. /\ ~daemon.sent /\ calls["daemon"].pc = "idle"
      /\ daemon.then \in {"heartbeat", "asleep"} /\ Readable(daemon.copy)
  BY <1>4, NotRunningIs DEF TypesOK, DaemonOK, CallOf, Running, Calling, Saving
<1>7. CASE daemon' = [daemon EXCEPT !.stage = "write"]
  <2>1. /\ daemon' \in Process /\ daemon'.stage = "write" /\ ~daemon'.sent
        /\ daemon'.copy = daemon.copy /\ daemon'.then = daemon.then
    BY <1>2, <1>6, <1>7 DEF Process, Stages
  <2>2. DaemonOK'
    BY <1>1, <1>6, <2>1 DEF DaemonOK, CallOf, Running, Readable, Saving
  <2>3. TypeOK'
    BY <1>1, <1>3, <1>4, <2>1 DEF TypesOK, TypeOK, Files
  <2> QED
    BY <1>5, <2>2, <2>3 DEF TypesOK
<1>8. CASE daemon' = [daemon EXCEPT !.stage = daemon.then, !.copy = Absent]
  <2> DEFINE then == daemon.then
  <2>1. then \in {"heartbeat", "asleep"} /\ then \in Stages
        /\ daemon' = [daemon EXCEPT !.stage = then, !.copy = Absent]
    BY <1>6, <1>8 DEF Stages, Calling
  <2> HIDE DEF then
  <2>2. /\ daemon' \in Process /\ daemon'.stage = then /\ ~daemon'.sent
        /\ daemon'.copy = Absent
    BY <1>2, <1>6, <2>1 DEF Process
  <2>3. DaemonOK'
    BY <1>1, <1>6, <2>1, <2>2, ReadableIs DEF DaemonOK, CallOf, Running, Readable, Saving
  <2>4. TypeOK'
    BY <1>1, <1>4, <2>1, <2>2 DEF TypesOK, TypeOK, Files
  <2> QED
    BY <1>5, <2>3, <2>4 DEF TypesOK
<1> QED
  BY <1>7, <1>8

(* The heartbeat task looks into the file. *)
LEMMA WakeTypes ==
  ASSUME TypesOK, excused' \in BOOLEAN, Wake, UNCHANGED command
  PROVE  /\ TypesOK' /\ UNCHANGED <<coordVars, disk, left>>
         /\ daemon.stage = "due" /\ ~daemon'.sent
         /\ daemon'.token = daemon.token /\ daemon'.identity = daemon.identity
         /\ daemon'.copy = daemon.copy /\ ~Readable(daemon.copy)
         /\ daemon'.stage = IF Readable(disk.state) /\ IsTokenExpiredSoon(disk.state)
                            THEN "refresh" ELSE "heartbeat"
<1> DEFINE stage == IF Readable(disk.state) /\ IsTokenExpiredSoon(disk.state)
                    THEN "refresh" ELSE "heartbeat"
<1>1. /\ nodes' = nodes /\ tokens' = tokens /\ calls' = calls /\ disk' = disk
      /\ left' = left /\ daemon.stage = "due"
      /\ daemon' = [daemon EXCEPT !.heard = FALSE, !.stage = stage]
      /\ UNCHANGED <<coordVars, disk, left>>
  BY DEF Wake, coordVars
<1>2. daemon \in Process /\ stage \in {"refresh", "heartbeat"} /\ stage \in Stages
  BY DEF TypesOK, TypeOK, Stages, Calling
<1>3. NodesTyped' /\ TokensTyped' /\ CallsTyped' /\ CommandOK'
  BY <1>1 DEF TypesOK, NodesTyped, TokensTyped, CallsTyped, CommandOK, CallOf, Readable
<1>4. ~daemon.sent /\ calls["daemon"].pc = "idle" /\ ~Readable(daemon.copy)
  BY <1>1 DEF TypesOK, DaemonOK, CallOf, Running, Calling, Saving
<1> HIDE DEF stage
<1>5. /\ daemon' \in Process /\ daemon'.stage = stage /\ ~daemon'.sent
      /\ daemon'.copy = daemon.copy /\ daemon'.token = daemon.token
      /\ daemon'.identity = daemon.identity
  BY <1>1, <1>2, <1>4 DEF Process
<1>6. DaemonOK'
  BY <1>1, <1>2, <1>4, <1>5 DEF DaemonOK, CallOf, Running, Readable, Saving
<1>7. TypeOK'
  BY <1>1, <1>2, <1>5 DEF TypesOK, TypeOK
<1> QED
  BY <1>1, <1>3, <1>4, <1>5, <1>6, <1>7 DEF TypesOK, stage

(* An answer nobody waits for. *)
LEMMA UnclaimedTypes ==
  ASSUME TypesOK, excused' \in BOOLEAN, Unclaimed
  PROVE  /\ TypesOK' /\ nodes' = nodes /\ tokens' = tokens
         /\ UNCHANGED <<disk, daemon, command, left>>
         /\ \E c \in {"daemon", "command"} :
               /\ calls[c].pc \in {"ok", "error"} /\ calls'[c] = Idle
               /\ \A d \in Call : d # c => calls'[d] = calls[d]
               /\ c = "daemon" => ~daemon.sent
               /\ c = "command" => ~command.sent
<1>1. PICK c \in {"daemon", "command"} :
            /\ Respond(c)
            /\ c = "daemon" => ~daemon.sent
            /\ c = "command" => ~command.sent
  BY DEF Unclaimed
<1>2. UNCHANGED <<disk, daemon, command, left>>
  BY DEF Unclaimed
<1>3. /\ calls[c].pc \in {"ok", "error"} /\ nodes' = nodes /\ tokens' = tokens
      /\ CallsTyped' /\ \A d \in Call : d # c => calls'[d] = calls[d]
      /\ calls'[c] = Idle /\ calls'[c].pc = "idle"
  BY <1>1, RespondIs, ClientAssumption DEF TypesOK
<1>4. NodesTyped' /\ TokensTyped' /\ TypeOK'
  BY <1>2, <1>3 DEF TypesOK, NodesTyped, TokensTyped, TypeOK
<1>5. "daemon" \in Call /\ "command" \in Call
  BY ClientAssumption
<1>6. DaemonOK' /\ CommandOK'
  <2>1. /\ c = "daemon" => calls'["command"] = calls["command"]
        /\ c = "command" => calls'["daemon"] = calls["daemon"]
    BY <1>3, <1>5
  <2>2. DaemonOK'
    <3>1. CallOf("daemon", daemon)'
      BY <1>1, <1>2, <2>1 DEF TypesOK, DaemonOK, CallOf
    <3>2. Running /\ ~daemon.sent => calls'["daemon"].pc = "idle"
      BY <1>3, <2>1 DEF TypesOK, DaemonOK
    <3> QED
      BY <1>2, <3>1, <3>2 DEF TypesOK, DaemonOK, Running, Readable
  <2>3. CommandOK'
    <3>1. CallOf("command", command)'
      BY <1>1, <1>2, <2>1 DEF TypesOK, CommandOK, CallOf
    <3> QED
      BY <1>2, <3>1 DEF TypesOK, CommandOK, Readable
  <2> QED
    BY <2>2, <2>3
<1> QED
  BY <1>1, <1>2, <1>3, <1>4, <1>6 DEF TypesOK

(* A process dies. *)
LEMMA KillTypes ==
  ASSUME TypesOK, excused' \in BOOLEAN, KillDaemon \/ KillCommand
  PROVE  TypesOK'
<1>1. /\ nodes' = nodes /\ tokens' = tokens /\ calls' = calls
      /\ disk' = disk /\ Spend("faults")
  BY DEF KillDaemon, KillCommand, coordVars
<1>2. NodesTyped' /\ TokensTyped' /\ CallsTyped'
  BY <1>1 DEF TypesOK, NodesTyped, TokensTyped, CallsTyped
<1>3. left' \in Budgets
  BY <1>1, SpendIs DEF TypesOK, TypeOK
<1>4. TypeOK'
  BY <1>1, <1>3, NotRunningIs DEF KillDaemon, KillCommand, TypesOK, TypeOK
<1>5. DaemonOK'
  <2>1. CASE KillDaemon
    BY <1>1, <2>1, NotRunningIs, ReadableIs
       DEF KillDaemon, DaemonOK, CallOf, Running, Saving, Readable
  <2>2. CASE KillCommand
    BY <1>1, <2>2 DEF KillCommand, TypesOK, DaemonOK, CallOf, Running, Readable
  <2> QED
    BY <2>1, <2>2
<1>6. CommandOK'
  <2>1. CASE KillDaemon
    BY <1>1, <2>1 DEF KillDaemon, TypesOK, CommandOK, CallOf, Readable
  <2>2. CASE KillCommand
    BY <1>1, <2>2, NotRunningIs DEF KillCommand, CommandOK, CallOf
  <2> QED
    BY <2>1, <2>2
<1> QED
  BY <1>2, <1>4, <1>5, <1>6 DEF TypesOK

(* The coordinator dies. *)
LEMMA RestartTypes ==
  ASSUME TypesOK, excused' \in BOOLEAN, RestartCoordinator
  PROVE  /\ TypesOK' /\ nodes' = nodes /\ tokens' = tokens
         /\ \A c \in Call : calls'[c] = Idle
         /\ UNCHANGED <<disk, daemon, command>> /\ Spend("faults")
<1>1. /\ nodes' = nodes /\ tokens' = tokens /\ calls' = [c \in Call |-> Idle]
      /\ UNCHANGED <<disk, daemon, command>> /\ Spend("faults")
  BY DEF RestartCoordinator, Restart
<1>2. Worker(Idle) /\ Idle.pc = "idle"
  BY AnsweredIs
<1>3. NodesTyped' /\ TokensTyped' /\ CallsTyped'
  BY <1>1, <1>2 DEF TypesOK, NodesTyped, TokensTyped, CallsTyped, Worker
<1>4. left' \in Budgets
  BY <1>1, SpendIs DEF TypesOK, TypeOK
<1>5. TypeOK'
  BY <1>1, <1>4 DEF TypesOK, TypeOK
<1>6. calls'["daemon"].pc = "idle" /\ calls'["command"].pc = "idle"
  BY <1>1, <1>2, ClientAssumption
<1>7. DaemonOK'
  BY <1>1, <1>6 DEF TypesOK, DaemonOK, CallOf, Running, Readable
<1>8. CommandOK'
  BY <1>1, <1>6 DEF TypesOK, CommandOK, CallOf, Readable
<1> QED
  BY <1>1, <1>3, <1>5, <1>7, <1>8 DEF TypesOK

(* A state of the file, a unit of time later. *)
LEMMA AgedIs ==
  ASSUME NEW s \in SavedState \cup {Absent, Torn}
  PROVE  /\ Aged(s) \in SavedState \cup {Absent, Torn}
         /\ Readable(Aged(s)) <=> Readable(s)
         /\ ~Readable(s) => Aged(s) = s
         /\ Readable(s) => /\ Aged(s).left = Less(s.left)
                           /\ Aged(s).token = s.token /\ Aged(s).node = s.node
<1>1. CASE Readable(s)
  <2> DEFINE l == Less(s.left)
  <2>1. s \in SavedState /\ l \in 0..TTL
    BY <1>1, ReadableIs, LessIs DEF SavedState
  <2>2. Aged(s) = [s EXCEPT !.left = l]
    BY <1>1 DEF Aged
  <2> HIDE DEF l
  <2>3. Aged(s) \in SavedState /\ Aged(s).left = l
        /\ Aged(s).token = s.token /\ Aged(s).node = s.node
    BY <2>1, <2>2 DEF SavedState
  <2> QED
    BY <1>1, <2>3, ReadableIs DEF l
<1>2. CASE ~Readable(s)
  BY <1>2 DEF Aged
<1> QED
  BY <1>1, <1>2

(* A unit of time passes at the coordinator. *)
LEMMA ExpireIs ==
  ASSUME NodesTyped, TokensTyped, CallsTyped, Expire
  PROVE  /\ NodesTyped' /\ TokensTyped' /\ CallsTyped' /\ nodes' = nodes
         /\ DOMAIN tokens' = DOMAIN tokens
         /\ \A t \in DOMAIN tokens : /\ tokens'[t].node = tokens[t].node
                                     /\ tokens'[t].left = Less(tokens[t].left)
         /\ \A c \in Call : /\ calls'[c].pc = calls[c].pc
                            /\ calls'[c].node = calls[c].node
                            /\ calls'[c].token = calls[c].token
                            /\ calls'[c].identity = calls[c].identity
                            /\ calls'[c].left = Less(calls[c].left)
<1>1. nodes' = nodes /\ NodesTyped'
  BY DEF Expire, NodesTyped
<1>2. ASSUME NEW t \in DOMAIN tokens
      PROVE  /\ tokens'[t] \in TokenRow /\ tokens'[t].node = tokens[t].node
             /\ tokens'[t].left = Less(tokens[t].left)
  <2> DEFINE l == Less(tokens[t].left)
  <2>1. l \in 0..TTL /\ tokens[t] \in TokenRow
    BY LessIs DEF TokensTyped, TokenRow
  <2>2. tokens'[t] = [tokens[t] EXCEPT !.left = l]
    BY DEF Expire
  <2> HIDE DEF l
  <2>3. tokens'[t] \in TokenRow /\ tokens'[t].node = tokens[t].node /\ tokens'[t].left = l
    BY <2>1, <2>2 DEF TokenRow
  <2> QED
    BY <2>3 DEF l
<1>3. DOMAIN tokens' = DOMAIN tokens /\ tokens' = [t \in DOMAIN tokens |-> tokens'[t]]
  BY DEF Expire
<1>4. TokensTyped'
  BY <1>2, <1>3 DEF TokensTyped
<1>5. ASSUME NEW c \in Call
      PROVE  /\ Worker(calls'[c]) /\ calls'[c].pc = calls[c].pc
             /\ calls'[c].node = calls[c].node /\ calls'[c].token = calls[c].token
             /\ calls'[c].identity = calls[c].identity
             /\ calls'[c].left = Less(calls[c].left)
  <2> DEFINE l == Less(calls[c].left)
  <2>1. l \in 0..TTL /\ Worker(calls[c]) /\ calls[c] \in CallRecord
    BY LessIs DEF CallsTyped, CallRecord, Worker
  <2>2. calls'[c] = [calls[c] EXCEPT !.left = l]
    BY DEF Expire
  <2> HIDE DEF l
  <2>3. /\ calls'[c] \in CallRecord /\ calls'[c].pc = calls[c].pc
        /\ calls'[c].node = calls[c].node /\ calls'[c].token = calls[c].token
        /\ calls'[c].left = l /\ calls'[c].identity = calls[c].identity
        /\ calls'[c].wg = calls[c].wg /\ calls'[c].ip = calls[c].ip
        /\ calls'[c].report = calls[c].report
    BY <2>1, <2>2 DEF CallRecord
  <2> QED
    BY <2>1, <2>3 DEF Worker, l
<1>6. calls' = [c \in Call |-> calls'[c]]
  BY DEF Expire
<1>7. CallsTyped'
  BY <1>5, <1>6 DEF CallsTyped, Worker
<1> QED
  BY <1>1, <1>2, <1>3, <1>4, <1>5, <1>7

(* A unit of time passes. *)
LEMMA TickIs ==
  ASSUME TypesOK, Tick
  PROVE  /\ disk' \in Files /\ disk'.state = Aged(disk.state)
         /\ disk'.identity = disk.identity /\ disk'.wg = disk.wg
         /\ command' \in Process /\ command'.copy = Aged(command.copy)
         /\ command'.stage = command.stage /\ command'.op = command.op
         /\ command'.sent = command.sent /\ command'.identity = command.identity
         /\ command'.wg = command.wg
         /\ command = NotRunning <=> command' = NotRunning
         /\ \/ daemon.stage = "asleep" /\ daemon'.stage = "due" /\ daemon' \in Process
               /\ daemon'.token = daemon.token /\ daemon'.identity = daemon.identity
               /\ daemon'.copy = daemon.copy /\ daemon'.sent = daemon.sent
            \/ daemon = NotRunning /\ daemon' = NotRunning
         /\ left' = left
<1>1. disk \in Files /\ command \in Process /\ daemon \in Process
  BY DEF TypesOK, TypeOK, Files
<1>2. Aged(disk.state) \in SavedState \cup {Absent, Torn}
  BY <1>1, AgedIs DEF Files
<1>3. Aged(command.copy) \in SavedState \cup {Absent}
  <2>1. command.copy \in SavedState \cup {Absent}
    BY <1>1 DEF Process
  <2> QED
    BY <2>1, AgedIs, ReadableIs
<1>4. /\ disk' \in Files /\ disk'.state = Aged(disk.state)
      /\ disk'.identity = disk.identity /\ disk'.wg = disk.wg
  <2> DEFINE s == Aged(disk.state)
  <2>1. disk' = [disk EXCEPT !.state = s]
    BY DEF Tick
  <2>2. s \in SavedState \cup {Absent, Torn}
    BY <1>2
  <2> HIDE DEF s
  <2>3. disk' \in Files /\ disk'.state = s /\ disk'.identity = disk.identity
        /\ disk'.wg = disk.wg
    BY <1>1, <2>1, <2>2 DEF Files
  <2> QED
    BY <2>3 DEF s
<1>5. /\ command' \in Process /\ command'.copy = Aged(command.copy)
      /\ command'.stage = command.stage /\ command'.op = command.op
      /\ command'.sent = command.sent /\ command'.identity = command.identity
      /\ command'.wg = command.wg
      /\ command' = [command EXCEPT !.copy = Aged(command.copy)]
  <2> DEFINE s == Aged(command.copy)
  <2>1. command' = [command EXCEPT !.copy = s]
    BY DEF Tick
  <2>2. s \in SavedState \cup {Absent}
    BY <1>3
  <2> HIDE DEF s
  <2>3. /\ command' \in Process /\ command'.copy = s
        /\ command'.stage = command.stage /\ command'.op = command.op
        /\ command'.sent = command.sent /\ command'.identity = command.identity
        /\ command'.wg = command.wg
    BY <1>1, <2>1, <2>2 DEF Process
  <2> QED
    BY <2>1, <2>3 DEF s
<1>6. command = NotRunning => command' = NotRunning
  BY <1>1, <1>5, ReadableIs, AgedIs, NotRunningIs DEF Process
<1>7. command' = NotRunning => command = NotRunning
  BY <1>5, NotRunningIs DEF TypesOK, CommandOK, Saving
<1>8. \/ daemon.stage = "asleep" /\ daemon'.stage = "due" /\ daemon' \in Process
         /\ daemon'.token = daemon.token /\ daemon'.identity = daemon.identity
         /\ daemon'.copy = daemon.copy /\ daemon'.sent = daemon.sent
      \/ daemon = NotRunning /\ daemon' = NotRunning
  <2>1. CASE daemon.stage = "asleep"
    <3>1. daemon' = [daemon EXCEPT !.stage = "due"]
      BY <2>1 DEF Tick
    <3>2. daemon' \in Process /\ daemon'.stage = "due"
      BY <1>1, <3>1 DEF Process, Stages
    <3>3. /\ daemon'.token = daemon.token /\ daemon'.identity = daemon.identity
          /\ daemon'.copy = daemon.copy /\ daemon'.sent = daemon.sent
      BY <1>1, <3>1 DEF Process
    <3> QED
      BY <2>1, <3>2, <3>3
  <2>2. CASE daemon.stage = "off"
    BY <2>2 DEF Tick, TypesOK, DaemonOK, Saving
  <2> QED
    BY <2>1, <2>2 DEF Tick
<1> QED
  BY <1>4, <1>5, <1>6, <1>7, <1>8 DEF Tick

(* Its types. *)
LEMMA TickTypes ==
  ASSUME TypesOK, excused' \in BOOLEAN, Tick
  PROVE  TypesOK'
<1>1. /\ NodesTyped' /\ TokensTyped' /\ CallsTyped'
      /\ \A c \in Call : /\ calls'[c].pc = calls[c].pc
                         /\ calls'[c].node = calls[c].node
                         /\ calls'[c].token = calls[c].token
  BY ExpireIs DEF Tick, TypesOK
<1>2. "daemon" \in Call /\ "command" \in Call
  BY ClientAssumption
<1>3. daemon \in Process /\ command \in Process
  BY DEF TypesOK, TypeOK
<1>4. Readable(command'.copy) <=> Readable(command.copy)
  BY <1>3, TickIs, AgedIs DEF Process
<1>5. command'.stage \notin Saving \/ command'.copy # Absent
  <2>1. command.copy \in SavedState \cup {Absent}
    BY <1>3 DEF Process
  <2> QED
    BY <1>4, <2>1, TickIs, ReadableIs DEF TypesOK, TypeOK, Saving
<1>6. daemon'.stage \notin Saving \/ daemon'.copy # Absent
  BY TickIs, NotRunningIs DEF Saving
<1>7. TypeOK'
  <2>1. daemon' \in Process
    BY TickIs, NotRunningIs
  <2> QED
    BY <1>5, <1>6, <2>1, TickIs DEF TypesOK, TypeOK, Saving, Files
<1>8. DaemonOK'
  <2>1. CASE daemon = NotRunning /\ daemon' = NotRunning
    BY <2>1, NotRunningIs, ReadableIs DEF DaemonOK, CallOf, Running, Saving, Readable
  <2>2. CASE /\ daemon.stage = "asleep" /\ daemon'.stage = "due"
             /\ daemon'.copy = daemon.copy /\ daemon'.sent = daemon.sent
    <3>1. ~daemon.sent /\ calls["daemon"].pc = "idle" /\ ~Readable(daemon.copy)
      BY <2>2 DEF TypesOK, DaemonOK, CallOf, Running, Calling, Saving
    <3> QED
      BY <1>1, <1>2, <2>2, <3>1 DEF DaemonOK, CallOf, Running, Readable, Saving
  <2> QED
    BY <2>1, <2>2, TickIs
<1>9. CommandOK'
  <2>1. CallOf("command", command)'
    BY <1>1, <1>2, TickIs DEF TypesOK, CommandOK, CallOf
  <2> QED
    BY <1>4, <2>1, TickIs DEF TypesOK, CommandOK
<1> QED
  BY <1>1, <1>7, <1>8, <1>9 DEF TypesOK

(* The first state. *)
LEMMA InitTypes == Init => TypesOK
<1> SUFFICES ASSUME Init PROVE TypesOK
  OBVIOUS
<1>1. NodesTyped /\ TokensTyped
  BY DEF Init, CoordInit, NodesTyped, TokensTyped
<1>2. CallsTyped
  <2>1. Worker(Idle)
    BY AnsweredIs
  <2> QED
    BY <2>1 DEF Init, CoordInit, CallsTyped, Worker
<1>3. TypeOK
  BY ClientAssumption, NotRunningIs DEF Init, TypeOK
<1>4. DaemonOK
  BY NotRunningIs, ReadableIs DEF Init, DaemonOK, CallOf, Running, Saving
<1>5. CommandOK
  BY NotRunningIs DEF Init, CommandOK, CallOf
<1> QED
  BY <1>1, <1>2, <1>3, <1>4, <1>5 DEF TypesOK

(* Every step. *)
LEMMA NextTypes ==
  ASSUME TypesOK, Spare, [Next]_vars
  PROVE  TypesOK'
<1>1. CASE UNCHANGED vars
  <2>1. NodesTyped' /\ TokensTyped' /\ CallsTyped' /\ TypeOK'
    BY <1>1 DEF vars, coordVars, TypesOK, NodesTyped, TokensTyped, CallsTyped, TypeOK
  <2>2. DaemonOK'
    BY <1>1 DEF vars, coordVars, TypesOK, DaemonOK, CallOf, Running, Readable
  <2>3. CommandOK'
    BY <1>1 DEF vars, coordVars, TypesOK, CommandOK, CallOf, Readable
  <2> QED
    BY <2>1, <2>2, <2>3 DEF TypesOK
<1>2. CASE Next
  <2>1. excused' \in BOOLEAN
    BY <1>2, HistoryTyped DEF Next, TypesOK, TypeOK
  <2>2. CASE CommandNext
    <3>1. PICK op \in Commands, stage \in Stages : Start(op, stage) /\ Startable(op, stage)
      BY <2>2, CommandStarts
    <3> QED
      BY <2>1, <3>1, StartTypes
  <2>3. CASE CommandRuns
    <3>1. CASE SaveIdentity \/ SaveWg
      BY <2>1, <3>1, SaveTypes
    <3>2. CASE CommandStep
      <4>1. CASE /\ \E outcome \in Outcome :
                       Await("command", command, outcome) /\ AfterCommand(outcome)
                 /\ UNCHANGED <<disk, daemon>>
        BY <2>1, <4>1, CommandAnswerTypes
      <4>2. CASE /\ \/ Truncate(command) /\ command' = [command EXCEPT !.stage = "write"]
                    \/ Write(command) /\ command' = NotRunning
                 /\ UNCHANGED <<coordVars, left, daemon>>
        BY <2>1, <4>2, CommandSaveTypes
      <4> QED
        BY <3>2, <4>1, <4>2 DEF CommandStep
    <3> QED
      BY <2>3, <3>1, <3>2 DEF CommandRuns
  <2>4. CASE StartUp
    BY <2>1, <2>4, StartUpTypes
  <2>5. CASE DaemonStep
    <3>1. CASE /\ \E outcome \in Outcome :
                     Await("daemon", daemon, outcome) /\ AfterDaemon(outcome)
               /\ UNCHANGED <<disk, command>>
      BY <2>1, <3>1, DaemonAnswerTypes
    <3>2. CASE /\ \/ Truncate(daemon) /\ daemon' = [daemon EXCEPT !.stage = "write"]
                  \/ Write(daemon) /\ daemon' = [daemon EXCEPT !.stage = daemon.then,
                                                               !.copy = Absent]
               /\ UNCHANGED <<coordVars, left, command>>
      BY <2>1, <3>2, DaemonSaveTypes
    <3>3. CASE Wake /\ UNCHANGED command
      BY <2>1, <3>3, WakeTypes
    <3> QED
      BY <2>5, <3>1, <3>2, <3>3 DEF DaemonStep
  <2>6. CASE \E c \in Call : ServeCall(c)
    BY <2>1, <2>6, ServeTypes
  <2>7. CASE Unclaimed
    BY <2>1, <2>7, UnclaimedTypes
  <2>8. CASE Tick
    BY <2>1, <2>8, TickTypes
  <2>9. CASE Faults
    BY <2>1, <2>9, KillTypes, RestartTypes DEF Faults
  <2> QED
    BY <1>2, <2>2, <2>3, <2>4, <2>5, <2>6, <2>7, <2>8, <2>9 DEF Next
<1> QED
  BY <1>1, <1>2

-----------------------------------------------------------------------------
(* The daemon keeps its token: the invariant.  An operator that takes the
   tables as parameters says the same of the old ones and of the new ones. *)

(* A token is good for a key. *)
Good(t, k, table, rows) ==
    /\ t \in DOMAIN table /\ table[t].left > 0
    /\ table[t].node \in DOMAIN rows /\ rows[table[t].node].identity = k

(* Authentic, with parameters. *)
LEMMA GoodIs ==
  \A t, k : Good(t, k, tokens, nodes) <=> Authentic(t, k)
  BY DEF Good, Authentic, Active

Owns(n, k, rows) == n \in DOMAIN rows /\ rows[n].identity = k

UniqueIdentities ==
    \A m, n \in DOMAIN nodes : nodes[m].identity = nodes[n].identity => m = n

(* What says how long a token lasts never says too much. *)
Truthful(s, table) == s.token \in DOMAIN table => s.left <= table[s.token].left

Honest ==
    /\ \A s \in {disk.state, daemon.copy, command.copy} :
          Readable(s) => Truthful(s, tokens)
    /\ \A c \in Call : calls[c].pc = "ok" => Truthful(calls[c], tokens)

(* The daemon's refresh takes no unit of time. *)
InTime ==
    Refreshing /\ calls["daemon"].pc \in {"revoke", "create", "ok"} =>
       calls["daemon"].left = TTL

(* The daemon deletes nothing.  The command's refresh and registration are about
   the node of its key; when it saves, its call is over. *)
CallsOK ==
    /\ calls["daemon"].pc \notin {"insert", "delete", "release"}
    /\ command.stage \in Saving => calls["command"].pc = "idle"
    /\ command.sent /\ command.stage = "refresh" /\ calls["command"].pc = "revoke" =>
          Owns(calls["command"].node, command.identity, nodes)
    /\ command.sent /\ command.stage = "register" /\ calls["command"].pc = "insert" =>
          calls["command"].identity = command.identity

(* The node that `register` has made is none that the daemon or the file has a
   token of. *)
DaemonsTokens ==
    {s.token : s \in {x \in {disk.state, daemon.copy} : Readable(x)}}
    \cup (IF Running THEN {daemon.token} ELSE {})
    \cup (IF Refreshing /\ calls["daemon"].pc = "ok" THEN {calls["daemon"].token}
          ELSE {})

NewcomerIs(n) ==
    /\ Owns(n, command.identity, nodes)
    /\ \A t \in DaemonsTokens : t \in DOMAIN tokens => tokens[t].node # n
    /\ Refreshing /\ calls["daemon"].pc \in {"revoke", "create"} =>
          calls["daemon"].node # n

Newcomer ==
    /\ command.sent /\ command.stage = "register" /\ calls["command"].pc = "ok" =>
          NewcomerIs(calls["command"].node)
    /\ command.op = "register" /\ command.stage \in Saving =>
          NewcomerIs(command.copy.node)

(* While the token in state.json, or in the daemon's copy of it, is good for the
   key on disk, nothing that could be written over it lasts longer. *)
Below(s, x) == Readable(s) => s.left <= x

CommandBelow(p, call, x) ==
    /\ p.op # "register" => Below(p.copy, x)
    /\ p.sent /\ p.stage = "refresh" /\ call.pc \in {"create", "ok"} => call.left <= x

FilesOrdered ==
    /\ Readable(disk.state) /\ Good(disk.state.token, disk.identity, tokens, nodes) =>
          CommandBelow(command, calls["command"], tokens[disk.state.token].left)
    /\ Readable(daemon.copy) /\ Good(daemon.copy.token, disk.identity, tokens, nodes) =>
          /\ CommandBelow(command, calls["command"], tokens[daemon.copy.token].left)
          /\ Below(disk.state, tokens[daemon.copy.token].left)

(* What can still go wrong: each fault and each command may cost the daemon one
   refresh.  Two commands are over before there is a state.json. *)
CommandsLeft == left.commands + (IF command = NotRunning THEN 0 ELSE 1)
Chances == left.faults + CommandsLeft
Writing == IF command.stage = "write" THEN 1 ELSE 0

Spending ==
    /\ left.faults <= Budget.faults
    /\ CommandsLeft <= Budget.commands
    /\ disk.wg # Absent => CommandsLeft + 1 <= Budget.commands
    /\ command.op \notin {"none", "init"} => CommandsLeft + 1 <= Budget.commands
    /\ Readable(disk.state) \/ Running => CommandsLeft + 2 <= Budget.commands

Margin == GRACE + 2 - Budget.faults - Budget.commands

(* The daemon's token lasts through what can still go wrong.  It has one unit more
   to do so when the daemon is about to look, or has its refresh on the way, or will
   find no state because a command is writing it. *)
DaemonLeft == tokens[daemon.token].left

Tight == \/ daemon.stage = "due"
         \/ daemon.stage = "refresh" /\ (daemon.sent => calls["daemon"].pc # "idle")

Slack == IF Tight THEN 1 ELSE Writing

Lasts == DaemonLeft + Slack >= Margin + 1 + Chances

(* No copy of state.json claims more than the daemon's token has left. *)
Covered ==
    /\ CommandBelow(command, calls["command"], DaemonLeft)
    /\ Below(disk.state, DaemonLeft)
    /\ Below(daemon.copy, DaemonLeft)

(* Until its refresh revokes the token the daemon holds a good one; then it is
   about to have another one; and state.json is whole but while it is written. *)
HoldsToken ==
    (Refreshing => calls["daemon"].pc \in {"revoke", "idle"}) =>
       Good(daemon.token, daemon.identity, tokens, nodes) /\ Lasts /\ Covered

Renews ==
    Refreshing =>
      /\ calls["daemon"].pc # "error"
      /\ calls["daemon"].pc \in {"revoke", "create"} =>
            Owns(calls["daemon"].node, daemon.identity, nodes)
      /\ calls["daemon"].pc = "ok" =>
            Good(calls["daemon"].token, daemon.identity, tokens, nodes)

FileWhole ==
    /\ disk.state # Absent
    /\ command.stage # "write" /\ daemon.stage # "write" => Readable(disk.state)

Sound == GRACE < TTL /\ HoldsToken /\ Renews /\ FileWhole

Kept == Running /\ ~excused => Sound

OrderOK ==
    /\ TypesOK /\ UniqueIdentities /\ Honest /\ InTime /\ CallsOK /\ Newcomer
    /\ FilesOrdered /\ Spending
-----------------------------------------------------------------------------
(* What a handler's section does to the tables. *)

HeldTokens == {s.token : s \in Copies} \cup {daemon.token}
              \cup {calls[c].token : c \in Call}

(* A new token, and the answer that carries it. *)
Grown(c, t, n) ==
    /\ n \in NodeId /\ t \in Token /\ t \notin HeldTokens /\ calls[c].left \in 0..TTL
    /\ calls'[c] = AnsweredWith(n, t, calls[c].left)
    /\ DOMAIN tokens' = DOMAIN tokens \cup {t}
    /\ tokens'[t] = [node |-> n, left |-> calls[c].left]

NewNodeIs(c, n) ==
    /\ n \notin DOMAIN nodes /\ DOMAIN nodes' = DOMAIN nodes \cup {n}
    /\ nodes'[n].identity = calls[c].identity
    /\ \A m \in DOMAIN nodes : nodes[m].identity # calls[c].identity
    /\ \A u \in DOMAIN tokens : tokens[u].node # n
    /\ \A d \in Call : calls[d].node # n

Inserted(c) ==
    calls[c].pc = "insert" /\ \E n, t : Grown(c, t, n) /\ NewNodeIs(c, n)
Created(c) ==
    calls[c].pc = "create" /\ nodes' = nodes /\ \E t : Grown(c, t, calls[c].node)
Revoked(c) ==
    /\ calls[c].pc = "revoke" /\ nodes' = nodes
    /\ DOMAIN tokens' = DOMAIN tokens \ TokensOf(calls[c].node)
    /\ calls'[c].pc = "create" /\ calls'[c].left = calls[c].left
    /\ calls'[c].node = calls[c].node
Deleted(c) ==
    /\ calls[c].pc = "delete" /\ calls'[c].pc \in {"release", "ok"}
    /\ calls'[c].pc = "ok" => calls'[c] = Answered("ok")
    /\ DOMAIN nodes' \subseteq DOMAIN nodes /\ DOMAIN tokens' \subseteq DOMAIN tokens
Passed(c) ==
    /\ calls[c].pc \in {"list", "update", "release"} /\ calls'[c] = Answered("ok")
    /\ DOMAIN nodes' = DOMAIN nodes /\ tokens' = tokens
Failed(c) ==
    /\ calls[c].pc \in {"insert", "create"}
    /\ calls[c].pc = "create" => calls[c].node \notin DOMAIN nodes
    /\ calls'[c] = Answered("error") /\ nodes' = nodes /\ tokens' = tokens

RowsStay ==
    /\ \A t \in DOMAIN tokens \cap DOMAIN tokens' :
          t \in HeldTokens => tokens'[t] = tokens[t]
    /\ \A n \in DOMAIN nodes \cap DOMAIN nodes' : nodes'[n].identity = nodes[n].identity

(* These are all the sections, when no statement fails. *)
LEMMA ServedIs ==
  ASSUME TypesOK, Spare, ~DbErrors, NEW c \in Call, ServeCall(c)
  PROVE  /\ Inserted(c) \/ Created(c) \/ Revoked(c) \/ Deleted(c) \/ Passed(c) \/ Failed(c)
         /\ RowsStay
<1>1. /\ Worker(calls[c]) /\ calls[c] \in CallRecord /\ calls[c].left \in 0..TTL
      /\ NodesTyped /\ TokensTyped /\ CallsTyped
      /\ DOMAIN calls = Call
  BY DEF TypesOK, CallsTyped, Worker, CallRecord
<1>2. /\ NewToken \in Token /\ NewToken \notin HeldTokens
      /\ NewNode \in NodeId /\ NewNode \notin DOMAIN nodes
      /\ \A u \in DOMAIN tokens : tokens[u].node # NewNode
      /\ \A d \in Call : calls[d].node # NewNode
  <2>1. /\ NewToken \in Token /\ UnusedToken(NewToken)
        /\ NewNode \in NodeId /\ UnusedNode(NewNode)
    BY Draws
  <2> QED
    BY <2>1 DEF UnusedToken, UnusedNode, HeldTokens
<1>3. ASSUME NEW x, Goto(c, x) PROVE calls'[c] = x
  BY <1>1, <1>3 DEF Goto
<1>4. CASE InsertNode(c, NewNode, NewToken)
  <2> DEFINE call == calls[c]
             row == [identity |-> call.identity, wg |-> call.wg, ip |-> call.ip,
                     endpoint |-> None, via_relay |-> None]
             token == [node |-> NewNode, left |-> call.left]
  <2>1. CASE Fail(c)
    BY <1>3, <1>4, <2>1 DEF InsertNode, Fail, Failed, RowsStay
  <2>2. CASE /\ ~Conflict(row) /\ nodes' = With(nodes, NewNode, row)
             /\ tokens' = With(tokens, NewToken, token)
             /\ Goto(c, AnsweredWith(NewNode, NewToken, call.left))
    <3>1. Grown(c, NewToken, NewNode)
      BY <1>1, <1>2, <1>3, <2>2 DEF Grown, With
    <3>2. NewNodeIs(c, NewNode)
      BY <1>2, <2>2 DEF NewNodeIs, With, Conflict
    <3>3. RowsStay
      BY <1>2, <2>2 DEF RowsStay, With
    <3> QED
      BY <1>4, <3>1, <3>2, <3>3 DEF Inserted, InsertNode
  <2> QED
    BY <1>4, <2>1, <2>2 DEF InsertNode, AnsweredWith
<1>5. CASE CreateToken(c, NewToken)
  <2> DEFINE call == calls[c]
             token == [node |-> call.node, left |-> call.left]
  <2>1. CASE call.node \notin DOMAIN nodes /\ Fail(c)
    BY <1>3, <1>5, <2>1 DEF CreateToken, Fail, Failed, RowsStay
  <2>2. CASE /\ tokens' = With(tokens, NewToken, token) /\ nodes' = nodes
             /\ Goto(c, AnsweredWith(call.node, NewToken, call.left))
    <3>1. call.node \in NodeId
      BY <1>1, <1>5 DEF Worker, CreateToken
    <3>2. Grown(c, NewToken, call.node)
      BY <1>1, <1>2, <1>3, <2>2, <3>1 DEF Grown, With
    <3>3. RowsStay
      BY <1>2, <2>2 DEF RowsStay, With
    <3> QED
      BY <1>5, <2>2, <3>2, <3>3 DEF Created, CreateToken
  <2> QED
    BY <1>5, <2>1, <2>2 DEF CreateToken, AnsweredWith
<1>6. CASE ListPeers(c)
  BY <1>3, <1>6 DEF ListPeers, Passed, RowsStay
<1>7. CASE UpdateHeartbeat(c)
  <2>1. calls[c].report \in Report
    BY <1>1, <1>7 DEF UpdateHeartbeat, Worker
  <2>2. nodes' = [n \in DOMAIN nodes |->
                    IF n = calls[c].node THEN Reported(nodes[n], calls[c].report)
                    ELSE nodes[n]]
    BY <1>7 DEF UpdateHeartbeat
  <2>3. \A n \in DOMAIN nodes : nodes'[n].identity = nodes[n].identity
    BY <1>1, <2>1, <2>2, ReportedIs DEF NodesTyped
  <2>4. DOMAIN nodes' = DOMAIN nodes
    BY <2>2
  <2> QED
    BY <1>3, <1>7, <2>3, <2>4 DEF UpdateHeartbeat, Passed, RowsStay
<1>8. CASE RevokeTokens(c)
  <2> DEFINE S == TokensOf(calls[c].node)
             x == [calls[c] EXCEPT !.pc = "create"]
  <2>1. tokens' = Without(tokens, S) /\ nodes' = nodes /\ Goto(c, x) /\ calls[c].pc = "revoke"
    BY <1>8 DEF RevokeTokens
  <2>2. calls'[c] = x
    BY <1>3, <2>1
  <2>3. x.pc = "create" /\ x.left = calls[c].left /\ x.node = calls[c].node
    BY <1>1 DEF CallRecord
  <2> HIDE DEF S, x
  <2>4. RowsStay
    BY <2>1 DEF RowsStay, Without, Restrict
  <2>5. Revoked(c)
    BY <2>1, <2>2, <2>3 DEF Revoked, S, Without, Restrict
  <2> QED
    BY <2>4, <2>5
<1>9. CASE DeleteRows(c)
  <2> DEFINE S == TokensOf(calls[c].node)
             N == {calls[c].node}
             ip == nodes[calls[c].node].ip
             x == [Idle EXCEPT !.pc = "release", !.ip = ip]
  <2>1. /\ tokens' = Without(tokens, S) /\ nodes' = Without(nodes, N)
        /\ Goto(c, x) \/ Goto(c, Answered("ok"))
    BY <1>9 DEF DeleteRows
  <2>2. calls[c].pc = "delete"
    BY <1>9 DEF DeleteRows
  <2>3. calls'[c] = x \/ calls'[c] = Answered("ok")
    BY <1>3, <2>1
  <2>4. x.pc = "release" /\ Answered("ok").pc = "ok"
    BY AnsweredIs DEF Idle
  <2> HIDE DEF S, N, x
  <2>5. RowsStay
    BY <2>1 DEF RowsStay, Without, Restrict
  <2>6. Deleted(c)
    <3>1. DOMAIN nodes' \subseteq DOMAIN nodes /\ DOMAIN tokens' \subseteq DOMAIN tokens
      BY <2>1 DEF Without, Restrict
    <3> QED
      BY <2>2, <2>3, <2>4, <3>1 DEF Deleted
  <2> QED
    BY <2>5, <2>6
<1>10. CASE ReleaseAddress(c)
  BY <1>3, <1>10 DEF ReleaseAddress, Passed, RowsStay
<1> QED
  BY <1>4, <1>5, <1>6, <1>7, <1>8, <1>9, <1>10 DEF ServeCall

(* What that means for a token that somebody holds, and for a node. *)
LEMMA HeldStay ==
  ASSUME TypesOK, NEW c \in Call, RowsStay,
         Inserted(c) \/ Created(c) \/ Revoked(c) \/ Deleted(c) \/ Passed(c) \/ Failed(c)
  PROVE  /\ \A t \in HeldTokens : t \in DOMAIN tokens' =>
               t \in DOMAIN tokens /\ tokens'[t] = tokens[t]
         /\ \A k : \A t \in HeldTokens : Good(t, k, tokens', nodes') =>
               Good(t, k, tokens, nodes) /\ tokens'[t] = tokens[t]
         /\ calls[c].pc \notin {"revoke", "delete"} =>
               \A k : \A t \in HeldTokens : Good(t, k, tokens, nodes) =>
                  Good(t, k, tokens', nodes') /\ tokens'[t] = tokens[t]
         /\ calls[c].pc # "delete" =>
               \A n, k : Owns(n, k, nodes) => Owns(n, k, nodes')
         /\ \A n, k : Owns(n, k, nodes') /\ n \in DOMAIN nodes => Owns(n, k, nodes)
<1>1. \A t \in HeldTokens : t \in DOMAIN tokens' =>
         t \in DOMAIN tokens /\ tokens'[t] = tokens[t]
  BY DEF RowsStay, Inserted, Created, Grown, Revoked, Deleted, Passed, Failed
<1>2. \A t \in HeldTokens : t \in DOMAIN tokens' /\ tokens'[t].node \in DOMAIN nodes' =>
         tokens'[t].node \in DOMAIN nodes
  <2>1. CASE Inserted(c)
    BY <1>1, <2>1 DEF Inserted, NewNodeIs
  <2>2. CASE ~Inserted(c)
    BY <2>2 DEF Created, Revoked, Deleted, Passed, Failed
  <2> QED
    BY <2>1, <2>2
<1>3. \A k : \A t \in HeldTokens : Good(t, k, tokens', nodes') =>
         Good(t, k, tokens, nodes) /\ tokens'[t] = tokens[t]
  BY <1>1, <1>2 DEF Good, RowsStay
<1>4. calls[c].pc # "delete" => DOMAIN nodes \subseteq DOMAIN nodes'
  BY DEF Inserted, NewNodeIs, Created, Revoked, Deleted, Passed, Failed
<1>5. calls[c].pc \notin {"revoke", "delete"} => DOMAIN tokens \subseteq DOMAIN tokens'
  BY DEF Inserted, Grown, Created, Revoked, Deleted, Passed, Failed
<1>6. calls[c].pc \notin {"revoke", "delete"} =>
         \A k : \A t \in HeldTokens : Good(t, k, tokens, nodes) =>
            Good(t, k, tokens', nodes') /\ tokens'[t] = tokens[t]
  BY <1>1, <1>4, <1>5 DEF Good, RowsStay
<1>7. calls[c].pc # "delete" => \A n, k : Owns(n, k, nodes) => Owns(n, k, nodes')
  BY <1>4 DEF Owns, RowsStay
<1>8. \A n, k : Owns(n, k, nodes') /\ n \in DOMAIN nodes => Owns(n, k, nodes)
  BY DEF Owns, RowsStay
<1> QED
  BY <1>1, <1>3, <1>6, <1>7, <1>8

-----------------------------------------------------------------------------
(* The steps of the command. *)

Excuse == Withdrawn \/ LosesToken \/ LosesState

(* The numbers. *)
LEMMA Numbers ==
  ASSUME TypesOK
  PROVE  /\ GRACE \in Nat /\ TTL \in Nat
         /\ Budget.faults \in Nat /\ Budget.commands \in Nat
         /\ left.faults \in Nat /\ left.commands \in Nat
         /\ CommandsLeft \in Nat /\ Chances \in Nat /\ Margin \in Int /\ Writing \in 0..1
         /\ Slack \in 0..1
         /\ \A t \in DOMAIN tokens : tokens[t].left \in 0..TTL
         /\ \A c \in Call : calls[c].left \in 0..TTL
         /\ \A s \in SavedState : s.left \in 0..TTL
         /\ "daemon" \in Call /\ "command" \in Call
<1>1. GRACE \in Nat /\ TTL \in Nat /\ Budget \in Budgets /\ left \in Budgets
      /\ "daemon" \in Call /\ "command" \in Call
  BY CoordinatorAssumption, ClientAssumption DEF TypesOK, TypeOK
<1>2. /\ Budget.faults \in Nat /\ Budget.commands \in Nat
      /\ left.faults \in Nat /\ left.commands \in Nat
  BY <1>1 DEF Budgets
<1>3. /\ CommandsLeft \in Nat /\ Chances \in Nat /\ Margin \in Int /\ Writing \in 0..1
      /\ Slack \in 0..1
  BY <1>1, <1>2 DEF CommandsLeft, Chances, Margin, Writing, Slack
<1>4. /\ \A t \in DOMAIN tokens : tokens[t].left \in 0..TTL
      /\ \A c \in Call : calls[c].left \in 0..TTL
      /\ \A s \in SavedState : s.left \in 0..TTL
  BY DEF TypesOK, TokensTyped, TokenRow, CallsTyped, CallRecord, SavedState
<1> QED
  BY <1>1, <1>2, <1>3, <1>4

(* And after a step. *)
LEMMA NextNumbers ==
  ASSUME TypesOK'
  PROVE  /\ left'.faults \in Nat /\ left'.commands \in Nat
         /\ CommandsLeft' \in Nat /\ Chances' \in Nat /\ Margin' = Margin
         /\ Writing' \in 0..1 /\ Slack' \in 0..1
         /\ \A t \in DOMAIN tokens' : tokens'[t].left \in 0..TTL
<1>1. left' \in Budgets
  BY DEF TypesOK, TypeOK
<1>2. left'.faults \in Nat /\ left'.commands \in Nat
  BY <1>1 DEF Budgets
<1>3. /\ CommandsLeft' \in Nat /\ Chances' \in Nat /\ Margin' = Margin
      /\ Writing' \in 0..1 /\ Slack' \in 0..1
  BY <1>2 DEF CommandsLeft, Chances, Margin, Writing, Slack
<1>4. \A t \in DOMAIN tokens' : tokens'[t].left \in 0..TTL
  BY DEF TypesOK, TokensTyped, TokenRow
<1> QED
  BY <1>2, <1>3, <1>4

(* The token lasts as long as before, and nothing more can go wrong. *)
LEMMA LastsStill ==
  ASSUME TypesOK, TypesOK', NEW k, Good(daemon.token, k, tokens, nodes),
         DaemonLeft' = DaemonLeft, Chances' <= Chances,
         Slack' >= Slack \/ Chances' + 1 <= Chances
  PROVE  Lasts => Lasts'
<1>1. DaemonLeft \in Nat
  BY Numbers DEF Good, DaemonLeft
<1>2. /\ Chances' \in Nat /\ Chances \in Nat /\ Margin \in Int /\ Margin' = Margin
      /\ Slack \in 0..1 /\ Slack' \in 0..1
  BY Numbers, NextNumbers
<1>3. ASSUME NEW l \in Nat, NEW s \in 0..1, NEW t \in 0..1, NEW m \in Int,
             NEW c \in Nat, NEW d \in Nat, d <= c, t >= s \/ d + 1 <= c,
             l + s >= m + 1 + c
      PROVE  l + t >= m + 1 + d
  BY <1>3
<1> QED
  BY <1>1, <1>2, <1>3 DEF Lasts

(* Whoever holds no state claims nothing. *)
LEMMA BelowIs ==
  /\ \A x : Below(Absent, x) /\ Below(Torn, x)
  /\ \A call, x : CommandBelow(NotRunning, call, x)
  BY ReadableIs, NotRunningIs DEF Below, CommandBelow

(* A command starts. *)
LEMMA StartKeeps ==
  ASSUME OrderOK, TypesOK',
         NEW op \in Commands, NEW stage, Start(op, stage), Startable(op, stage)
  PROVE  OrderOK' /\ (Sound => Sound')
<1> USE DEF OrderOK
<1>1. /\ nodes' = nodes /\ tokens' = tokens /\ calls' = calls
      /\ disk' = disk /\ daemon' = daemon
  BY StartIs DEF coordVars
<1>2. /\ command = NotRunning /\ command' # NotRunning /\ command'.op = op
      /\ ~command'.sent /\ command'.stage = stage
      /\ stage \notin Saving /\ (op = "register" => stage = "register")
      /\ command'.copy = IF op \in {"init", "register"} THEN Absent ELSE disk.state
      /\ op # "init" => disk.wg # Absent
      /\ op # "none"
      /\ left'.commands = left.commands - 1 /\ left'.faults = left.faults
  BY StartIs, ClientAssumption, NotRunningIs DEF Startable, Saving, HasKeys
<1>3. \A x : Below(disk.state, x) => CommandBelow(command', calls'["command"], x)
  BY <1>2, BelowIs DEF CommandBelow
<1>4. CommandsLeft' = CommandsLeft /\ Chances' = Chances /\ Slack' = Slack
  BY <1>1, <1>2, Numbers, NotRunningIs
     DEF CommandsLeft, Chances, Slack, Tight, Writing, Saving
<1>5. UniqueIdentities'
  BY <1>1 DEF UniqueIdentities
<1>6. Honest'
  BY <1>1, <1>2, ReadableIs DEF Honest
<1>7. InTime' /\ CallsOK'
  BY <1>1, <1>2 DEF InTime, Refreshing, CallsOK
<1>8. Newcomer'
  BY <1>2 DEF Newcomer, Saving
<1>9. FilesOrdered'
  <2>1. Readable(disk.state) /\ Good(disk.state.token, disk.identity, tokens, nodes) =>
           Below(disk.state, tokens[disk.state.token].left)
    BY DEF Honest, Truthful, Good, Below
  <2> QED
    BY <1>1, <1>3, <2>1 DEF FilesOrdered
<1>10. Spending'
  BY <1>1, <1>2, <1>4, NotRunningIs DEF Spending, Running
<1>11. ASSUME Sound PROVE Sound'
  <2>1. DaemonLeft' = DaemonLeft /\ Margin' = Margin
    BY <1>1 DEF DaemonLeft, Margin
  <2>2. HoldsToken'
    BY <1>1, <1>3, <1>4, <1>11, <2>1 DEF Sound, HoldsToken, Refreshing, Lasts, Covered
  <2>3. Renews' /\ FileWhole'
    BY <1>1, <1>2, <1>11, NotRunningIs DEF Sound, Renews, FileWhole, Refreshing
  <2> QED
    BY <1>11, <2>2, <2>3 DEF Sound
<1> QED
  BY <1>5, <1>6, <1>7, <1>8, <1>9, <1>10, <1>11

(* init: nothing is good for a new key. *)
LEMMA SaveKeeps ==
  ASSUME OrderOK, Spare, TypesOK', SaveIdentity \/ SaveWg
  PROVE  OrderOK' /\ (Sound => Sound')
<1> USE DEF OrderOK
<1>1. /\ nodes' = nodes /\ tokens' = tokens /\ calls' = calls
      /\ daemon' = daemon /\ left' = left
  BY DEF SaveIdentity, SaveWg, coordVars
<1>2. disk \in Files /\ command \in Process
  BY DEF TypesOK, TypeOK, Files
<1>3. command.op = "init" /\ ~command.sent /\ command # NotRunning
      /\ command.stage \in {"save identity", "save wg"}
  <2>1. command.stage \in {"save identity", "save wg"}
    BY DEF SaveIdentity, SaveWg
  <2> QED
    BY <2>1, NotRunningIs DEF TypesOK, CommandOK, Saving
<1>4. disk'.state = disk.state
  BY <1>2 DEF SaveIdentity, SaveWg, Files
<1>5. /\ command'.op \in {"none", "init"} /\ ~command'.sent
      /\ command'.stage \in {"save wg", "off"}
      /\ Readable(command'.copy) => command'.copy = command.copy
      /\ command' # NotRunning => command'.op = "init" /\ command'.copy = command.copy
  <2>1. CASE SaveIdentity
    BY <1>2, <1>3, <2>1 DEF SaveIdentity, Process
  <2>2. CASE SaveWg
    BY <2>2, NotRunningIs, ReadableIs DEF SaveWg
  <2> QED
    BY <2>1, <2>2
<1>6. \/ \A t : ~Good(t, disk'.identity, tokens, nodes)
      \/ disk'.identity = disk.identity /\ command' = NotRunning
  <2>1. CASE SaveIdentity
    <3>1. disk'.identity \notin UsedIdentities
      BY <1>2, <2>1, Draws DEF SaveIdentity, Files
    <3> QED
      BY <3>1 DEF UsedIdentities, Good
  <2>2. CASE SaveWg
    BY <1>2, <2>2 DEF SaveWg, Files
  <2> QED
    BY <2>1, <2>2
<1>7. \A x : CommandBelow(command, calls["command"], x)
               => CommandBelow(command', calls'["command"], x)
  BY <1>3, <1>5 DEF CommandBelow, Below
<1>8. /\ CommandsLeft' <= CommandsLeft /\ Slack' = Slack /\ Chances' <= Chances
      /\ command' = NotRunning => CommandsLeft' + 1 <= CommandsLeft
  <2>1. Slack' = Slack
    BY <1>1, <1>3, <1>5 DEF Slack, Tight, Writing
  <2>2. left.faults \in Nat /\ left.commands \in Nat
    BY Numbers
  <2>3. /\ CommandsLeft = left.commands + 1
        /\ CommandsLeft' = left.commands + (IF command' = NotRunning THEN 0 ELSE 1)
    BY <1>1, <1>3 DEF CommandsLeft
  <2>4. /\ CommandsLeft' <= CommandsLeft
        /\ command' = NotRunning => CommandsLeft' + 1 <= CommandsLeft
    BY <2>2, <2>3
  <2>5. Chances' <= Chances
    BY <1>1, <2>2, <2>3 DEF Chances
  <2> QED
    BY <2>1, <2>4, <2>5
<1>9. UniqueIdentities'
  BY <1>1 DEF UniqueIdentities
<1>10. Honest'
  BY <1>1, <1>4, <1>5 DEF Honest
<1>11. InTime' /\ CallsOK'
  BY <1>1, <1>5 DEF InTime, Refreshing, CallsOK, Saving
<1>12. Newcomer'
  BY <1>5 DEF Newcomer, Saving
<1>13. FilesOrdered'
  BY <1>1, <1>4, <1>6, BelowIs DEF FilesOrdered
<1>14. Spending'
  <2>1. disk'.wg # Absent => disk.wg # Absent \/ command' = NotRunning
    BY <1>2 DEF SaveIdentity, SaveWg, Files
  <2>2. CommandsLeft' \in Nat /\ CommandsLeft \in Nat /\ Budget.commands \in Nat
    BY Numbers, NextNumbers
  <2>4. /\ left'.faults <= Budget.faults /\ CommandsLeft' <= Budget.commands
        /\ Readable(disk'.state) \/ daemon'.stage # "off" =>
              CommandsLeft' + 2 <= Budget.commands
    BY <1>1, <1>4, <1>8, <2>2 DEF Spending, Running
  <2>5. disk'.wg # Absent => CommandsLeft' + 1 <= Budget.commands
    BY <1>8, <2>1, <2>2 DEF Spending
  <2> QED
    BY <1>5, <2>4, <2>5 DEF Spending, Running
<1>15. ASSUME Sound PROVE Sound'
  <2>1. DaemonLeft' = DaemonLeft /\ Margin' = Margin
    BY <1>1 DEF DaemonLeft, Margin
  <2>2. Good(daemon.token, daemon.identity, tokens, nodes) /\ Lasts => Lasts'
    <3>1. Slack' >= Slack
      BY <1>8, Numbers
    <3> QED
      BY <1>8, <2>1, <3>1, LastsStill
  <2>3. HoldsToken'
    BY <1>1, <1>4, <1>7, <1>15, <2>1, <2>2 DEF Sound, HoldsToken, Refreshing, Covered
  <2>4. Renews' /\ FileWhole'
    BY <1>1, <1>3, <1>4, <1>15 DEF Sound, Renews, FileWhole, Refreshing
  <2> QED
    BY <1>15, <2>3, <2>4 DEF Sound
<1> QED
  BY <1>9, <1>10, <1>11, <1>12, <1>13, <1>14, <1>15

(* The command ends, or loses a fault: the daemon's token lasts. *)
LEMMA SpendingStill ==
  ASSUME TypesOK, TypesOK', Spending, CommandsLeft' <= CommandsLeft,
         left'.faults <= left.faults,
         command'.op \in {"none", command.op}, UNCHANGED <<disk, daemon>>
  PROVE  Spending' /\ Chances' <= Chances
<1>1. /\ CommandsLeft' \in Nat /\ CommandsLeft \in Nat /\ Budget.commands \in Nat
      /\ left'.faults \in Nat /\ left.faults \in Nat /\ Budget.faults \in Nat
  BY Numbers, NextNumbers
<1>2. Spending'
  BY <1>1 DEF Spending, Running
<1>3. Chances' <= Chances
  BY <1>1 DEF Chances
<1> QED
  BY <1>2, <1>3

(* The command asks. *)
LEMMA CommandSendsKeeps ==
  ASSUME OrderOK, TypesOK', Sent("command", command), command.stage \in Calling,
         AfterCommand("sent"), UNCHANGED <<disk, daemon>>
  PROVE  OrderOK' /\ (Sound => Sound')
<1> USE DEF OrderOK
<1>1. /\ command \in Process /\ "command" \in Call /\ "daemon" \in Call
      /\ command.stage = "register" => command.identity \in Identity /\ command.wg \in WgKey
  BY NotRunningIs, ClientAssumption DEF TypesOK, TypeOK, CommandOK, Saving
<1>2. /\ nodes' = nodes /\ tokens' = tokens /\ calls'["daemon"] = calls["daemon"]
      /\ calls'["command"].pc \in Sections(command.stage) \cup {"error"}
      /\ command.stage = "register" /\ calls'["command"].pc = "insert" =>
            calls'["command"].identity = command.identity
      /\ command.stage = "refresh" =>
            /\ calls'["command"].pc = "revoke"
            /\ calls'["command"].node = tokens[command.token].node
            /\ Authentic(command.token, command.identity)
  BY <1>1, RequestedIs DEF Sent, TypesOK
<1>3. /\ command'.sent /\ command'.stage = command.stage
      /\ command'.op = command.op /\ command'.copy = command.copy
      /\ command'.identity = command.identity
      /\ ~command.sent /\ left' = left
  <2>1. command' = [command EXCEPT !.sent = TRUE]
    BY DEF AfterCommand
  <2> QED
    BY <1>1, <2>1 DEF Process, Sent
<1>4. command # NotRunning /\ command' # NotRunning
  BY <1>3, NotRunningIs DEF Calling
<1>5. calls'["command"].pc # "ok" /\ command.stage \notin Saving
  BY <1>2 DEF Sections, Calling, Saving
<1>6. \A x : CommandBelow(command, calls["command"], x)
               => CommandBelow(command', calls'["command"], x)
  BY <1>2, <1>3 DEF CommandBelow
<1>7. Chances' = Chances /\ CommandsLeft' = CommandsLeft /\ Slack' = Slack
  BY <1>2, <1>3, <1>4 DEF Chances, CommandsLeft, Slack, Tight, Writing
<1>8. UniqueIdentities'
  BY <1>2 DEF UniqueIdentities
<1>9. Honest'
  BY <1>2, <1>3, <1>5, ClientAssumption DEF Honest
<1>10. InTime'
  BY <1>2 DEF InTime, Refreshing
<1>11. CallsOK'
  <2>1. command.stage = "refresh" =>
           Owns(calls'["command"].node, command.identity, nodes)
    BY <1>2 DEF Owns, Authentic, Active
  <2> QED
    BY <1>2, <1>3, <1>5, <2>1 DEF CallsOK
<1>12. Newcomer'
  BY <1>3, <1>5 DEF Newcomer
<1>13. FilesOrdered'
  BY <1>2, <1>3, <1>6 DEF FilesOrdered
<1>14. Spending'
  BY <1>3, <1>7 DEF Spending, Running
<1>15. ASSUME Sound PROVE Sound'
  <2>1. DaemonLeft' = DaemonLeft /\ Margin' = Margin
    BY <1>2 DEF DaemonLeft, Margin
  <2>2. HoldsToken'
    BY <1>2, <1>6, <1>7, <1>15, <2>1 DEF Sound, HoldsToken, Refreshing, Lasts, Covered
  <2>3. Renews' /\ FileWhole'
    BY <1>2, <1>3, <1>15 DEF Sound, Renews, FileWhole, Refreshing
  <2> QED
    BY <1>15, <2>2, <2>3 DEF Sound
<1> QED
  BY <1>8, <1>9, <1>10, <1>11, <1>12, <1>13, <1>14, <1>15

(* The command has its answer. *)
LEMMA CommandAnswerKeeps ==
  ASSUME OrderOK, TypesOK', NEW outcome \in {"ok", "error"}, AfterCommand(outcome),
         command.stage \in Calling, nodes' = nodes, tokens' = tokens,
         calls'["daemon"] = calls["daemon"], calls'["command"].pc = "idle",
         outcome = "ok" => Succeeds("command", command),
         left' = left \/ Spend("faults"), UNCHANGED <<disk, daemon>>
  PROVE  OrderOK' /\ (Sound => Sound')
<1> USE DEF OrderOK
<1>1. /\ AnsweredCommand(outcome)
      /\ command # NotRunning
      /\ command.stage = "register" <=> command.op = "register"
  BY AnsweredCommandIs
<1>2. \/ command' = NotRunning
      \/ /\ command'.op = command.op /\ ~command'.sent
         /\ command'.identity = command.identity
         /\ command'.stage \in {"heartbeat", "truncate"}
         /\ command.sent /\ calls["command"].pc = "ok"
         /\ \/ command.op = "register" /\ command'.stage = "truncate"
               /\ command'.copy.node = calls["command"].node
            \/ command.op # "register"
         /\ \/ /\ command.stage \in {"register", "refresh"}
               /\ command'.copy.token = calls["command"].token
               /\ command'.copy.left = calls["command"].left
            \/ /\ command.stage \notin {"register", "refresh"}
               /\ command'.copy = command.copy
  BY <1>1 DEF AnsweredCommand, Succeeds
<1>3. left'.commands = left.commands /\ left'.faults <= left.faults
  BY SpendIs, Numbers DEF TypesOK, TypeOK
<1>4. CommandsLeft' <= CommandsLeft /\ Slack' = Slack
  <2>1. left.commands \in Nat
    BY Numbers
  <2>2. CommandsLeft = left.commands + 1
    BY <1>1 DEF CommandsLeft
  <2>3. CommandsLeft' = left.commands + (IF command' = NotRunning THEN 0 ELSE 1)
    BY <1>3 DEF CommandsLeft
  <2>4. command.stage # "write" /\ command'.stage # "write"
    BY <1>2, NotRunningIs DEF Calling
  <2>5. Slack' = Slack
    BY <2>4 DEF Slack, Tight, Writing
  <2> QED
    BY <2>1, <2>2, <2>3, <2>5
<1>5. command'.op \in {"none", command.op} /\ ~command'.sent
  BY <1>2, NotRunningIs
<1>6. \A x : CommandBelow(command, calls["command"], x)
               => CommandBelow(command', calls'["command"], x)
  <2>1. CASE command' = NotRunning
    BY <2>1, BelowIs
  <2>2. CASE command' # NotRunning
    BY <1>1, <1>2, <2>2 DEF CommandBelow, Below
  <2> QED
    BY <2>1, <2>2
<1>7. UniqueIdentities'
  BY DEF UniqueIdentities
<1>8. Honest'
  <2>1. Readable(command'.copy) => Truthful(command'.copy, tokens)
    <3>1. CASE command' = NotRunning
      BY <3>1, NotRunningIs, ReadableIs
    <3>2. CASE command' # NotRunning
      BY <1>2, <3>2, Numbers DEF Honest, Truthful
    <3> QED
      BY <3>1, <3>2
  <2> QED
    BY <2>1, ClientAssumption DEF Honest
<1>9. InTime' /\ CallsOK'
  BY <1>5 DEF InTime, Refreshing, CallsOK
<1>10. Newcomer'
  <2>1. SUFFICES ASSUME command'.op = "register" /\ command'.stage \in Saving
                 PROVE  NewcomerIs(command.copy.node)'
    BY <1>5 DEF Newcomer
  <2>2. NewcomerIs(calls["command"].node)
    BY <1>1, <1>2, <2>1, NotRunningIs DEF Newcomer, Saving
  <2>3. /\ command'.identity = command.identity
        /\ command'.copy.node = calls["command"].node
    BY <1>2, <2>1, NotRunningIs DEF Saving
  <2>4. DaemonsTokens' = DaemonsTokens
    BY DEF DaemonsTokens, Refreshing, Running, Readable
  <2> QED
    BY <2>2, <2>3, <2>4 DEF NewcomerIs, Refreshing
<1>11. FilesOrdered'
  BY <1>6 DEF FilesOrdered
<1>12. Spending' /\ Chances' <= Chances
  BY <1>3, <1>4, <1>5, SpendingStill
<1>13. ASSUME Sound PROVE Sound'
  <2>1. DaemonLeft' = DaemonLeft
    BY DEF DaemonLeft
  <2>2. Good(daemon.token, daemon.identity, tokens, nodes) /\ Lasts => Lasts'
    <3>1. Slack' >= Slack
      BY <1>4, Numbers
    <3> QED
      BY <1>12, <2>1, <3>1, LastsStill
  <2>3. HoldsToken'
    BY <1>6, <1>13, <2>1, <2>2 DEF Sound, HoldsToken, Refreshing, Covered
  <2>4. Renews' /\ FileWhole'
    BY <1>13 DEF Sound, Renews, FileWhole, Refreshing, Calling
  <2> QED
    BY <1>13, <2>3, <2>4 DEF Sound
<1> QED
  BY <1>7, <1>8, <1>9, <1>10, <1>11, <1>12, <1>13

(* The command saves. *)
LEMMA CommandSaveKeeps ==
  ASSUME OrderOK, TypesOK', UNCHANGED <<coordVars, left, daemon>>,
         \/ Truncate(command) /\ command' = [command EXCEPT !.stage = "write"]
         \/ Write(command) /\ command' = NotRunning
  PROVE  OrderOK' /\ (Running /\ Sound /\ ~Excuse => Sound')
<1> USE DEF OrderOK
<1>1. /\ nodes' = nodes /\ tokens' = tokens /\ calls' = calls
      /\ daemon' = daemon /\ left' = left
  BY DEF coordVars
<1>2. disk \in Files /\ command \in Process /\ command # NotRunning
  BY NotRunningIs DEF TypesOK, TypeOK, Files, Truncate, Write
<1>3. command.stage \in Saving => command.copy # Absent
  BY DEF TypesOK, TypeOK, Saving
<1>4. /\ disk'.identity = disk.identity /\ disk'.wg = disk.wg
      /\ command.stage \in Saving /\ ~command.sent
      /\ command.op \notin {"none", "init"} /\ command.identity = disk.identity
      /\ command.copy \in SavedState
  <2>1. /\ disk'.identity = disk.identity /\ disk'.wg = disk.wg
        /\ command.stage \in Saving
    BY <1>2, <1>3, SavingTypes
  <2>2. ~command.sent
    BY <1>2, <2>1 DEF TypesOK, CommandOK, CallOf, Calling, Saving
  <2>3. command.op \notin {"none", "init"}
    BY <1>2, <2>1, ClientAssumption DEF TypesOK, CommandOK, Saving
  <2> QED
    BY <1>2, <1>3, <2>1, <2>2, <2>3 DEF TypesOK, CommandOK, Process
<1>5. \/ /\ command.stage = "truncate" /\ disk'.state = Torn
         /\ command'.stage = "write" /\ command'.op = command.op /\ ~command'.sent
         /\ command'.copy = command.copy /\ command'.identity = command.identity
         /\ command' # NotRunning
      \/ /\ command.stage = "write" /\ command' = NotRunning
         /\ disk'.state = Torn \/ disk'.state = command.copy
  BY <1>2, <1>4, NotRunningIs DEF Truncate, Write, Process, Files
<1>6. command'.op \in {"none", command.op} /\ ~command'.sent
  BY <1>5, NotRunningIs
<1>7. \A x : CommandBelow(command, calls["command"], x)
               => CommandBelow(command', calls'["command"], x)
  BY <1>1, <1>5, <1>6, BelowIs DEF CommandBelow
<1>8. \A x : CommandBelow(command, calls["command"], x) /\ command.op # "register"
               => Below(disk'.state, x)
  BY <1>5, BelowIs DEF CommandBelow
<1>9. /\ CommandsLeft \in Nat /\ CommandsLeft' \in Nat /\ CommandsLeft' <= CommandsLeft
      /\ command' = NotRunning => CommandsLeft' + 1 = CommandsLeft
  <2>1. /\ left.commands \in Nat /\ CommandsLeft = left.commands + 1
        /\ CommandsLeft' = left.commands + (IF command' = NotRunning THEN 0 ELSE 1)
    BY <1>1, <1>2, Numbers DEF CommandsLeft
  <2> QED
    BY <2>1
<1>10. UniqueIdentities'
  BY <1>1 DEF UniqueIdentities
<1>11. Honest'
  BY <1>1, <1>4, <1>5, NotRunningIs, ReadableIs DEF Honest
<1>12. InTime' /\ CallsOK'
  BY <1>1, <1>4, <1>6 DEF InTime, Refreshing, CallsOK
<1>13. Newcomer'
  <2>1. SUFFICES ASSUME command'.op = "register" PROVE NewcomerIs(command.copy.node)'
    BY <1>6 DEF Newcomer
  <2>2. NewcomerIs(command.copy.node) /\ command'.copy = command.copy
        /\ command'.identity = command.identity /\ disk'.state = Torn
    BY <1>4, <1>5, <2>1, NotRunningIs DEF Newcomer
  <2>3. DaemonsTokens' \subseteq DaemonsTokens
    BY <1>1, <2>2, ReadableIs DEF DaemonsTokens, Refreshing, Running, Readable
  <2> QED
    BY <1>1, <2>2, <2>3 DEF NewcomerIs, Refreshing
<1>14. FilesOrdered'
  <2>1. Readable(disk'.state) => command' = NotRunning
    BY <1>5, ReadableIs
  <2>2. Readable(daemon.copy) /\ Good(daemon.copy.token, disk.identity, tokens, nodes)
           => Below(disk'.state, tokens[daemon.copy.token].left)
    <3>1. CASE command.op # "register"
      BY <1>8, <3>1 DEF FilesOrdered
    <3>2. CASE command.op = "register" /\ Readable(daemon.copy)
               /\ Good(daemon.copy.token, disk.identity, tokens, nodes)
      <4>1. NewcomerIs(command.copy.node) /\ daemon.copy.token \in DaemonsTokens
        BY <1>4, <3>2 DEF Newcomer, DaemonsTokens
      <4>2. tokens[daemon.copy.token].node # command.copy.node
        BY <3>2, <4>1 DEF NewcomerIs, Good
      <4> QED
        BY <1>4, <3>2, <4>1, <4>2 DEF NewcomerIs, Owns, Good, UniqueIdentities
    <3> QED
      BY <3>1, <3>2
  <2> QED
    BY <1>1, <1>4, <1>7, <2>1, <2>2, BelowIs DEF FilesOrdered
<1>15. Spending'
  <2>1. Readable(disk'.state) => command' = NotRunning
    BY <1>5, ReadableIs
  <2>2. Budget.commands \in Nat /\ CommandsLeft + 1 <= Budget.commands
    BY <1>4, Numbers DEF Spending
  <2>3. CommandsLeft' + 1 <= Budget.commands /\ CommandsLeft' <= Budget.commands
    BY <1>9, <2>2
  <2>4. Readable(disk'.state) => CommandsLeft' + 2 <= Budget.commands
    BY <1>9, <2>1, <2>2
  <2>5. Running => CommandsLeft' + 2 <= Budget.commands
    BY <1>9, <2>2 DEF Spending
  <2> QED
    BY <1>1, <2>3, <2>4, <2>5 DEF Spending, Running
<1>16. ASSUME Running, Sound, ~Excuse PROVE Sound'
  <2>1. command.stage = "write" => command.op # "register" /\ disk'.state = command.copy
    BY <1>5, <1>16, NotRunningIs DEF Excuse, LosesState, Running
  <2>2. DaemonLeft' = DaemonLeft
    BY <1>1 DEF DaemonLeft
  <2>3. Good(daemon.token, daemon.identity, tokens, nodes) /\ Lasts => Lasts'
    <3>1. Tight' = Tight
      BY <1>1 DEF Tight
    <3>2. Writing = 0 \/ command' = NotRunning
      BY <1>5 DEF Writing
    <3>3. Slack' >= Slack \/ Chances' + 1 <= Chances
      <4>1. command' = NotRunning => Chances' + 1 = Chances
        BY <1>1, <1>9, Numbers DEF Chances
      <4>2. Writing = 0 => Slack' >= Slack
        BY <3>1, NextNumbers DEF Slack
      <4>3. Chances \in Nat
        BY Numbers
      <4> QED
        BY <3>2, <4>1, <4>2, <4>3
    <3>4. Chances' <= Chances
      BY <1>1, <1>9, Numbers DEF Chances
    <3> QED
      BY <2>2, <3>3, <3>4, LastsStill
  <2>4. CommandBelow(command, calls["command"], DaemonLeft) => Below(disk'.state, DaemonLeft)
    BY <1>5, <1>8, <2>1, BelowIs
  <2>5. HoldsToken'
    BY <1>1, <1>7, <1>16, <2>2, <2>3, <2>4 DEF Sound, HoldsToken, Refreshing, Covered
  <2>6. Renews' /\ FileWhole'
    BY <1>1, <1>4, <1>5, <1>16, <2>1, ReadableIs, NoFileAssumption
       DEF Sound, Renews, FileWhole, Refreshing
  <2> QED
    BY <1>16, <2>5, <2>6 DEF Sound
<1> QED
  BY <1>10, <1>11, <1>12, <1>13, <1>14, <1>15, <1>16

(* The command dies. *)
LEMMA KillCommandKeeps ==
  ASSUME OrderOK, TypesOK', KillCommand
  PROVE  OrderOK' /\ (Running /\ Sound /\ ~Excuse => Sound')
<1> USE DEF OrderOK
<1>1. /\ nodes' = nodes /\ tokens' = tokens /\ calls' = calls
      /\ disk' = disk /\ daemon' = daemon
      /\ command # NotRunning /\ command' = NotRunning
      /\ left'.commands = left.commands /\ left'.faults = left.faults - 1
  BY SpendIs DEF KillCommand, coordVars, TypesOK, TypeOK
<1>2. CommandsLeft' + 1 = CommandsLeft /\ Chances' + 1 <= Chances
  <2>1. left.commands \in Nat /\ left.faults \in Nat /\ left'.faults \in Nat
    BY Numbers, NextNumbers
  <2>2. CommandsLeft = left.commands + 1 /\ CommandsLeft' = left.commands
    BY <1>1, <2>1 DEF CommandsLeft
  <2> QED
    BY <1>1, <2>1, <2>2 DEF Chances
<1>3. CommandsLeft' <= CommandsLeft /\ left'.faults <= left.faults
  BY <1>1, <1>2, Numbers, NextNumbers
<1>4. Spending' /\ Chances' <= Chances
  BY <1>1, <1>3, NotRunningIs, SpendingStill
<1>5. UniqueIdentities' /\ Honest' /\ InTime'
  BY <1>1, NotRunningIs, ReadableIs
     DEF UniqueIdentities, Honest, InTime, Refreshing
<1>6. CallsOK' /\ Newcomer'
  BY <1>1, NotRunningIs DEF CallsOK, Newcomer, Saving
<1>7. FilesOrdered'
  BY <1>1, BelowIs DEF FilesOrdered
<1>8. ASSUME Running, Sound, ~Excuse PROVE Sound'
  <2>1. DaemonLeft' = DaemonLeft
    BY <1>1 DEF DaemonLeft
  <2>2. Good(daemon.token, daemon.identity, tokens, nodes) /\ Lasts => Lasts'
    BY <1>2, <1>4, <2>1, LastsStill
  <2>3. HoldsToken'
    BY <1>1, <1>8, <2>1, <2>2, BelowIs DEF Sound, HoldsToken, Refreshing, Covered
  <2>4. Renews'
    BY <1>1, <1>8 DEF Sound, Renews, Refreshing
  <2>5. FileWhole'
    <3>1. command.stage = "write" => disk.state # Torn
      BY <1>1, <1>8, NotRunningIs DEF Excuse, LosesState, Running
    <3> QED
      BY <1>1, <1>8, <3>1 DEF Sound, FileWhole, Readable
  <2> QED
    BY <1>8, <2>3, <2>4, <2>5 DEF Sound
<1> QED
  BY <1>4, <1>5, <1>6, <1>7, <1>8

-----------------------------------------------------------------------------
(* The steps of the daemon. *)

(* Nothing lasts longer than a new token. *)
LEMMA BelowTTL ==
  ASSUME TypesOK
  PROVE  /\ Below(disk.state, TTL) /\ Below(daemon.copy, TTL)
         /\ CommandBelow(command, calls["command"], TTL)
<1>1. \A s \in SavedState \cup {Absent, Torn} : Below(s, TTL)
  BY Numbers, ReadableIs DEF Below
<1>2. /\ disk.state \in SavedState \cup {Absent, Torn}
      /\ daemon.copy \in SavedState \cup {Absent}
      /\ command.copy \in SavedState \cup {Absent}
  BY DEF TypesOK, TypeOK, Process
<1>3. calls["command"].left <= TTL
  BY Numbers
<1> QED
  BY <1>1, <1>2, <1>3 DEF CommandBelow

(* The daemon starts with a token that is good and not about to expire. *)
LEMMA StartUpKeeps ==
  ASSUME OrderOK, TypesOK', StartUp
  PROVE  OrderOK' /\ (~Unfit(disk.state, disk.identity)
                      /\ GRACE + 1 >= Budget.faults + Budget.commands => Sound')
<1> USE DEF OrderOK
<1>1. /\ nodes' = nodes /\ tokens' = tokens /\ calls' = calls
      /\ disk' = disk /\ command' = command
      /\ daemon'.stage = "peers" /\ ~daemon'.sent /\ daemon'.copy = disk.state
      /\ daemon'.token = disk.state.token /\ daemon'.identity = disk.identity
      /\ left'.faults = left.faults /\ left'.commands = left.commands
      /\ Readable(disk.state)
  BY StartUpIs DEF coordVars
<1>2. CommandsLeft' = CommandsLeft /\ CommandsLeft + 2 <= Budget.commands
  BY <1>1 DEF CommandsLeft, Spending
<1>3. disk.state \in SavedState
  BY <1>1, ReadableIs DEF TypesOK, TypeOK
<1>4. Truthful(disk.state, tokens)
  BY <1>1 DEF Honest
<1>5. UniqueIdentities' /\ Honest' /\ InTime' /\ CallsOK'
  BY <1>1 DEF UniqueIdentities, Honest, InTime, Refreshing, CallsOK
<1>6. Newcomer'
  <2>1. DaemonsTokens' \subseteq DaemonsTokens
    BY <1>1 DEF DaemonsTokens, Refreshing, Readable, Running
  <2> QED
    BY <1>1, <2>1 DEF Newcomer, NewcomerIs, Refreshing
<1>7. FilesOrdered'
  BY <1>1, <1>4 DEF FilesOrdered, Truthful, Good, Below
<1>8. Spending'
  BY <1>1, <1>2 DEF Spending, Running
<1>9. ASSUME ~Unfit(disk.state, disk.identity),
             GRACE + 1 >= Budget.faults + Budget.commands
      PROVE  Sound'
  <2> DEFINE t == disk.state.token
             l == tokens[t].left
  <2>1. /\ Good(t, disk.identity, tokens, nodes) /\ ~(disk.state.left <= GRACE)
        /\ disk.state.left \in 0..TTL
    BY <1>3, <1>9, GoodIs, Numbers DEF Unfit
  <2>2. l \in 0..TTL /\ disk.state.left <= l
    BY <1>4, <2>1, Numbers DEF Truthful, Good
  <2>3. GRACE < TTL /\ l >= GRACE + 1
    BY <2>1, <2>2, Numbers
  <2>4. DaemonLeft' = l
    BY <1>1 DEF DaemonLeft
  <2>5. Chances' <= Budget.faults + Budget.commands - 2
    <3>1. left.faults <= Budget.faults
      BY DEF Spending
    <3> QED
      BY <1>1, <1>2, <3>1, Numbers DEF Chances
  <2>6. Lasts'
    <3>1. l >= Margin + 1 + Chances'
      BY <2>2, <2>3, <2>5, Numbers, NextNumbers DEF Margin
    <3> QED
      BY <2>2, <2>4, <3>1, Numbers, NextNumbers DEF Lasts
  <2>7. Covered'
    <3>1. CommandBelow(command, calls["command"], l)
      BY <1>1, <2>1 DEF FilesOrdered
    <3>2. Below(disk.state, l)
      BY <2>2 DEF Below
    <3> HIDE DEF l, t
    <3> QED
      BY <1>1, <2>4, <3>1, <3>2 DEF Covered
  <2>8. HoldsToken'
    BY <1>1, <2>1, <2>6, <2>7 DEF HoldsToken
  <2>9. Renews' /\ FileWhole'
    BY <1>1, ReadableIs DEF Renews, Refreshing, FileWhole
  <2> QED
    BY <2>3, <2>8, <2>9 DEF Sound
<1> QED
  BY <1>5, <1>6, <1>7, <1>8, <1>9

(* The daemon asks. *)
LEMMA DaemonSendsKeeps ==
  ASSUME OrderOK, TypesOK', Sent("daemon", daemon), daemon.stage \in Calling,
         AfterDaemon("sent"), UNCHANGED <<disk, command>>
  PROVE  OrderOK' /\ (Sound => Sound')
<1> USE DEF OrderOK
<1>1. /\ daemon \in Process /\ "command" \in Call /\ "daemon" \in Call
      /\ daemon.stage \in {"peers", "first heartbeat", "heartbeat", "refresh"}
  BY NotRunningIs, ClientAssumption DEF TypesOK, TypeOK, DaemonOK, Saving, Calling
<1>2. /\ nodes' = nodes /\ tokens' = tokens /\ calls'["command"] = calls["command"]
      /\ calls'["daemon"].pc \in Sections(daemon.stage) \cup {"error"}
      /\ daemon.stage = "refresh" =>
            /\ calls'["daemon"].pc = "revoke" /\ calls'["daemon"].left = TTL
            /\ calls'["daemon"].node = tokens[daemon.token].node
            /\ Authentic(daemon.token, daemon.identity)
  <2>1. Requested("daemon", daemon) /\ TokensTyped /\ CallsTyped
    BY DEF Sent, TypesOK
  <2>2. daemon.stage = "register" => daemon.identity \in Identity /\ daemon.wg \in WgKey
    BY <1>1
  <2>3. \A d \in Call : d # "daemon" => calls'[d] = calls[d]
    BY <1>1, <2>1, <2>2, RequestedIs
  <2>4. /\ nodes' = nodes /\ tokens' = tokens
        /\ calls'["daemon"].pc \in Sections(daemon.stage) \cup {"error"}
    BY <1>1, <2>1, <2>2, RequestedIs
  <2>5. daemon.stage = "refresh" =>
            /\ calls'["daemon"].pc = "revoke" /\ calls'["daemon"].left = TTL
            /\ calls'["daemon"].node = tokens[daemon.token].node
            /\ Authentic(daemon.token, daemon.identity)
    BY <1>1, <2>1, <2>2, RequestedIs
  <2> QED
    BY <1>1, <2>3, <2>4, <2>5
<1>3. /\ daemon'.sent /\ daemon'.stage = daemon.stage /\ daemon'.copy = daemon.copy
      /\ daemon'.token = daemon.token /\ daemon'.identity = daemon.identity
      /\ ~daemon.sent /\ left' = left
  <2>1. daemon' = [daemon EXCEPT !.sent = TRUE]
    BY DEF AfterDaemon
  <2> QED
    BY <1>1, <2>1 DEF Process, Sent
<1>4. calls'["daemon"].pc \in {"list", "update", "revoke", "error"}
  BY <1>1, <1>2 DEF Sections
<1>5. Chances' = Chances /\ CommandsLeft' = CommandsLeft /\ Slack' = Slack
  BY <1>2, <1>3 DEF Chances, CommandsLeft, Slack, Tight, Writing
<1>6. UniqueIdentities'
  BY <1>2 DEF UniqueIdentities
<1>7. Honest'
  BY <1>2, <1>3, <1>4, ClientAssumption DEF Honest
<1>8. InTime' /\ CallsOK'
  BY <1>2, <1>3, <1>4 DEF InTime, Refreshing, CallsOK
<1>9. Newcomer'
  <2>1. DaemonsTokens' \subseteq DaemonsTokens
    BY <1>3, <1>4 DEF DaemonsTokens, Refreshing, Readable, Running
  <2>2. daemon.token \in DaemonsTokens
    BY <1>1 DEF DaemonsTokens, Refreshing, Running
  <2>3. daemon.stage = "refresh" => daemon.token \in DOMAIN tokens
    BY <1>2 DEF Authentic, Active
  <2> QED
    BY <1>2, <1>3, <2>1, <2>2, <2>3 DEF Newcomer, NewcomerIs, Refreshing
<1>10. FilesOrdered'
  BY <1>2, <1>3 DEF FilesOrdered
<1>11. Spending'
  BY <1>3, <1>5 DEF Spending, Running
<1>12. ASSUME Sound PROVE Sound'
  <2>1. DaemonLeft' = DaemonLeft /\ Margin' = Margin
    BY <1>2, <1>3 DEF DaemonLeft, Margin
  <2>2. Good(daemon.token, daemon.identity, tokens, nodes) /\ Lasts /\ Covered
    BY <1>3, <1>12 DEF Sound, HoldsToken, Refreshing
  <2>3. HoldsToken'
    BY <1>2, <1>3, <1>5, <2>1, <2>2 DEF HoldsToken, Lasts, Covered
  <2>4. daemon.stage = "refresh" => Owns(calls'["daemon"].node, daemon.identity, nodes)
    BY <1>2, <2>2 DEF Owns, Good
  <2>5. Renews'
    BY <1>2, <1>3, <2>4 DEF Renews, Refreshing
  <2>6. FileWhole'
    BY <1>3, <1>12 DEF Sound, FileWhole
  <2> QED
    BY <1>12, <2>3, <2>5, <2>6 DEF Sound
<1> QED
  BY <1>6, <1>7, <1>8, <1>9, <1>10, <1>11, <1>12

(* The daemon dies. *)
LEMMA KillDaemonKeeps ==
  ASSUME OrderOK, TypesOK', daemon' = NotRunning, nodes' = nodes, tokens' = tokens,
         calls'["command"] = calls["command"],
         calls' = calls \/ calls'["daemon"].pc = "idle",
         left' = left \/ Spend("faults"), UNCHANGED <<disk, command>>
  PROVE  OrderOK' /\ ~Running'
<1> USE DEF OrderOK
<1>1. left'.commands = left.commands /\ left'.faults <= left.faults
  BY SpendIs, Numbers DEF TypesOK, TypeOK
<1>2. CommandsLeft' = CommandsLeft
  BY <1>1 DEF CommandsLeft
<1>3. UniqueIdentities' /\ InTime' /\ CallsOK' /\ ~Running'
  BY NotRunningIs DEF UniqueIdentities, InTime, Refreshing, CallsOK, Running
<1>4. Honest'
  BY NotRunningIs, ReadableIs, ClientAssumption DEF Honest
<1>5. Newcomer'
  <2>1. DaemonsTokens' \subseteq DaemonsTokens
    BY NotRunningIs, ReadableIs DEF DaemonsTokens, Refreshing, Readable, Running
  <2> QED
    BY <2>1, NotRunningIs DEF Newcomer, NewcomerIs, Refreshing
<1>6. FilesOrdered'
  BY NotRunningIs, ReadableIs DEF FilesOrdered
<1>7. Spending'
  <2>1. left'.faults \in Nat /\ left.faults \in Nat /\ Budget.faults \in Nat
    BY Numbers, NextNumbers
  <2> QED
    BY <1>1, <1>2, <1>3, <2>1 DEF Spending
<1> QED
  BY <1>3, <1>4, <1>5, <1>6, <1>7

(* The heartbeat task looks into state.json: a token of which it is told that it
   lasts longer does last longer, and if there is nothing to read a command is
   writing. *)
LEMMA WakeKeeps ==
  ASSUME OrderOK, Wake, UNCHANGED command, excused' \in BOOLEAN,
         GRACE + 1 >= Budget.faults + Budget.commands
  PROVE  OrderOK' /\ (Sound => Sound')
<1> USE DEF OrderOK
<1>1. /\ nodes' = nodes /\ tokens' = tokens /\ calls' = calls
      /\ disk' = disk /\ command' = command /\ left' = left
      /\ daemon.stage = "due" /\ ~daemon'.sent /\ TypesOK'
      /\ daemon'.token = daemon.token /\ daemon'.identity = daemon.identity
      /\ daemon'.copy = daemon.copy
      /\ daemon'.stage = IF Readable(disk.state) /\ IsTokenExpiredSoon(disk.state)
                         THEN "refresh" ELSE "heartbeat"
  BY WakeTypes DEF coordVars
<1>2. CommandsLeft' = CommandsLeft /\ Chances' = Chances /\ Writing' = Writing
  BY <1>1 DEF CommandsLeft, Chances, Writing
<1>3. UniqueIdentities' /\ Honest' /\ InTime' /\ CallsOK'
  BY <1>1 DEF UniqueIdentities, Honest, InTime, Refreshing, CallsOK
<1>4. Newcomer'
  <2>1. DaemonsTokens' \subseteq DaemonsTokens
    BY <1>1 DEF DaemonsTokens, Refreshing, Readable, Running
  <2> QED
    BY <1>1, <2>1 DEF Newcomer, NewcomerIs, Refreshing
<1>5. FilesOrdered'
  BY <1>1 DEF FilesOrdered
<1>6. Spending'
  BY <1>1, <1>2 DEF Spending, Running
<1>7. ASSUME Sound PROVE Sound'
  <2>1. Good(daemon.token, daemon.identity, tokens, nodes) /\ Lasts /\ Covered
    BY <1>1, <1>7 DEF Sound, HoldsToken, Refreshing
  <2>2. DaemonLeft' = DaemonLeft /\ DaemonLeft \in 0..TTL
    BY <1>1, <2>1, Numbers DEF DaemonLeft, Good
  <2>3. Lasts'
    <3>1. Slack = 1
      BY <1>1 DEF Slack, Tight
    <3>2. CASE daemon'.stage = "refresh"
      <4>1. Slack' = 1
        BY <1>1, <3>2 DEF Slack, Tight
      <4> QED
        BY <1>2, <2>1, <2>2, <3>1, <4>1, NextNumbers DEF Lasts
    <3>3. CASE daemon'.stage = "heartbeat"
      <4>1. Slack' = Writing
        BY <1>2, <3>3 DEF Slack, Tight
      <4>2. CASE Readable(disk.state)
        <5>1. ~(disk.state.left <= GRACE) /\ disk.state.left <= DaemonLeft
          BY <1>1, <2>1, <3>3, <4>2 DEF IsTokenExpiredSoon, Covered, Below
        <5>2. disk.state.left \in 0..TTL
          BY <4>2, ReadableIs, Numbers DEF TypesOK, TypeOK
        <5>3. left.faults <= Budget.faults /\ CommandsLeft + 2 <= Budget.commands
          BY <4>2 DEF Spending
        <5>4. DaemonLeft >= Margin + 1 + Chances
          BY <2>2, <5>1, <5>2, <5>3, Numbers DEF Chances, Margin
        <5> QED
          BY <1>2, <2>2, <4>1, <5>4, Numbers, NextNumbers DEF Lasts
      <4>3. CASE ~Readable(disk.state)
        <5>1. Writing = 1
          BY <1>1, <1>7, <4>3 DEF Sound, FileWhole, Writing
        <5> QED
          BY <1>2, <2>1, <2>2, <3>1, <4>1, <5>1, NextNumbers DEF Lasts
      <4> QED
        BY <4>2, <4>3
    <3> QED
      BY <1>1, <3>2, <3>3
  <2>4. HoldsToken'
    BY <1>1, <2>1, <2>2, <2>3 DEF HoldsToken, Covered
  <2>5. Renews' /\ FileWhole'
    BY <1>1, <1>7 DEF Sound, Renews, Refreshing, FileWhole
  <2> QED
    BY <1>7, <2>4, <2>5 DEF Sound
<1> QED
  BY <1>1, <1>3, <1>4, <1>5, <1>6, <1>7

(* The daemon saves. *)
LEMMA DaemonSaveKeeps ==
  ASSUME OrderOK, TypesOK', UNCHANGED <<coordVars, left, command>>,
         \/ Truncate(daemon) /\ daemon' = [daemon EXCEPT !.stage = "write"]
         \/ Write(daemon) /\ daemon' = [daemon EXCEPT !.stage = daemon.then,
                                                      !.copy = Absent]
  PROVE  OrderOK' /\ (Running /\ Sound /\ ~Excuse => Sound')
<1> USE DEF OrderOK
<1>1. /\ nodes' = nodes /\ tokens' = tokens /\ calls' = calls
      /\ command' = command /\ left' = left
  BY DEF coordVars
<1>2. disk \in Files /\ daemon \in Process
  BY DEF TypesOK, TypeOK, Files
<1>3. daemon.stage \in Saving => daemon.copy # Absent
  BY DEF TypesOK, TypeOK, Saving
<1>4. /\ disk'.identity = disk.identity /\ disk'.wg = disk.wg /\ daemon.stage \in Saving
  BY <1>2, <1>3, SavingTypes
<1>5. /\ ~daemon.sent /\ daemon.then \in {"heartbeat", "asleep"}
      /\ Readable(daemon.copy) /\ daemon # NotRunning /\ Running
      /\ daemon.copy # Absent
  BY <1>3, <1>4, NotRunningIs DEF TypesOK, DaemonOK, CallOf, Running, Calling, Saving
<1>6. /\ daemon'.token = daemon.token /\ daemon'.identity = daemon.identity
      /\ ~daemon'.sent
      /\ \/ /\ daemon.stage = "truncate" /\ disk'.state = Torn
            /\ daemon'.stage = "write" /\ daemon'.copy = daemon.copy
         \/ /\ daemon.stage = "write" /\ daemon'.stage \in {"heartbeat", "asleep"}
            /\ daemon'.copy = Absent
            /\ disk'.state = Torn \/ disk'.state = daemon.copy
  BY <1>2, <1>5 DEF Truncate, Write, Process, Files
<1>7. /\ Readable(daemon'.copy) => daemon'.copy = daemon.copy /\ disk'.state = Torn
      /\ Readable(disk'.state) => disk'.state = daemon.copy
  BY <1>6, ReadableIs
<1>8. CommandsLeft' = CommandsLeft /\ Chances' = Chances /\ Slack' = Slack
  BY <1>1, <1>4, <1>6 DEF CommandsLeft, Chances, Slack, Tight, Writing, Saving
<1>9. UniqueIdentities' /\ InTime' /\ CallsOK'
  BY <1>1, <1>6 DEF UniqueIdentities, InTime, Refreshing, CallsOK
<1>10. Honest'
  BY <1>1, <1>5, <1>7 DEF Honest
<1>11. Newcomer'
  <2>1. DaemonsTokens' \subseteq DaemonsTokens
    BY <1>1, <1>5, <1>6, <1>7 DEF DaemonsTokens, Refreshing, Running
  <2> QED
    BY <1>1, <1>6, <2>1 DEF Newcomer, NewcomerIs, Refreshing
<1>12. FilesOrdered'
  BY <1>1, <1>4, <1>5, <1>7, BelowIs DEF FilesOrdered
<1>13. Spending'
  BY <1>1, <1>4, <1>5, <1>8 DEF Spending
<1>14. ASSUME Sound, ~Excuse PROVE Sound'
  <2>1. daemon.stage = "write" => disk'.state = daemon.copy
    BY <1>5, <1>6, <1>14 DEF Excuse, LosesState
  <2>2. DaemonLeft' = DaemonLeft /\ Margin' = Margin
    BY <1>1, <1>6 DEF DaemonLeft, Margin
  <2>3. Good(daemon.token, daemon.identity, tokens, nodes) /\ Lasts /\ Covered
    BY <1>5, <1>14 DEF Sound, HoldsToken, Refreshing
  <2>4. Covered'
    <3>1. Below(disk'.state, DaemonLeft) /\ Below(daemon'.copy, DaemonLeft)
      BY <1>6, <2>1, <2>3, BelowIs DEF Covered
    <3> QED
      BY <1>1, <2>2, <2>3, <3>1 DEF Covered
  <2>5. HoldsToken'
    BY <1>1, <1>6, <1>8, <2>2, <2>3, <2>4 DEF HoldsToken, Lasts
  <2>6. Renews' /\ FileWhole'
    BY <1>1, <1>5, <1>6, <1>14, <2>1, NoFileAssumption
       DEF Sound, Renews, Refreshing, FileWhole
  <2> QED
    BY <1>14, <2>5, <2>6 DEF Sound
<1> QED
  BY <1>9, <1>10, <1>11, <1>12, <1>13, <1>14

(* The daemon has its answer. *)
LEMMA DaemonAnswerKeeps ==
  ASSUME OrderOK, TypesOK', NEW outcome \in {"ok", "error"}, AfterDaemon(outcome),
         daemon.stage \in Calling, nodes' = nodes, tokens' = tokens,
         calls'["command"] = calls["command"], calls'["daemon"].pc = "idle",
         outcome = "ok" => Succeeds("daemon", daemon),
         outcome = "error" => Fails("daemon", daemon),
         UNCHANGED <<disk, command>>, daemon' # NotRunning,
         GRACE + 1 >= Budget.faults + Budget.commands
  PROVE  OrderOK' /\ (Sound /\ ~Excuse => Sound')
<1> USE DEF OrderOK
<1> DEFINE call == calls["daemon"]
           Renewed == daemon.stage = "refresh" /\ outcome = "ok"
<1>1. /\ AnsweredDaemon(outcome) /\ ~daemon'.sent /\ daemon'.identity = daemon.identity
      /\ Running /\ daemon # NotRunning
      /\ daemon.stage \in {"peers", "first heartbeat", "heartbeat", "refresh"}
  BY AnsweredDaemonIs, NotRunningIs
     DEF TypesOK, DaemonOK, Running, Saving, Calling
<1>2. Renewed => /\ Refreshing /\ daemon.sent /\ call.pc = "ok" /\ call.left = TTL
                 /\ Truthful(call, tokens) /\ call.token \in Token
                 /\ left' = left
  <2>1. Renewed => Refreshing /\ daemon.sent /\ call.pc = "ok" /\ left' = left
    BY DEF Succeeds, Refreshing
  <2>2. Renewed => call.left = TTL
    BY <2>1 DEF InTime
  <2>3. Renewed => Truthful(call, tokens)
    BY <2>1, Numbers DEF Honest
  <2>4. Renewed => call.token \in Token
    BY <2>1 DEF TypesOK, DaemonOK, CallOf
  <2> QED
    BY <2>1, <2>2, <2>3, <2>4
<1>3. /\ Renewed => daemon'.token = call.token
      /\ ~Renewed => daemon'.token = daemon.token
      /\ daemon'.stage \in {"first heartbeat", "truncate", "heartbeat", "asleep"}
  BY <1>1 DEF AnsweredDaemon
<1>4. Readable(daemon'.copy) =>
         \/ daemon'.copy = daemon.copy /\ Readable(daemon.copy) /\ ~Renewed
         \/ daemon'.copy = disk.state /\ Readable(disk.state) /\ ~Renewed
         \/ /\ Renewed /\ daemon'.copy.token = call.token
            /\ daemon'.copy.left = call.left
  <2>1. CASE Renewed
    <3>1. CASE Readable(disk.state)
      <4>1. disk.state \in SavedState /\ "daemon" \in Call /\ call.left \in 0..TTL
        BY <3>1, ReadableIs, Numbers DEF TypesOK, TypeOK
      <4>2. daemon'.copy = Issued(disk.state, "daemon")
        BY <1>1, <2>1, <3>1 DEF AnsweredDaemon
      <4> QED
        BY <1>2, <2>1, <4>1, <4>2, IssuedIs
    <3>2. CASE ~Readable(disk.state)
      BY <1>1, <2>1, <3>2, ReadableIs DEF AnsweredDaemon
    <3> QED
      BY <3>1, <3>2
  <2>2. CASE ~Renewed
    BY <1>1, <2>2, ReadableIs DEF AnsweredDaemon
  <2> QED
    BY <2>1, <2>2
<1>5. left'.commands = left.commands /\ left'.faults <= left.faults
  <2>1. left' = left \/ Spend("faults")
    BY DEF Succeeds, Fails
  <2> QED
    BY <2>1, SpendIs, Numbers DEF TypesOK, TypeOK
<1>6. CommandsLeft' = CommandsLeft /\ Writing' = Writing /\ Chances' <= Chances
  <2>1. CommandsLeft' = CommandsLeft /\ Writing' = Writing
    BY <1>5 DEF CommandsLeft, Writing
  <2> QED
    BY <1>5, <2>1, Numbers, NextNumbers DEF Chances
<1> HIDE DEF call, Renewed
<1>7. UniqueIdentities'
  BY DEF UniqueIdentities
<1>8. Honest'
  <2>1. Readable(daemon'.copy) => Truthful(daemon'.copy, tokens)
    BY <1>2, <1>4 DEF Honest, Truthful
  <2> QED
    BY <2>1, ClientAssumption DEF Honest
<1>9. InTime' /\ CallsOK'
  BY <1>1 DEF InTime, Refreshing, CallsOK
<1>10. Newcomer'
  <2>1. DaemonsTokens' \subseteq DaemonsTokens
    <3>1. daemon'.token \in DaemonsTokens
      BY <1>1, <1>2, <1>3 DEF DaemonsTokens, call
    <3>2. Readable(disk.state) => disk.state.token \in DaemonsTokens
      BY DEF DaemonsTokens
    <3>3. Readable(daemon'.copy) => daemon'.copy.token \in DaemonsTokens
      BY <1>2, <1>4 DEF DaemonsTokens, call
    <3> QED
      BY <1>1, <3>1, <3>2, <3>3 DEF DaemonsTokens, Refreshing, Readable
  <2> QED
    BY <1>1, <2>1 DEF Newcomer, NewcomerIs, Refreshing
<1>11. FilesOrdered'
  <2>1. ASSUME Readable(daemon'.copy),
               Good(daemon'.copy.token, disk.identity, tokens, nodes)
        PROVE  /\ CommandBelow(command, calls["command"], tokens[daemon'.copy.token].left)
               /\ Below(disk.state, tokens[daemon'.copy.token].left)
    <3>1. CASE daemon'.copy = daemon.copy /\ Readable(daemon.copy)
      BY <2>1, <3>1 DEF FilesOrdered
    <3>2. CASE daemon'.copy = disk.state
      <4>1. Below(disk.state, tokens[disk.state.token].left)
        BY <2>1, <3>2 DEF Honest, Truthful, Good, Below
      <4> QED
        BY <2>1, <3>2, <4>1 DEF FilesOrdered
    <3>3. CASE Renewed /\ daemon'.copy.token = call.token
      <4>1. tokens[call.token].left = TTL
        BY <1>2, <2>1, <3>3, Numbers DEF Truthful, Good
      <4> QED
        BY <3>3, <4>1, BelowTTL
    <3> QED
      BY <1>4, <2>1, <3>1, <3>2, <3>3
  <2> QED
    BY <2>1 DEF FilesOrdered
<1>12. Spending'
  <2>1. left'.faults <= Budget.faults
    BY <1>5, Numbers, NextNumbers DEF Spending
  <2> QED
    BY <1>1, <1>6, <2>1 DEF Spending
<1>13. ASSUME Sound, ~Excuse PROVE Sound'
  <2>1. Slack' = Writing
    BY <1>3, <1>6 DEF Slack, Tight
  <2>2. CASE Renewed
    <3>1. Good(call.token, daemon.identity, tokens, nodes)
      BY <1>2, <1>13, <2>2 DEF Sound, Renews, call
    <3>2. DaemonLeft' = TTL
      <4>1. call.token \in DOMAIN tokens
        BY <3>1 DEF Good
      <4>2. TTL <= tokens[call.token].left
        BY <1>2, <2>2, <4>1 DEF Truthful
      <4>3. TTL \in Nat /\ tokens[call.token].left \in 0..TTL
        BY <4>1, Numbers
      <4>4. tokens[call.token].left = TTL
        BY <4>2, <4>3
      <4> QED
        BY <1>3, <2>2, <4>4 DEF DaemonLeft
    <3>3. Lasts'
      <4>1. /\ CommandsLeft + 2 <= Budget.commands /\ left.faults <= Budget.faults
            /\ left' = left
        BY <1>1, <1>2, <2>2 DEF Spending
      <4>2. Chances' <= Budget.faults + Budget.commands - 2
        BY <1>6, <4>1, Numbers, NextNumbers DEF Chances
      <4>3. GRACE < TTL
        BY <1>13 DEF Sound
      <4>4. TTL >= Margin + 1 + Chances'
        BY <4>2, <4>3, Numbers, NextNumbers DEF Margin
      <4> QED
        BY <2>1, <3>2, <4>4, Numbers, NextNumbers DEF Lasts
    <3>4. Below(daemon'.copy, TTL)
      BY <1>2, <1>4, <2>2, Numbers DEF Below
    <3>5. Covered'
      BY <3>2, <3>4, BelowTTL DEF Covered
    <3>6. HoldsToken'
      BY <1>1, <1>3, <2>2, <3>1, <3>3, <3>5 DEF HoldsToken
    <3>7. Renews' /\ FileWhole'
      BY <1>1, <1>2, <1>13, <2>2 DEF Sound, Renews, Refreshing, FileWhole
    <3> QED
      BY <1>13, <3>6, <3>7 DEF Sound
  <2>3. CASE ~Renewed
    <3>1. /\ Good(daemon.token, daemon.identity, tokens, nodes) /\ Lasts /\ Covered
          /\ Slack = Writing \/ Chances' + 1 <= Chances
      <4>1. CASE daemon.stage # "refresh"
        <5>1. Slack = Writing
          BY <1>1, <4>1 DEF Slack, Tight
        <5> QED
          BY <1>13, <4>1, <5>1 DEF Sound, HoldsToken, Refreshing
      <4>2. CASE daemon.stage = "refresh" /\ outcome = "error"
        <5>1. daemon'.token = daemon.token
          BY <1>3, <2>3
        <5>2. ~Refreshing => Good(daemon.token, daemon.identity, tokens, nodes)
          BY <1>13 DEF Sound, HoldsToken
        <5>3. ~(~daemon.sent /\ Refused(daemon))
          BY <4>2, <5>2, GoodIs DEF Refused, Refreshing
        <5>4. ~(daemon.sent /\ call.pc \in {"ok", "error"})
          <6>1. ~(daemon.sent /\ call.pc = "error")
            BY <1>13, <4>2 DEF Sound, Renews, Refreshing, call
          <6>2. ~(daemon.sent /\ call.pc = "ok")
            BY <1>13, <4>2, <5>1 DEF Excuse, LosesToken, call
          <6> QED
            BY <6>1, <6>2
        <5>5. \/ ~daemon.sent /\ Spend("faults")
              \/ daemon.sent /\ call.pc = "idle"
          BY <4>2, <5>3, <5>4 DEF Fails, call
        <5>6. Good(daemon.token, daemon.identity, tokens, nodes) /\ Lasts /\ Covered
          BY <1>13, <5>5 DEF Sound, HoldsToken, Refreshing, call
        <5>7. CASE ~daemon.sent /\ Spend("faults")
          <6>1. left'.faults = left.faults - 1 /\ left.faults \in Nat
            BY <5>7, SpendIs, Numbers DEF TypesOK, TypeOK
          <6>2. Chances' + 1 <= Chances
            BY <1>6, <6>1, Numbers DEF Chances
          <6> QED
            BY <5>6, <6>2
        <5>8. CASE daemon.sent /\ call.pc = "idle"
          <6>1. Slack = Writing
            BY <4>2, <5>8 DEF Slack, Tight, call
          <6> QED
            BY <5>6, <6>1
        <5> QED
          BY <5>5, <5>7, <5>8
      <4> QED
        BY <2>3, <4>1, <4>2 DEF Renewed
    <3>2. DaemonLeft' = DaemonLeft
      BY <1>3, <2>3 DEF DaemonLeft
    <3>3. Lasts'
      <4>1. Slack' >= Slack \/ Chances' + 1 <= Chances
        BY <2>1, <3>1, Numbers
      <4> QED
        BY <1>6, <3>1, <3>2, <4>1, LastsStill
    <3>4. Covered'
      <4>1. Below(daemon'.copy, DaemonLeft)
        BY <1>4, <2>3, <3>1 DEF Covered, Below
      <4> QED
        BY <3>1, <3>2, <4>1 DEF Covered
    <3>5. HoldsToken'
      BY <1>1, <1>3, <2>3, <3>1, <3>3, <3>4 DEF HoldsToken
    <3>6. Renews' /\ FileWhole'
      BY <1>1, <1>13 DEF Sound, Renews, Refreshing, FileWhole
    <3> QED
      BY <1>13, <3>5, <3>6 DEF Sound
  <2> QED
    BY <2>2, <2>3
<1> QED
  BY <1>7, <1>8, <1>9, <1>10, <1>11, <1>12, <1>13

-----------------------------------------------------------------------------
(* The steps of the rest of the world. *)

(* An answer nobody waits for. *)
LEMMA UnclaimedKeeps ==
  ASSUME OrderOK, Unclaimed, excused' \in BOOLEAN
  PROVE  OrderOK' /\ (Running /\ Sound => Sound')
<1> USE DEF OrderOK
<1>1. PICK c \in {"daemon", "command"} :
               /\ calls[c].pc \in {"ok", "error"} /\ calls'[c] = Idle
               /\ \A d \in Call : d # c => calls'[d] = calls[d]
               /\ c = "daemon" => ~daemon.sent
               /\ c = "command" => ~command.sent
  BY UnclaimedTypes
<1>2. /\ TypesOK' /\ nodes' = nodes /\ tokens' = tokens
      /\ disk' = disk /\ daemon' = daemon /\ command' = command /\ left' = left
  BY UnclaimedTypes
<1>3. "daemon" \in Call /\ "command" \in Call /\ Idle.pc = "idle"
  BY ClientAssumption, AnsweredIs
<1>4. /\ daemon.sent => calls'["daemon"] = calls["daemon"]
      /\ command.sent => calls'["command"] = calls["command"]
      /\ \A d \in Call : calls'[d] = calls[d] \/ calls'[d] = Idle
      /\ Running => calls'["daemon"] = calls["daemon"]
  BY <1>1, <1>3 DEF TypesOK, DaemonOK
<1>5. UniqueIdentities' /\ Honest'
  BY <1>2, <1>3, <1>4 DEF UniqueIdentities, Honest
<1>6. InTime' /\ CallsOK'
  BY <1>2, <1>3, <1>4 DEF InTime, Refreshing, CallsOK
<1>7. Newcomer'
  <2>1. DaemonsTokens' \subseteq DaemonsTokens
    BY <1>2, <1>3, <1>4 DEF DaemonsTokens, Refreshing, Readable, Running
  <2> QED
    BY <1>2, <1>4, <2>1 DEF Newcomer, NewcomerIs, Refreshing
<1>8. FilesOrdered'
  BY <1>2, <1>4 DEF FilesOrdered, CommandBelow
<1>9. /\ CommandsLeft' = CommandsLeft /\ Chances' = Chances
      /\ Running => Slack' = Slack
  BY <1>2, <1>4 DEF CommandsLeft, Chances, Slack, Tight, Writing
<1>10. Spending'
  BY <1>2, <1>9 DEF Spending, Running
<1>11. ASSUME Running, Sound PROVE Sound'
  <2>1. DaemonLeft' = DaemonLeft /\ Margin' = Margin
    BY <1>2 DEF DaemonLeft, Margin
  <2>2. Covered => Covered'
    BY <1>2, <1>4, <2>1 DEF Covered, CommandBelow
  <2>3. HoldsToken'
    BY <1>2, <1>4, <1>9, <1>11, <2>1, <2>2 DEF Sound, HoldsToken, Refreshing, Lasts
  <2>4. Renews' /\ FileWhole'
    BY <1>2, <1>4, <1>11 DEF Sound, Renews, FileWhole, Refreshing
  <2> QED
    BY <1>11, <2>3, <2>4 DEF Sound
<1> QED
  BY <1>2, <1>5, <1>6, <1>7, <1>8, <1>10, <1>11

(* The coordinator dies, and with it every call. *)
LEMMA RestartKeeps ==
  ASSUME OrderOK, RestartCoordinator, excused' \in BOOLEAN
  PROVE  OrderOK' /\ (Running /\ Sound /\ ~Excuse => Sound')
<1> USE DEF OrderOK
<1>1. /\ TypesOK' /\ nodes' = nodes /\ tokens' = tokens
      /\ \A c \in Call : calls'[c].pc = "idle"
      /\ disk' = disk /\ daemon' = daemon /\ command' = command
      /\ left'.faults = left.faults - 1 /\ left'.commands = left.commands
      /\ "daemon" \in Call /\ "command" \in Call
  BY RestartTypes, AnsweredIs, SpendIs, ClientAssumption DEF TypesOK, TypeOK
<1>2. CommandsLeft' = CommandsLeft /\ Chances' + 1 <= Chances
      /\ left'.faults <= left.faults
  <2>1. CommandsLeft' = CommandsLeft /\ left.faults \in Nat /\ CommandsLeft \in Nat
    BY <1>1, Numbers DEF CommandsLeft
  <2> QED
    BY <1>1, <2>1 DEF Chances
<1>3. Spending' /\ Chances' <= Chances
  BY <1>1, <1>2, Numbers, SpendingStill
<1>4. UniqueIdentities' /\ Honest' /\ InTime' /\ CallsOK'
  BY <1>1 DEF UniqueIdentities, Honest, InTime, CallsOK
<1>5. Newcomer'
  <2>1. DaemonsTokens' \subseteq DaemonsTokens
    BY <1>1 DEF DaemonsTokens, Refreshing, Readable, Running
  <2> QED
    BY <1>1, <2>1 DEF Newcomer, NewcomerIs
<1>6. FilesOrdered'
  BY <1>1 DEF FilesOrdered, CommandBelow
<1>7. ASSUME Running, Sound, ~Excuse PROVE Sound'
  <2>1. DaemonLeft' = DaemonLeft
    BY <1>1 DEF DaemonLeft
  <2>2. Refreshing => calls["daemon"].pc \in {"revoke", "idle"}
    <3>1. Refreshing => calls["daemon"].pc \in {"revoke", "create", "ok", "error", "idle"}
      BY DEF TypesOK, DaemonOK, CallOf, Sections, Refreshing
    <3>2. Refreshing => calls["daemon"].pc \notin {"create", "ok"}
      BY <1>1, <1>7 DEF Excuse, LosesToken, Refreshing
    <3> QED
      BY <1>7, <3>1, <3>2 DEF Sound, Renews
  <2>3. Good(daemon.token, daemon.identity, tokens, nodes) /\ Lasts /\ Covered
    BY <1>7, <2>2 DEF Sound, HoldsToken
  <2>4. Lasts'
    BY <1>2, <1>3, <1>1, <2>1, <2>3, LastsStill
  <2>5. Covered'
    BY <1>1, <2>1, <2>3 DEF Covered, CommandBelow
  <2>6. HoldsToken'
    BY <1>1, <2>3, <2>4, <2>5 DEF HoldsToken
  <2>7. Renews' /\ FileWhole'
    BY <1>1, <1>7 DEF Sound, Renews, FileWhole
  <2> QED
    BY <1>7, <2>6, <2>7 DEF Sound
<1> QED
  BY <1>1, <1>3, <1>4, <1>5, <1>6, <1>7

(* A unit of time passes, and everybody's times run down alike. *)
LEMMA TickKeeps ==
  ASSUME OrderOK, TypesOK', Tick, GRACE + 1 >= Budget.faults + Budget.commands
  PROVE  OrderOK' /\ (Running /\ Sound => Sound')
<1> USE DEF OrderOK
<1>1. /\ disk'.state = Aged(disk.state)
      /\ disk'.identity = disk.identity /\ disk'.wg = disk.wg
      /\ command'.copy = Aged(command.copy)
      /\ command'.stage = command.stage /\ command'.op = command.op
      /\ command'.sent = command.sent /\ command'.identity = command.identity
      /\ command = NotRunning <=> command' = NotRunning
      /\ left' = left
  BY TickIs
<1>2. /\ Running => /\ daemon.stage = "asleep" /\ daemon'.stage = "due"
                    /\ daemon'.token = daemon.token
                    /\ daemon'.identity = daemon.identity
      /\ Running' <=> Running
      /\ daemon'.copy = daemon.copy /\ ~Readable(daemon.copy)
      /\ daemon'.sent = daemon.sent /\ ~daemon.sent /\ ~Refreshing'
  BY TickIs, NotRunningIs DEF Running, Refreshing, TypesOK, DaemonOK, CallOf, Calling, Saving
<1>3. /\ nodes' = nodes /\ DOMAIN tokens' = DOMAIN tokens
      /\ \A t \in DOMAIN tokens : /\ tokens'[t].node = tokens[t].node
                                  /\ tokens'[t].left = Less(tokens[t].left)
      /\ \A c \in Call : /\ calls'[c].pc = calls[c].pc
                         /\ calls'[c].node = calls[c].node
                         /\ calls'[c].token = calls[c].token
                         /\ calls'[c].identity = calls[c].identity
                         /\ calls'[c].left = Less(calls[c].left)
  BY ExpireIs DEF Tick, TypesOK
<1>4. /\ disk.state \in SavedState \cup {Absent, Torn}
      /\ command.copy \in SavedState \cup {Absent, Torn}
      /\ command.stage # "write"
      /\ "daemon" \in Call /\ "command" \in Call
  BY Numbers DEF Tick, TypesOK, TypeOK, Process
<1>5. ASSUME NEW s \in SavedState \cup {Absent, Torn}
      PROVE  /\ Readable(Aged(s)) <=> Readable(s)
             /\ Readable(s) => /\ Aged(s).token = s.token /\ Aged(s).node = s.node
                               /\ Aged(s).left = Less(s.left) /\ s.left \in 0..TTL
  BY AgedIs, ReadableIs, Numbers
<1>6. ASSUME NEW s \in SavedState \cup {Absent, Torn}, NEW x \in 0..TTL, Below(s, x)
      PROVE  Below(Aged(s), Less(x))
  BY <1>5, <1>6, LessIs DEF Below
<1>7. ASSUME NEW x \in 0..TTL, CommandBelow(command, calls["command"], x)
      PROVE  CommandBelow(command', calls'["command"], Less(x))
  <2>1. command.op # "register" => Below(command'.copy, Less(x))
    BY <1>1, <1>4, <1>6, <1>7 DEF CommandBelow
  <2>2. calls["command"].left <= x => calls'["command"].left <= Less(x)
    BY <1>3, <1>4, Numbers, LessIs
  <2> QED
    BY <1>1, <1>3, <1>4, <1>7, <2>1, <2>2 DEF CommandBelow
<1>8. ASSUME NEW t, NEW k, Good(t, k, tokens', nodes')
      PROVE  /\ Good(t, k, tokens, nodes) /\ tokens[t].left \in 0..TTL
             /\ tokens'[t].left = Less(tokens[t].left)
  <2>1. t \in DOMAIN tokens /\ tokens[t].left \in 0..TTL
    BY <1>3, <1>8, Numbers DEF Good
  <2>2. tokens[t].left > 0
    BY <1>3, <1>8, <2>1, Numbers DEF Good, Less
  <2> QED
    BY <1>3, <1>8, <2>1, <2>2 DEF Good
<1>9. UniqueIdentities'
  BY <1>3 DEF UniqueIdentities
<1>10. Honest'
  <2>1. ASSUME NEW s \in SavedState \cup {Absent, Torn}, Readable(s), Truthful(s, tokens)
        PROVE  Truthful(Aged(s), tokens')
    BY <1>3, <1>5, <2>1, LessIs, Numbers DEF Truthful
  <2>2. Readable(disk'.state) => Truthful(disk'.state, tokens')
    BY <1>1, <1>4, <1>5, <2>1 DEF Honest
  <2>3. Readable(command'.copy) => Truthful(command'.copy, tokens')
    BY <1>1, <1>4, <1>5, <2>1 DEF Honest
  <2>4. ASSUME NEW c \in Call, calls[c].pc = "ok" PROVE Truthful(calls'[c], tokens')
    BY <1>3, <2>4, LessIs, Numbers DEF Honest, Truthful
  <2>5. ~Readable(daemon'.copy)
    BY <1>2
  <2> QED
    BY <1>3, <2>2, <2>3, <2>4, <2>5 DEF Honest, Readable
<1>11. InTime' /\ CallsOK'
  BY <1>1, <1>2, <1>3, <1>4 DEF InTime, CallsOK
<1>12. Newcomer'
  <2>1. DaemonsTokens' \subseteq DaemonsTokens
    <3>1. Readable(disk'.state) => Readable(disk.state) /\ disk'.state.token = disk.state.token
      BY <1>1, <1>4, <1>5
    <3>2. Readable(disk'.state) => disk'.state.token \in DaemonsTokens
      BY <3>1 DEF DaemonsTokens
    <3>3. ~Readable(daemon'.copy) /\ ~daemon'.sent
      BY <1>2
    <3>4. Running' => daemon'.token \in DaemonsTokens
      BY <1>2 DEF DaemonsTokens
    <3> QED
      BY <3>2, <3>3, <3>4 DEF DaemonsTokens, Refreshing, Readable
  <2>2. \A n : NewcomerIs(n) => NewcomerIs(n)'
    BY <1>1, <1>2, <1>3, <2>1 DEF NewcomerIs, Owns
  <2>3. command.op = "register" /\ command.stage \in Saving =>
           command'.copy.node = command.copy.node
    <3>1. command.stage \in Saving => Readable(command.copy)
      BY <1>4, ReadableIs DEF TypesOK, TypeOK, Process, Saving
    <3> QED
      BY <1>1, <1>4, <1>5, <3>1
  <2> QED
    BY <1>1, <1>3, <1>4, <2>2, <2>3 DEF Newcomer
<1>13. FilesOrdered'
  <2>1. ASSUME Readable(disk'.state),
               Good(disk'.state.token, disk'.identity, tokens', nodes')
        PROVE  CommandBelow(command', calls'["command"], tokens'[disk'.state.token].left)
    <3>1. Readable(disk.state) /\ disk'.state.token = disk.state.token
      BY <1>1, <1>4, <1>5, <2>1
    <3>2. /\ Good(disk.state.token, disk.identity, tokens, nodes)
          /\ tokens[disk.state.token].left \in 0..TTL
          /\ tokens'[disk.state.token].left = Less(tokens[disk.state.token].left)
      BY <1>1, <1>8, <2>1, <3>1
    <3>3. CommandBelow(command, calls["command"], tokens[disk.state.token].left)
      BY <3>1, <3>2 DEF FilesOrdered
    <3> QED
      BY <1>7, <3>1, <3>2, <3>3
  <2>2. ~Readable(daemon'.copy)
    BY <1>2
  <2> QED
    BY <2>1, <2>2 DEF FilesOrdered, Readable
<1>14. CommandsLeft' = CommandsLeft /\ Chances' = Chances /\ Margin' = Margin
  BY <1>1 DEF CommandsLeft, Chances, Margin
<1>15. Spending'
  <2>1. Readable(disk'.state) <=> Readable(disk.state)
    BY <1>1, <1>4, <1>5
  <2> QED
    BY <1>1, <1>2, <1>14, <2>1 DEF Spending, Readable
<1>16. ASSUME Running, Sound PROVE Sound'
  <2>1. daemon.stage = "asleep" /\ ~Refreshing /\ Slack = 0
    BY <1>2, <1>4, <1>16 DEF Refreshing, Slack, Tight, Writing
  <2>2. Good(daemon.token, daemon.identity, tokens, nodes) /\ Lasts /\ Covered
    BY <1>16, <2>1 DEF Sound, HoldsToken
  <2>3. DaemonLeft \in 0..TTL /\ daemon.token \in DOMAIN tokens
    BY <2>2, Numbers DEF Good, DaemonLeft
  <2>4. DaemonLeft >= 2 /\ DaemonLeft >= Margin + 1 + Chances
    <3>1. Margin \in Int /\ Margin >= 1 /\ Chances \in Nat
      BY Numbers DEF Margin
    <3> QED
      BY <2>1, <2>2, <2>3, <3>1 DEF Lasts
  <2>5. DaemonLeft' = Less(DaemonLeft)
    BY <1>2, <1>3, <1>16, <2>3 DEF DaemonLeft
  <2>6. Less(DaemonLeft) = DaemonLeft - 1
    BY <2>3, <2>4, Numbers DEF Less
  <2>7. Good(daemon.token, daemon.identity, tokens', nodes')
    BY <1>3, <2>2, <2>3, <2>4, <2>5, <2>6, <1>2, <1>16 DEF Good, DaemonLeft
  <2>8. Slack' = 1
    BY <1>2, <1>16 DEF Slack, Tight
  <2>9. Lasts'
    BY <1>14, <2>3, <2>4, <2>5, <2>6, <2>8, Numbers DEF Lasts
  <2>10. Covered'
    <3>1. CommandBelow(command', calls'["command"], Less(DaemonLeft))
      BY <1>7, <2>2, <2>3 DEF Covered
    <3>2. Below(disk'.state, Less(DaemonLeft))
      BY <1>1, <1>4, <1>6, <2>2, <2>3 DEF Covered
    <3>3. Below(daemon'.copy, Less(DaemonLeft))
      BY <1>2 DEF Below
    <3> QED
      BY <2>5, <3>1, <3>2, <3>3 DEF Covered
  <2>11. HoldsToken' /\ Renews'
    BY <1>2, <1>16, <2>7, <2>9, <2>10 DEF HoldsToken, Renews
  <2>12. FileWhole'
    <3>1. disk.state # Absent /\ Readable(disk.state)
      BY <1>4, <1>16, <2>1 DEF Sound, FileWhole
    <3> QED
      BY <1>1, <1>4, <1>5, <3>1, ReadableIs DEF FileWhole, Readable
  <2> QED
    BY <1>16, <2>11, <2>12 DEF Sound
<1> QED
  BY <1>9, <1>10, <1>11, <1>12, <1>13, <1>15, <1>16

(* A section of a handler touches no other handler. *)
LEMMA OthersStay ==
  ASSUME TypesOK, Spare, NEW c \in Call, ServeCall(c)
  PROVE  \A d \in Call : d # c => calls'[d] = calls[d]
<1>1. NodesTyped /\ TokensTyped /\ CallsTyped
  BY DEF TypesOK
<1>2. NewNode \in NodeId /\ NewToken \in Token
  BY Draws
<1>3. CASE InsertNode(c, NewNode, NewToken)
  BY <1>1, <1>2, <1>3, InsertTypes
<1>4. CASE CreateToken(c, NewToken)
  BY <1>1, <1>2, <1>4, CreateTypes
<1>5. CASE \/ ListPeers(c) \/ UpdateHeartbeat(c) \/ RevokeTokens(c)
           \/ DeleteRows(c) \/ ReleaseAddress(c)
  BY <1>1, <1>5, OtherTypes
<1> QED
  BY <1>3, <1>4, <1>5 DEF ServeCall

(* Where a handler is that a process waits for, and where it goes. *)
LEMMA ServedStages ==
  ASSUME OrderOK, NEW c \in Call,
         Inserted(c) \/ Created(c) \/ Revoked(c) \/ Deleted(c) \/ Passed(c) \/ Failed(c)
  PROVE  /\ calls[c].pc \in {"insert", "create", "revoke", "delete", "list", "update",
                             "release"}
         /\ calls'[c].pc \in {"ok", "error", "create", "release"}
         /\ c = "daemon" =>
               /\ calls[c].pc \in {"create", "revoke", "list", "update"}
               /\ calls'[c].pc \in {"ok", "error", "create"}
               /\ Refreshing => Created(c) \/ Revoked(c) \/ Failed(c)
               /\ Refreshing => calls[c].pc \in {"create", "revoke"}
               /\ Running /\ ~Refreshing => calls[c].pc \in {"list", "update"}
         /\ c = "command" =>
               /\ command.stage \notin Saving
               /\ command.sent /\ command.stage = "refresh" =>
                     Created(c) \/ Revoked(c) \/ Failed(c)
               /\ command.sent /\ command.stage = "register" =>
                     Inserted(c) \/ Failed(c)
<1> USE DEF OrderOK
<1>1. /\ calls[c].pc \in {"insert", "create", "revoke", "delete", "list", "update",
                          "release"}
      /\ calls'[c].pc \in {"ok", "error", "create", "release"}
      /\ calls[c].pc # "delete" => calls'[c].pc # "release"
  <2>1. CASE Inserted(c) \/ Created(c)
    <3>1. PICK n, t : Grown(c, t, n)
      BY <2>1 DEF Inserted, Created
    <3>2. calls'[c].pc = "ok"
      BY <3>1, AnsweredWithIs DEF Grown
    <3> QED
      BY <2>1, <3>2 DEF Inserted, Created
  <2>2. CASE Revoked(c) \/ Deleted(c)
    BY <2>2 DEF Revoked, Deleted
  <2>3. CASE Passed(c) \/ Failed(c)
    BY <2>3, AnsweredIs DEF Passed, Failed
  <2> QED
    BY <2>1, <2>2, <2>3
<1>2. ASSUME c = "daemon"
      PROVE  /\ calls[c].pc \in {"create", "revoke", "list", "update"}
             /\ calls'[c].pc \in {"ok", "error", "create"}
             /\ Refreshing => calls[c].pc \in {"create", "revoke"}
             /\ Running /\ ~Refreshing => calls[c].pc \in {"list", "update"}
  <2>1. /\ calls[c].pc \in {"create", "revoke", "list", "update"}
        /\ calls'[c].pc \in {"ok", "error", "create"}
    BY <1>1, <1>2 DEF CallsOK
  <2>2. Refreshing => calls[c].pc \in {"create", "revoke"}
    BY <1>1, <1>2 DEF TypesOK, DaemonOK, CallOf, Sections, Refreshing
  <2>3. Running => daemon.sent
    BY <1>1, <1>2 DEF TypesOK, DaemonOK
  <2>4. Running => calls[c].pc \in Sections(daemon.stage) /\ daemon.stage \in
                      {"register", "peers", "first heartbeat", "heartbeat", "refresh"}
    BY <1>1, <1>2, <2>3, NotRunningIs DEF TypesOK, DaemonOK, CallOf, Calling, Running, Saving
  <2>5. Running /\ ~Refreshing => calls[c].pc \in {"list", "update"}
    BY <1>2, <2>1, <2>3, <2>4 DEF Sections, Refreshing
  <2> QED
    BY <2>1, <2>2, <2>5
<1>3. ASSUME c = "command"
      PROVE  /\ command.stage \notin Saving
             /\ command.sent /\ command.stage = "refresh" =>
                   calls[c].pc \in {"create", "revoke"}
             /\ command.sent /\ command.stage = "register" => calls[c].pc = "insert"
  <2>1. command.stage \notin Saving
    BY <1>1, <1>3 DEF CallsOK
  <2>2. command.sent /\ command.stage = "refresh" => calls[c].pc \in {"create", "revoke"}
    BY <1>1, <1>3 DEF TypesOK, CommandOK, CallOf, Sections
  <2>3. command.sent /\ command.stage = "register" => calls[c].pc = "insert"
    BY <1>1, <1>3 DEF TypesOK, CommandOK, CallOf, Sections
  <2> QED
    BY <2>1, <2>2, <2>3
<1>4. calls[c].pc \in {"create", "revoke"} => Created(c) \/ Revoked(c) \/ Failed(c)
  BY DEF Inserted, Deleted, Passed
<1>5. calls[c].pc = "insert" => Inserted(c) \/ Failed(c)
  BY DEF Created, Revoked, Deleted, Passed
<1> QED
  BY <1>1, <1>2, <1>3, <1>4, <1>5

(* What a handler's section answers. *)
LEMMA ServedAnswers ==
  ASSUME NEW c \in Call
  PROVE  /\ Inserted(c) => /\ calls[c].pc = "insert" /\ calls'[c].pc = "ok"
                           /\ NewNodeIs(c, calls'[c].node)
         /\ Created(c) => /\ calls[c].pc = "create" /\ calls'[c].pc = "ok"
                          /\ calls'[c].left = calls[c].left
                          /\ calls'[c].node = calls[c].node
         /\ Revoked(c) => /\ calls[c].pc = "revoke" /\ calls'[c].pc = "create"
                          /\ calls'[c].left = calls[c].left
                          /\ calls'[c].node = calls[c].node
         /\ Failed(c) => calls'[c].pc = "error"
<1>1. ASSUME Inserted(c) PROVE calls'[c].pc = "ok" /\ NewNodeIs(c, calls'[c].node)
  <2>1. PICK n, t : Grown(c, t, n) /\ NewNodeIs(c, n)
    BY <1>1 DEF Inserted
  <2>2. calls'[c].pc = "ok" /\ calls'[c].node = n
    BY <2>1, AnsweredWithIs DEF Grown
  <2> QED
    BY <2>1, <2>2
<1>2. ASSUME Created(c)
      PROVE  /\ calls'[c].pc = "ok" /\ calls'[c].left = calls[c].left
             /\ calls'[c].node = calls[c].node
  <2>1. PICK t : Grown(c, t, calls[c].node)
    BY <1>2 DEF Created
  <2> QED
    BY <2>1, AnsweredWithIs DEF Grown
<1>3. Failed(c) => calls'[c].pc = "error"
  BY AnsweredIs DEF Failed
<1> QED
  BY <1>1, <1>2, <1>3 DEF Inserted, Created, Revoked

(* A handler moves: what the files and the processes hold stays in order. *)
LEMMA ServeOrder ==
  ASSUME OrderOK, Spare, ~DbErrors, TypesOK', NEW c \in Call, ServeCall(c)
  PROVE  OrderOK'
<1> USE DEF OrderOK
<1>1. /\ Inserted(c) \/ Created(c) \/ Revoked(c) \/ Deleted(c) \/ Passed(c) \/ Failed(c)
      /\ RowsStay
  BY ServedIs
<1>2. /\ UNCHANGED <<disk, daemon, command, left>>
      /\ \A d \in Call : d # c => calls'[d] = calls[d]
      /\ "daemon" \in Call /\ "command" \in Call /\ c \in {"daemon", "command"}
  BY OthersStay, ClientAssumption DEF ServeCall
<1>3. /\ \A t \in HeldTokens : t \in DOMAIN tokens' =>
            t \in DOMAIN tokens /\ tokens'[t] = tokens[t]
      /\ \A k : \A t \in HeldTokens : Good(t, k, tokens', nodes') =>
            Good(t, k, tokens, nodes) /\ tokens'[t] = tokens[t]
      /\ calls[c].pc # "delete" =>
            \A n, k : Owns(n, k, nodes) => Owns(n, k, nodes')
  BY <1>1, HeldStay
<1>4. /\ calls[c].pc \in {"insert", "create", "revoke", "delete", "list", "update",
                          "release"}
      /\ calls'[c].pc \in {"ok", "error", "create", "release"}
      /\ c = "daemon" =>
            /\ calls[c].pc \in {"create", "revoke", "list", "update"}
            /\ calls'[c].pc \in {"ok", "error", "create"}
            /\ Refreshing => Created(c) \/ Revoked(c) \/ Failed(c)
      /\ c = "command" =>
            /\ command.stage \notin Saving
            /\ command.sent /\ command.stage = "refresh" =>
                  Created(c) \/ Revoked(c) \/ Failed(c)
            /\ command.sent /\ command.stage = "register" =>
                  Inserted(c) \/ Failed(c)
  BY <1>1, ServedStages
<1>5. /\ \A s \in {disk.state, daemon.copy, command.copy} :
            Readable(s) => s.token \in HeldTokens
      /\ daemon.token \in HeldTokens /\ \A d \in Call : calls[d].token \in HeldTokens
  BY DEF HeldTokens, Copies
<1>6. /\ Created(c) => /\ calls'[c].pc = "ok" /\ calls'[c].left = calls[c].left
                       /\ calls'[c].node = calls[c].node
      /\ Inserted(c) => NewNodeIs(c, calls'[c].node)
      /\ Failed(c) => calls'[c].pc = "error"
      /\ Revoked(c) => /\ calls'[c].pc = "create" /\ calls'[c].left = calls[c].left
                       /\ calls'[c].node = calls[c].node
  BY ServedAnswers
<1>7. ASSUME calls'[c].pc = "ok" PROVE Truthful(calls'[c], tokens')
  <2>1. CASE Inserted(c) \/ Created(c)
    <3>1. PICK n, t : Grown(c, t, n)
      BY <2>1 DEF Inserted, Created
    <3>2. calls'[c].token = t /\ calls'[c].left = calls[c].left
      BY <3>1, AnsweredWithIs DEF Grown
    <3> QED
      BY <3>1, <3>2, Numbers DEF Grown, Truthful
  <2>2. CASE Deleted(c) \/ Passed(c)
    <3>1. calls'[c].left = 0
      BY <1>7, <2>2, AnsweredIs DEF Deleted, Passed
    <3> QED
      BY <3>1, NextNumbers DEF Truthful
  <2>3. ~Revoked(c) /\ ~Failed(c)
    BY <1>6, <1>7 DEF Revoked
  <2> QED
    BY <1>1, <2>1, <2>2, <2>3
<1>8. ASSUME NEW t \in HeldTokens, NEW x, Good(t, disk.identity, tokens', nodes'),
             CommandBelow(command, calls["command"], x)
      PROVE  CommandBelow(command, calls'["command"], x)
  <2>1. CASE c # "command"
    BY <1>2, <1>8, <2>1
  <2>2. CASE c = "command" /\ command.sent /\ command.stage = "refresh" /\ Revoked(c)
    <3> DEFINE n == calls["command"].node
    <3>1. Owns(n, disk.identity, nodes)
      <4>1. calls["command"].pc = "revoke"
        BY <2>2 DEF Revoked
      <4>2. Owns(n, command.identity, nodes)
        BY <2>2, <4>1 DEF CallsOK
      <4>3. command # NotRunning /\ command.op \notin {"none", "init"}
        BY <2>2, NotRunningIs, ClientAssumption DEF TypesOK, CommandOK
      <4>4. command.identity = disk.identity
        BY <4>3 DEF TypesOK, CommandOK
      <4> QED
        BY <4>2, <4>4
    <3>2. Good(t, disk.identity, tokens, nodes) /\ t \in DOMAIN tokens'
      BY <1>3, <1>8 DEF Good
    <3>3. tokens[t].node = n
      BY <3>1, <3>2 DEF Owns, Good, UniqueIdentities
    <3>4. FALSE
      BY <2>2, <3>2, <3>3 DEF Revoked, TokensOf, Good
    <3> QED
      BY <3>4
  <2>3. CASE c = "command" /\ command.sent /\ command.stage = "refresh" /\ ~Revoked(c)
    <3>1. Created(c) \/ calls'[c].pc = "error"
      BY <1>4, <1>6, <2>3
    <3>2. Created(c) => calls[c].pc = "create" /\ calls'[c].left = calls[c].left
      BY <1>6 DEF Created
    <3> QED
      BY <1>8, <2>3, <3>1, <3>2 DEF CommandBelow
  <2>4. CASE ~(command.sent /\ command.stage = "refresh")
    BY <1>8, <2>4 DEF CommandBelow
  <2> QED
    BY <2>1, <2>2, <2>3, <2>4
<1>9. UniqueIdentities'
  <2>1. CASE Inserted(c)
    <3>1. PICK n : NewNodeIs(c, n)
      BY <2>1 DEF Inserted
    <3> QED
      BY <1>1, <3>1 DEF NewNodeIs, RowsStay, UniqueIdentities
  <2>2. CASE ~Inserted(c)
    <3>1. DOMAIN nodes' \subseteq DOMAIN nodes
      BY <1>1, <2>2 DEF Created, Revoked, Deleted, Passed, Failed
    <3> QED
      BY <1>1, <3>1 DEF RowsStay, UniqueIdentities
  <2> QED
    BY <2>1, <2>2
<1>10. Honest'
  <2>1. \A x : x.token \in HeldTokens /\ Truthful(x, tokens) => Truthful(x, tokens')
    BY <1>3 DEF Truthful
  <2>2. \A s \in {disk.state, daemon.copy, command.copy} :
           Readable(s) => Truthful(s, tokens')
    BY <1>5, <2>1 DEF Honest
  <2>3. \A d \in Call : calls'[d].pc = "ok" => Truthful(calls'[d], tokens')
    BY <1>2, <1>5, <1>7, <2>1 DEF Honest
  <2> QED
    BY <1>2, <2>2, <2>3 DEF Honest
<1>11. InTime'
  <2>1. CASE c = "daemon" /\ Refreshing
    <3>1. Failed(c) \/ (calls'[c].left = calls[c].left /\ calls[c].pc \in {"revoke", "create"})
      BY <1>4, <1>6, <2>1 DEF Created, Revoked
    <3> QED
      BY <1>2, <1>6, <2>1, <3>1 DEF InTime, Refreshing
  <2>2. CASE c # "daemon" \/ ~Refreshing
    BY <1>2, <2>2 DEF InTime, Refreshing
  <2> QED
    BY <2>1, <2>2
<1>12. CallsOK'
  <2>1. calls'["daemon"].pc \notin {"insert", "delete", "release"}
    BY <1>2, <1>4 DEF CallsOK
  <2>2. command.stage \in Saving => calls'["command"].pc = "idle"
    BY <1>2, <1>4 DEF CallsOK
  <2>3. command.sent /\ command.stage = "refresh" /\ calls'["command"].pc = "revoke" =>
           Owns(calls'["command"].node, command.identity, nodes')
    BY <1>2, <1>3, <1>4 DEF CallsOK
  <2>4. command.sent /\ command.stage = "register" /\ calls'["command"].pc = "insert" =>
           calls'["command"].identity = command.identity
    BY <1>2, <1>4 DEF CallsOK
  <2> QED
    BY <1>2, <2>1, <2>2, <2>3, <2>4 DEF CallsOK
<1>13. Newcomer'
  <2>1. ASSUME c = "daemon", NEW n, NewcomerIs(n) PROVE NewcomerIs(n)'
    <3>1. Owns(n, command.identity, nodes')
      BY <1>3, <1>4, <2>1 DEF NewcomerIs
    <3>2. ASSUME NEW t \in DaemonsTokens', t \in DOMAIN tokens' PROVE tokens'[t].node # n
      <4>1. CASE t \in DaemonsTokens
        <5>1. t \in HeldTokens
          BY <1>2, <1>5, <4>1 DEF DaemonsTokens
        <5> QED
          BY <1>3, <2>1, <3>2, <4>1, <5>1 DEF NewcomerIs
      <4>2. CASE t \notin DaemonsTokens
        <5>1. Refreshing /\ calls'["daemon"].pc = "ok" /\ t = calls'["daemon"].token
          BY <1>2, <3>2, <4>2 DEF DaemonsTokens, Refreshing, Readable, Running
        <5>2. Created(c)
          BY <1>4, <1>6, <2>1, <5>1 DEF Revoked
        <5>3. PICK u : Grown(c, u, calls[c].node)
          BY <5>2 DEF Created
        <5>4. t = u /\ tokens'[t].node = calls[c].node /\ calls[c].pc = "create"
          BY <2>1, <5>1, <5>2, <5>3, AnsweredWithIs DEF Grown, Created
        <5> QED
          BY <2>1, <5>1, <5>4 DEF NewcomerIs
      <4> QED
        BY <4>1, <4>2
    <3>3. Refreshing /\ calls'["daemon"].pc \in {"revoke", "create"} =>
             calls'["daemon"].node # n
      <4>1. Refreshing /\ calls'["daemon"].pc = "create" => Revoked(c)
        BY <1>4, <1>6, <2>1
      <4> QED
        BY <1>4, <1>6, <2>1, <4>1 DEF NewcomerIs, Revoked
    <3> QED
      BY <1>2, <3>1, <3>2, <3>3 DEF NewcomerIs, Refreshing
  <2>2. ASSUME c = "command", Inserted(c), command.sent, command.stage = "register"
        PROVE  NewcomerIs(calls[c].node)'
    <3> DEFINE n == calls'[c].node
    <3>1. NewNodeIs(c, n) /\ calls[c].identity = command.identity
      BY <1>6, <2>2 DEF Inserted, CallsOK
    <3>2. Owns(n, command.identity, nodes')
      BY <3>1 DEF NewNodeIs, Owns
    <3>3. DaemonsTokens' = DaemonsTokens /\ DaemonsTokens \subseteq HeldTokens
      BY <1>2, <1>5, <2>2 DEF DaemonsTokens, Refreshing, Readable, Running
    <3>4. \A t \in DaemonsTokens : t \in DOMAIN tokens' => tokens'[t].node # n
      BY <1>3, <3>1, <3>3 DEF NewNodeIs
    <3>5. calls'["daemon"].node # n
      BY <1>2, <2>2, <3>1 DEF NewNodeIs
    <3> QED
      BY <1>2, <3>2, <3>3, <3>4, <3>5 DEF NewcomerIs
  <2>3. CASE c = "daemon"
    BY <1>2, <2>1, <2>3 DEF Newcomer
  <2>4. CASE c = "command"
    <3>1. command.sent /\ command.stage = "register" /\ calls'["command"].pc = "ok" =>
             NewcomerIs(calls["command"].node)'
      BY <1>4, <1>6, <2>2, <2>4
    <3> QED
      BY <1>2, <1>4, <2>4, <3>1 DEF Newcomer
  <2> QED
    BY <1>2, <2>3, <2>4
<1>14. FilesOrdered'
  <2>1. Readable(disk.state) /\ Good(disk.state.token, disk.identity, tokens', nodes') =>
           CommandBelow(command, calls'["command"], tokens'[disk.state.token].left)
    BY <1>3, <1>5, <1>8 DEF FilesOrdered
  <2>2. Readable(daemon.copy) /\ Good(daemon.copy.token, disk.identity, tokens', nodes') =>
           /\ CommandBelow(command, calls'["command"], tokens'[daemon.copy.token].left)
           /\ Below(disk.state, tokens'[daemon.copy.token].left)
    BY <1>3, <1>5, <1>8 DEF FilesOrdered
  <2> QED
    BY <1>2, <2>1, <2>2 DEF FilesOrdered, Readable
<1>15. Spending'
  BY <1>2 DEF Spending, CommandsLeft, Running, Readable
<1> QED
  BY <1>9, <1>10, <1>11, <1>12, <1>13, <1>14, <1>15

(* And the daemon keeps its token, unless a command takes it away. *)
LEMMA ServeSound ==
  ASSUME OrderOK, Spare, ~DbErrors, TypesOK', NEW c \in Call, ServeCall(c),
         Running, Sound, ~Excuse
  PROVE  Sound'
<1> USE DEF OrderOK
<1>1. /\ Inserted(c) \/ Created(c) \/ Revoked(c) \/ Deleted(c) \/ Passed(c) \/ Failed(c)
      /\ RowsStay
  BY ServedIs
<1>2. /\ UNCHANGED <<disk, daemon, command, left>>
      /\ \A d \in Call : d # c => calls'[d] = calls[d]
      /\ "daemon" \in Call /\ "command" \in Call /\ c \in {"daemon", "command"}
  BY OthersStay, ClientAssumption DEF ServeCall
<1>3. /\ calls[c].pc # "idle" /\ calls'[c].pc \in {"ok", "error", "create", "release"}
      /\ c = "daemon" =>
            /\ calls[c].pc \in {"create", "revoke", "list", "update"}
            /\ Refreshing => Created(c) \/ Revoked(c) \/ Failed(c)
            /\ Refreshing => calls[c].pc \in {"create", "revoke"}
            /\ ~Refreshing => calls[c].pc \in {"list", "update"}
      /\ c = "command" /\ command.sent /\ command.stage = "refresh" =>
            Created(c) \/ Revoked(c) \/ Failed(c)
  BY <1>1, ServedStages
<1>4. /\ Created(c) => calls[c].pc = "create" /\ calls'[c].left = calls[c].left
      /\ Failed(c) => calls'[c].pc = "error"
      /\ Revoked(c) => /\ calls[c].pc = "revoke" /\ calls'[c].pc = "create"
                       /\ calls'[c].node = calls[c].node
      /\ Deleted(c) => calls[c].pc = "delete" /\ calls'[c].pc \in {"release", "ok"}
  BY ServedAnswers DEF Deleted
<1>5. c = "command" => calls[c].pc \notin {"revoke", "delete"}
  BY <1>1, <1>4 DEF Excuse, Withdrawn, Inserted, Created, Passed, Failed
<1>6. calls[c].pc # "delete" /\ (calls[c].pc = "revoke" => c = "daemon" /\ Refreshing)
  BY <1>2, <1>3, <1>5
<1>7. /\ calls[c].pc # "revoke" =>
            \A k : \A t \in HeldTokens : Good(t, k, tokens, nodes) =>
               Good(t, k, tokens', nodes') /\ tokens'[t] = tokens[t]
      /\ \A n, k : Owns(n, k, nodes) => Owns(n, k, nodes')
  BY <1>1, <1>6, HeldStay
<1>8. HoldsToken'
  <2> SUFFICES ASSUME Refreshing => calls'["daemon"].pc \in {"revoke", "idle"}
               PROVE  /\ Good(daemon.token, daemon.identity, tokens', nodes')
                      /\ Lasts' /\ Covered'
    BY <1>2 DEF HoldsToken, Refreshing
  <2>1. ~(c = "daemon" /\ Refreshing)
    BY <1>3, <1>4
  <2>2. Refreshing => calls["daemon"].pc \in {"revoke", "idle"}
    BY <1>2, <2>1
  <2>3. Good(daemon.token, daemon.identity, tokens, nodes) /\ Lasts /\ Covered
    BY <2>2 DEF Sound, HoldsToken
  <2>4. /\ Good(daemon.token, daemon.identity, tokens', nodes')
        /\ DaemonLeft' = DaemonLeft
    <3>1. daemon.token \in HeldTokens
      BY DEF HeldTokens
    <3> QED
      BY <1>2, <1>6, <1>7, <2>1, <2>3, <3>1 DEF DaemonLeft
  <2>5. Lasts'
    <3>1. Slack' = Slack /\ Chances' = Chances /\ Margin' = Margin
      <4>1. Tight' <=> Tight
        BY <1>2, <1>3 DEF Tight
      <4> QED
        BY <1>2, <4>1 DEF Slack, Writing, Chances, CommandsLeft, Margin
    <3> QED
      BY <2>3, <2>4, <3>1 DEF Lasts
  <2>6. Covered'
    <3>1. CommandBelow(command, calls'["command"], DaemonLeft)
      <4>1. CASE c # "command"
        BY <1>2, <2>3, <4>1 DEF Covered
      <4>2. CASE c = "command" /\ command.sent /\ command.stage = "refresh"
        BY <1>3, <1>4, <1>5, <2>3, <4>2 DEF Covered, CommandBelow
      <4>3. CASE ~(command.sent /\ command.stage = "refresh")
        BY <2>3, <4>3 DEF Covered, CommandBelow
      <4> QED
        BY <4>1, <4>2, <4>3
    <3> QED
      BY <1>2, <2>3, <2>4, <3>1 DEF Covered
  <2> QED
    BY <2>4, <2>5, <2>6
<1>9. Renews'
  <2> SUFFICES ASSUME Refreshing
               PROVE  /\ calls'["daemon"].pc # "error"
                      /\ calls'["daemon"].pc \in {"revoke", "create"} =>
                            Owns(calls'["daemon"].node, daemon.identity, nodes')
                      /\ calls'["daemon"].pc = "ok" =>
                            Good(calls'["daemon"].token, daemon.identity, tokens', nodes')
    BY <1>2 DEF Renews, Refreshing
  <2>1. CASE c = "command"
    <3>1. calls["daemon"].token \in HeldTokens
      BY <1>2 DEF HeldTokens
    <3> QED
      BY <1>2, <1>5, <1>7, <2>1, <3>1 DEF Sound, Renews
  <2>2. CASE c = "daemon"
    <3>1. Owns(calls[c].node, daemon.identity, nodes)
      BY <1>3, <2>2 DEF Sound, Renews
    <3>2. ~Failed(c)
      BY <1>3, <2>2, <3>1 DEF Failed, Owns
    <3>3. CASE Revoked(c)
      BY <1>4, <1>7, <2>2, <3>1, <3>3
    <3>4. CASE Created(c)
      <4>1. PICK u : Grown(c, u, calls[c].node)
        BY <3>4 DEF Created
      <4>2. /\ calls'[c].pc = "ok" /\ calls'[c].token = u /\ u \in DOMAIN tokens'
            /\ tokens'[u].node = calls[c].node /\ tokens'[u].left = calls[c].left
        BY <4>1, AnsweredWithIs DEF Grown
      <4>3. calls[c].left = TTL /\ TTL > 0
        BY <1>4, <2>2, <3>4, Numbers DEF InTime, Sound
      <4>4. Owns(calls[c].node, daemon.identity, nodes')
        BY <1>7, <3>1
      <4> QED
        BY <2>2, <4>2, <4>3, <4>4 DEF Good, Owns
    <3> QED
      BY <1>3, <2>2, <3>2, <3>3, <3>4
  <2> QED
    BY <1>2, <2>1, <2>2
<1>10. FileWhole'
  BY <1>2 DEF Sound, FileWhole, Readable
<1> QED
  BY <1>8, <1>9, <1>10 DEF Sound

-----------------------------------------------------------------------------
(* The daemon keeps its token: the argument. *)

(* A daemon that is started is off no longer. *)
LEMMA RunningIs ==
  ASSUME TypesOK
  PROVE  Running <=> daemon # NotRunning
  BY NotRunningIs DEF TypesOK, DaemonOK, Running, Saving

(* What is not excused after a step was not before, and the step is no excuse. *)
LEMMA HistoryKeeps ==
  ASSUME TypesOK, Kept, History, Running /\ Sound /\ ~Excuse => Sound',
         Running' => Running
  PROVE  Kept'
  BY RunningIs DEF Kept, History, Excuse

(* The command's step, whichever it is. *)
LEMMA CommandStepKeeps ==
  ASSUME OrderOK, TypesOK', CommandStep
  PROVE  OrderOK' /\ (Running /\ Sound /\ ~Excuse => Sound')
<1>1. ASSUME NEW outcome \in Outcome, Await("command", command, outcome),
             AfterCommand(outcome), UNCHANGED <<disk, daemon>>
      PROVE  OrderOK' /\ (Sound => Sound')
  <2>1. /\ command.stage \in Calling /\ nodes' = nodes /\ tokens' = tokens
        /\ \A d \in Call : d # "command" => calls'[d] = calls[d]
        /\ \/ outcome = "sent" /\ Sent("command", command)
           \/ outcome = "ok" /\ Succeeds("command", command)
           \/ /\ outcome = "error" /\ Fails("command", command)
              /\ calls'["command"].pc = "idle"
    <3>1. /\ TokensTyped /\ CallsTyped /\ "command" \in Call /\ command \in Process
          /\ CallOf("command", command)
      BY ClientAssumption DEF OrderOK, TypesOK, TypeOK, CommandOK
    <3>2. command.stage = "register" => command.identity \in Identity /\ command.wg \in WgKey
      BY NotRunningIs, ClientAssumption DEF OrderOK, TypesOK, CommandOK
    <3> QED
      BY <1>1, <3>1, <3>2, AwaitIs
  <2>2. CASE outcome = "sent"
    BY <1>1, <2>1, <2>2, CommandSendsKeeps
  <2>3. CASE outcome \in {"ok", "error"}
    <3>1. calls'["daemon"] = calls["daemon"] /\ calls'["command"].pc = "idle"
      BY <2>1, <2>3, AnsweredIs, ClientAssumption DEF Succeeds
    <3>2. left' = left \/ Spend("faults")
      BY <2>1, <2>3 DEF Succeeds, Fails
    <3>3. outcome = "ok" => Succeeds("command", command)
      BY <2>1
    <3> QED
      BY <1>1, <2>1, <2>3, <3>1, <3>2, <3>3, CommandAnswerKeeps
  <2> QED
    BY <2>2, <2>3 DEF Outcome
<1>2. ASSUME UNCHANGED <<coordVars, left, daemon>>,
             \/ Truncate(command) /\ command' = [command EXCEPT !.stage = "write"]
             \/ Write(command) /\ command' = NotRunning
      PROVE  OrderOK' /\ (Running /\ Sound /\ ~Excuse => Sound')
  BY <1>2, CommandSaveKeeps
<1> QED
  BY <1>1, <1>2 DEF CommandStep

(* The daemon's step: it goes on, or ends. *)
LEMMA DaemonStepKeeps ==
  ASSUME OrderOK, TypesOK', excused' \in BOOLEAN, DaemonStep,
         GRACE + 1 >= Budget.faults + Budget.commands
  PROVE  OrderOK' /\ Running /\ (Running' /\ Sound /\ ~Excuse => Sound')
<1>1. ASSUME NEW outcome \in Outcome, Await("daemon", daemon, outcome),
             AfterDaemon(outcome), UNCHANGED <<disk, command>>
      PROVE  OrderOK' /\ Running /\ (Running' /\ Sound /\ ~Excuse => Sound')
  <2>1. /\ daemon.stage \in Calling /\ nodes' = nodes /\ tokens' = tokens
        /\ \A d \in Call : d # "daemon" => calls'[d] = calls[d]
        /\ \/ outcome = "sent" /\ Sent("daemon", daemon)
           \/ outcome = "ok" /\ Succeeds("daemon", daemon)
           \/ /\ outcome = "error" /\ Fails("daemon", daemon)
              /\ calls'["daemon"].pc = "idle"
    <3>1. /\ TokensTyped /\ CallsTyped /\ "daemon" \in Call /\ daemon \in Process
          /\ CallOf("daemon", daemon)
      BY ClientAssumption DEF OrderOK, TypesOK, TypeOK, DaemonOK
    <3>2. daemon.stage # "register"
      BY NotRunningIs DEF OrderOK, TypesOK, DaemonOK, Saving
    <3> QED
      BY <1>1, <3>1, <3>2, AwaitIs
  <2>2. Running
    BY <2>1 DEF Running, Calling
  <2>3. CASE outcome = "sent"
    BY <1>1, <2>1, <2>2, <2>3, DaemonSendsKeeps
  <2>4. CASE outcome \in {"ok", "error"}
    <3>1. calls'["command"] = calls["command"] /\ calls'["daemon"].pc = "idle"
      BY <2>1, <2>4, AnsweredIs, ClientAssumption DEF Succeeds
    <3>2. left' = left \/ Spend("faults")
      BY <2>1, <2>4 DEF Succeeds, Fails
    <3>3. /\ outcome = "ok" => Succeeds("daemon", daemon)
          /\ outcome = "error" => Fails("daemon", daemon)
      BY <2>1
    <3>4. CASE daemon' = NotRunning
      <4>1. OrderOK' /\ ~Running'
        BY <1>1, <2>1, <3>1, <3>2, <3>4, KillDaemonKeeps
      <4> QED
        BY <2>2, <4>1
    <3>5. CASE daemon' # NotRunning
      BY <1>1, <2>1, <2>2, <2>4, <3>1, <3>3, <3>5, DaemonAnswerKeeps
    <3> QED
      BY <3>4, <3>5
  <2> QED
    BY <2>3, <2>4 DEF Outcome
<1>2. ASSUME UNCHANGED <<coordVars, left, command>>,
             \/ Truncate(daemon) /\ daemon' = [daemon EXCEPT !.stage = "write"]
             \/ Write(daemon) /\ daemon' = [daemon EXCEPT !.stage = daemon.then,
                                                          !.copy = Absent]
      PROVE  OrderOK' /\ Running /\ (Running' /\ Sound /\ ~Excuse => Sound')
  <2>1. Running
    BY <1>2 DEF Truncate, Write, Running
  <2> QED
    BY <1>2, <2>1, DaemonSaveKeeps
<1>3. ASSUME Wake, UNCHANGED command
      PROVE  OrderOK' /\ Running /\ (Sound => Sound')
  <2>1. Running
    BY <1>3 DEF Wake, Running
  <2> QED
    BY <1>3, <2>1, WakeKeeps
<1> QED
  BY <1>1, <1>2, <1>3 DEF DaemonStep

(* Every step. *)
LEMMA NextKeeps ==
  ASSUME OrderOK, Kept, Spare, ~DbErrors, [Next]_vars,
         GRACE + 1 >= Budget.faults + Budget.commands
  PROVE  OrderOK' /\ Kept'
<1>1. TypesOK /\ TypesOK'
  BY NextTypes DEF OrderOK
<1>2. CASE UNCHANGED vars
  BY <1>1, <1>2
     DEF vars, coordVars, OrderOK, UniqueIdentities, Honest, InTime, CallsOK, Newcomer,
         NewcomerIs, DaemonsTokens, FilesOrdered, Spending, CommandsLeft, Kept, Sound,
         HoldsToken, Lasts, Covered, Renews, FileWhole, Refreshing, Running, Slack, Tight,
         Writing, Chances, Margin, DaemonLeft, Readable, Below, Truthful
<1>3. CASE Next
  <2>1. History /\ excused' \in BOOLEAN
    BY <1>1, <1>3, HistoryTyped DEF Next, TypesOK, TypeOK
  <2>2. ASSUME OrderOK', Running /\ Sound /\ ~Excuse => Sound', Running' => Running
        PROVE  OrderOK' /\ Kept'
    BY <1>1, <2>1, <2>2, HistoryKeeps
  <2>3. CASE CommandNext
    <3>1. PICK op \in Commands, stage \in Stages : Start(op, stage) /\ Startable(op, stage)
      BY <2>3, CommandStarts
    <3>2. OrderOK' /\ (Sound => Sound')
      BY <1>1, <3>1, StartKeeps
    <3>3. daemon' = daemon
      BY <1>1, <3>1, StartIs
    <3> QED
      BY <2>2, <3>2, <3>3 DEF Running
  <2>4. CASE SaveIdentity \/ SaveWg
    <3>1. OrderOK' /\ (Sound => Sound') /\ daemon' = daemon
      BY <1>1, <2>4, SaveKeeps DEF SaveIdentity, SaveWg
    <3> QED
      BY <2>2, <3>1 DEF Running
  <2>5. CASE CommandStep
    <3>1. OrderOK' /\ (Running /\ Sound /\ ~Excuse => Sound') /\ daemon' = daemon
      BY <1>1, <2>5, CommandStepKeeps DEF CommandStep
    <3> QED
      BY <2>2, <3>1 DEF Running
  <2>6. CASE StartUp
    <3>1. /\ OrderOK'
          /\ ~Unfit(disk.state, disk.identity)
             /\ GRACE + 1 >= Budget.faults + Budget.commands => Sound'
      BY <1>1, <2>6, StartUpKeeps
    <3>2. daemon = NotRunning /\ (Running' => daemon' # NotRunning)
      BY <2>6, NotRunningIs DEF StartUp, Running
    <3> QED
      BY <2>1, <3>1, <3>2 DEF Kept, History
  <2>7. CASE DaemonStep
    <3>1. OrderOK' /\ Running /\ (Running' /\ Sound /\ ~Excuse => Sound')
      BY <1>1, <2>1, <2>7, DaemonStepKeeps
    <3>2. daemon # NotRunning
      BY <1>1, <3>1, RunningIs
    <3> QED
      BY <2>1, <3>1, <3>2 DEF Kept, History, Excuse
  <2>8. CASE \E c \in Call : ServeCall(c)
    <3>1. PICK c \in Call : ServeCall(c)
      BY <2>8
    <3>2. OrderOK'
      BY <1>1, <3>1, ServeOrder
    <3>3. Running /\ Sound /\ ~Excuse => Sound'
      BY <1>1, <3>1, ServeSound
    <3>4. daemon' = daemon
      BY <3>1 DEF ServeCall
    <3> QED
      BY <2>2, <3>2, <3>3, <3>4 DEF Running
  <2>9. CASE Unclaimed
    <3>1. OrderOK' /\ (Running /\ Sound => Sound') /\ daemon' = daemon
      BY <2>1, <2>9, UnclaimedKeeps DEF Unclaimed
    <3> QED
      BY <2>2, <3>1 DEF Running
  <2>10. CASE Tick
    <3>1. OrderOK' /\ (Running /\ Sound => Sound')
      BY <1>1, <2>10, TickKeeps
    <3>2. Running' => Running
      BY <2>10 DEF Tick, Running
    <3> QED
      BY <2>2, <3>1, <3>2
  <2>11. CASE KillDaemon
    <3>1. OrderOK' /\ ~Running'
      BY <1>1, <2>11, KillDaemonKeeps DEF KillDaemon, coordVars
    <3> QED
      BY <3>1 DEF Kept
  <2>12. CASE KillCommand
    <3>1. OrderOK' /\ (Running /\ Sound /\ ~Excuse => Sound') /\ daemon' = daemon
      BY <1>1, <2>12, KillCommandKeeps DEF KillCommand
    <3> QED
      BY <2>2, <3>1 DEF Running
  <2>13. CASE RestartCoordinator
    <3>1. OrderOK' /\ (Running /\ Sound /\ ~Excuse => Sound') /\ daemon' = daemon
      BY <2>1, <2>13, RestartKeeps DEF RestartCoordinator
    <3> QED
      BY <2>2, <3>1 DEF Running
  <2> QED
    BY <1>3, <2>3, <2>4, <2>5, <2>6, <2>7, <2>8, <2>9, <2>10, <2>11, <2>12, <2>13
       DEF Next, CommandRuns, Faults
<1> QED
  BY <1>2, <1>3

(* Nothing is there yet. *)
LEMMA InitKeeps == Init => OrderOK /\ Kept
<1> SUFFICES ASSUME Init PROVE OrderOK /\ Kept
  OBVIOUS
<1>1. TypesOK
  BY InitTypes
<1>2. /\ nodes = <<>> /\ tokens = <<>> /\ calls = [c \in Call |-> Idle]
      /\ disk.state = Absent /\ disk.wg = Absent
      /\ daemon = NotRunning /\ command = NotRunning /\ left = Budget
  BY DEF Init, CoordInit
<1>3. DOMAIN nodes = {} /\ DOMAIN tokens = {}
  BY <1>2
<1>4. \A c \in Call : calls[c].pc = "idle"
  BY <1>2, AnsweredIs
<1>5. /\ ~Running /\ ~Refreshing /\ ~Readable(disk.state)
      /\ ~Readable(daemon.copy) /\ ~Readable(command.copy)
      /\ daemon.sent = FALSE /\ command.sent = FALSE
      /\ command.stage = "off" /\ command.op = "none"
  BY <1>2, NotRunningIs, ReadableIs DEF Running, Refreshing
<1>6. UniqueIdentities /\ Honest
  BY <1>3, <1>4, <1>5 DEF UniqueIdentities, Honest
<1>7. InTime /\ CallsOK
  BY <1>4, <1>5, ClientAssumption DEF InTime, CallsOK, Saving
<1>8. Newcomer /\ FilesOrdered
  BY <1>5 DEF Newcomer, FilesOrdered, Saving
<1>9. Spending
  <2>1. CommandsLeft = Budget.commands /\ left.faults = Budget.faults
    BY <1>1, <1>2, Numbers DEF CommandsLeft
  <2> QED
    BY <1>1, <1>2, <1>5, <2>1, Numbers DEF Spending
<1> QED
  BY <1>1, <1>5, <1>6, <1>7, <1>8, <1>9 DEF OrderOK, Kept

(* What is kept is enough. *)
LEMMA KeptIsEnough ==
  ASSUME OrderOK, Kept
  PROVE  DaemonKeepsToken
  BY GoodIs DEF Kept, Sound, HoldsToken, DaemonKeepsToken, Refreshing

-----------------------------------------------------------------------------
(* Random values do not run out: the tables are finite, so infinitely many keys,
   node ids and tokens are enough. *)

Unlimited ==
    /\ ~IsFiniteSet(Identity) /\ ~IsFiniteSet(WgKey)
    /\ ~IsFiniteSet(NodeId) /\ ~IsFiniteSet(Token)

Finite == IsFiniteSet(DOMAIN nodes) /\ IsFiniteSet(DOMAIN tokens)

(* A column of a finite table. *)
LEMMA ColumnIsFinite ==
  ASSUME NEW S, IsFiniteSet(S), NEW f
  PROVE  IsFiniteSet({f[x] : x \in S})
<1> DEFINE T == {f[x] : x \in S}
           g == [x \in S |-> f[x]]
<1>1. g \in [S -> T] /\ \A t \in T : \E x \in S : g[x] = t
  OBVIOUS
<1>2. g \in Surjection(S, T)
  BY <1>1 DEF Surjection
<1> QED
  BY <1>2, FS_Surjection

(* A set that is not finite has an element outside a finite one. *)
LEMMA SomethingElse ==
  ASSUME NEW S, ~IsFiniteSet(S), NEW U, IsFiniteSet(U)
  PROVE  \E x \in S : x \notin U
<1> SUFFICES ASSUME \A x \in S : x \in U PROVE FALSE
  OBVIOUS
<1>1. S \in SUBSET U
  OBVIOUS
<1> QED
  BY <1>1, FS_Subset

(* What the processes and the files refer to is finite. *)
LEMMA FiniteLeavesSpare ==
  ASSUME Unlimited, Finite
  PROVE  Spare
<1>1. ASSUME NEW a, NEW b, NEW c, NEW d, NEW e, NEW f
      PROVE  /\ IsFiniteSet({a, b}) /\ IsFiniteSet({a, b, c, d, e})
             /\ IsFiniteSet({a, b, c, d, e, f})
  <2>1. IsFiniteSet({a})
    BY FS_Singleton
  <2>2. IsFiniteSet({a} \cup {b})
    BY <2>1, FS_AddElement
  <2>3. IsFiniteSet(({a} \cup {b}) \cup {c})
    BY <2>2, FS_AddElement
  <2>4. IsFiniteSet((({a} \cup {b}) \cup {c}) \cup {d})
    BY <2>3, FS_AddElement
  <2>5. IsFiniteSet(((({a} \cup {b}) \cup {c}) \cup {d}) \cup {e})
    BY <2>4, FS_AddElement
  <2>6. IsFiniteSet((((({a} \cup {b}) \cup {c}) \cup {d}) \cup {e}) \cup {f})
    BY <2>5, FS_AddElement
  <2>7. /\ {a, b} = {a} \cup {b}
        /\ {a, b, c, d, e} = ((({a} \cup {b}) \cup {c}) \cup {d}) \cup {e}
        /\ {a, b, c, d, e, f} = (((({a} \cup {b}) \cup {c}) \cup {d}) \cup {e}) \cup {f}
    OBVIOUS
  <2> QED
    BY <2>2, <2>5, <2>6, <2>7
<1>2. Call = {"daemon", "command"}
  BY ClientAssumption
<1>3. \E t \in Token : UnusedToken(t)
  <2> DEFINE U == {disk.state.token, daemon.copy.token, command.copy.token, daemon.token,
                   calls["daemon"].token, calls["command"].token}
  <2>1. IsFiniteSet(DOMAIN tokens \cup U)
    BY <1>1, FS_Union DEF Finite
  <2>2. PICK t \in Token : t \notin DOMAIN tokens \cup U
    BY <2>1, SomethingElse DEF Unlimited
  <2> QED
    BY <1>2, <2>2 DEF UnusedToken, Copies
<1>4. \E n \in NodeId : UnusedNode(n)
  <2> DEFINE U == {disk.state.node, daemon.copy.node, command.copy.node,
                   calls["daemon"].node, calls["command"].node}
             node == [t \in DOMAIN tokens |-> tokens[t].node]
             V == {node[t] : t \in DOMAIN tokens}
  <2>1. IsFiniteSet(U)
    BY <1>1
  <2>2. IsFiniteSet(V)
    BY ColumnIsFinite DEF Finite
  <2> HIDE DEF U, V
  <2>3. IsFiniteSet((DOMAIN nodes \cup U) \cup V)
    BY <2>1, <2>2, FS_Union DEF Finite
  <2>4. PICK n \in NodeId : n \notin (DOMAIN nodes \cup U) \cup V
    BY <2>3, SomethingElse DEF Unlimited
  <2> QED
    BY <1>2, <2>4 DEF UnusedNode, Copies, U, V
<1>5. \E k \in Identity : k \notin UsedIdentities
  <2> DEFINE identity == [n \in DOMAIN nodes |-> nodes[n].identity]
             V == {identity[n] : n \in DOMAIN nodes}
             U == {disk.identity, daemon.identity}
  <2>1. IsFiniteSet(V)
    BY ColumnIsFinite DEF Finite
  <2>2. IsFiniteSet(U)
    BY <1>1
  <2>3. UsedIdentities = U \cup V
    BY DEF UsedIdentities
  <2> HIDE DEF U, V
  <2> QED
    BY <2>1, <2>2, <2>3, FS_Union, SomethingElse DEF Unlimited
<1>6. \E k \in WgKey : k \notin UsedWgKeys
  <2> DEFINE wg == [n \in DOMAIN nodes |-> nodes[n].wg]
             V == {wg[n] : n \in DOMAIN nodes}
             U == {disk.wg, daemon.wg}
  <2>1. IsFiniteSet(V)
    BY ColumnIsFinite DEF Finite
  <2>2. IsFiniteSet(U)
    BY <1>1
  <2>3. UsedWgKeys = U \cup V
    BY DEF UsedWgKeys
  <2> HIDE DEF U, V
  <2> QED
    BY <2>1, <2>2, <2>3, FS_Union, SomethingElse DEF Unlimited
<1> QED
  BY <1>3, <1>4, <1>5, <1>6 DEF Spare

(* A request changes no table. *)
LEMMA RequestsChangeNothing ==
  ASSUME NEW c, NEW p, NEW outcome, Await(c, p, outcome)
  PROVE  nodes' = nodes /\ tokens' = tokens
<1>1. CASE Respond(c) \/ UNCHANGED coordVars
  BY <1>1 DEF Respond, coordVars
<1>2. CASE p.stage \in Calling /\ Requested(c, p)
  BY <1>2 DEF Calling, Requested, Register, Peers, Heartbeat, RefreshToken, DeleteNode,
              Authenticate
<1> QED
  BY <1>1, <1>2 DEF Await

(* A section of a handler adds a row at most. *)
LEMMA SectionsAddARow ==
  ASSUME NEW c, ServeCall(c)
  PROVE  /\ \E n : DOMAIN nodes' \subseteq DOMAIN nodes \cup {n}
         /\ \E t : DOMAIN tokens' \subseteq DOMAIN tokens \cup {t}
<1>1. CASE InsertNode(c, NewNode, NewToken)
  BY <1>1 DEF InsertNode, With, Fail
<1>2. CASE CreateToken(c, NewToken)
  BY <1>2 DEF CreateToken, With, Fail
<1>3. CASE ListPeers(c) \/ UpdateHeartbeat(c) \/ ReleaseAddress(c)
  BY <1>3 DEF ListPeers, UpdateHeartbeat, ReleaseAddress, Fail
<1>4. CASE RevokeTokens(c) \/ DeleteRows(c)
  BY <1>4 DEF RevokeTokens, DeleteRows, Without, Restrict, Fail
<1> QED
  BY <1>1, <1>2, <1>3, <1>4 DEF ServeCall

(* The tables stay finite. *)
LEMMA NextFinite ==
  ASSUME Finite, [Next]_vars
  PROVE  Finite'
<1>1. /\ \E n : DOMAIN nodes' \subseteq DOMAIN nodes \cup {n}
      /\ \E t : DOMAIN tokens' \subseteq DOMAIN tokens \cup {t}
  <2>1. CASE UNCHANGED <<nodes, tokens>>
    BY <2>1
  <2>2. CASE \E c \in Call : ServeCall(c)
    BY <2>2, SectionsAddARow
  <2>3. CASE Tick
    BY <2>3 DEF Tick, Expire
  <2>4. CASE CommandStep \/ DaemonStep
    BY <2>1, <2>4, RequestsChangeNothing DEF CommandStep, DaemonStep, Wake, coordVars
  <2>5. CASE CommandNext \/ SaveIdentity \/ SaveWg
    BY <2>1, <2>5 DEF CommandNext, StartInit, StartRegister, StartPeers, StartHeartbeat,
       StartRefresh, StartDeregister, Start, SaveIdentity, SaveWg, coordVars
  <2>6. CASE StartUp \/ Unclaimed \/ Faults
    BY <2>1, <2>6 DEF StartUp, Unclaimed, Respond, Faults, KillDaemon, KillCommand,
       RestartCoordinator, Restart, coordVars
  <2>7. CASE UNCHANGED vars
    BY <2>1, <2>7 DEF vars, coordVars
  <2> QED
    BY <2>2, <2>3, <2>4, <2>5, <2>6, <2>7 DEF Next, CommandRuns
<1>2. PICK n : DOMAIN nodes' \subseteq DOMAIN nodes \cup {n}
  BY <1>1
<1>3. PICK t : DOMAIN tokens' \subseteq DOMAIN tokens \cup {t}
  BY <1>1
<1>4. IsFiniteSet(DOMAIN nodes \cup {n}) /\ IsFiniteSet(DOMAIN tokens \cup {t})
  BY FS_AddElement DEF Finite
<1> QED
  BY <1>2, <1>3, <1>4, FS_Subset DEF Finite

(* So there is always a value to draw. *)
LEMMA AlwaysSpare ==
  ASSUME Unlimited
  PROVE  Spec => []Spare
<1>1. Init => Finite
  BY FS_EmptySet DEF Init, CoordInit, Finite
<1>2. Finite /\ [Next]_vars => Finite'
  BY NextFinite
<1>3. Finite => Spare
  BY FiniteLeavesSpare
<1> QED
  BY <1>1, <1>2, <1>3, PTL DEF Spec

-----------------------------------------------------------------------------
(* The results. *)

(* The files, the processes and the coordinator's tables and handlers hold what
   their types say, and a process that saves has a state to save (state.rs:35-53,
   cli.rs:141-680, routes.rs:52-345), for any number of faults and commands. *)
THEOREM ClientTypeCorrect ==
  ASSUME Unlimited
  PROVE  Spec => []TypeOK
<1>1. TypesOK /\ Spare /\ [Next]_vars => TypesOK'
  BY NextTypes
<1>2. Spec => []Spare
  BY AlwaysSpare
<1>3. TypesOK => TypeOK
  BY DEF TypesOK
<1> QED
  BY <1>1, <1>2, <1>3, InitTypes, PTL DEF Spec

(* A running daemon keeps its token (cli.rs:582-603), for every TTL and grace and
   for any number of starts, as long as faults and commands together are no more
   than GRACE + 1.  Two of these commands, init and register, are over before it can
   start; each of the others, and each fault, may cost it one of the refreshes that
   the grace leaves time for. *)
THEOREM DaemonNeverLosesToken ==
  ASSUME Unlimited, ~DbErrors, GRACE + 1 >= Budget.faults + Budget.commands
  PROVE  Spec => []DaemonKeepsToken
<1> DEFINE IInv == OrderOK /\ Kept
<1>1. Init => IInv
  BY InitKeeps
<1>2. IInv /\ Spare /\ [Next]_vars => IInv'
  BY NextKeeps
<1>3. IInv => DaemonKeepsToken
  BY KeptIsEnough
<1>4. Spec => []Spare
  BY AlwaysSpare
<1> QED
  BY <1>1, <1>2, <1>3, <1>4, PTL DEF Spec

=============================================================================
