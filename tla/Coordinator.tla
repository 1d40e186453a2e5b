---------------------------- MODULE Coordinator ----------------------------
(***************************************************************************)
(* The coordinator, naboscale-coord: the tables nodes and tokens, the      *)
(* address pool and the handlers of /v1/register, /v1/peers,               *)
(* /v1/heartbeat, /v1/token/refresh and DELETE /v1/node.                   *)
(*                                                                         *)
(* A handler awaits nothing, but the runtime has several threads, and the  *)
(* database and the pool have a mutex each that is taken statement group   *)
(* by statement group.  So a handler is a call with a pc and one action    *)
(* per locked section; handlers interleave between them, the process may   *)
(* die between them (Restart), and a statement may fail (DbErrors).        *)
(*                                                                         *)
(* A call begins with its first locked section: a request that is refused  *)
(* before or there (rate, body, timestamp, signature, token) leaves no     *)
(* trace.  Reading the clock and looking the token up are one step.        *)
(*                                                                         *)
(* Times are kept as what is left of them.  A token row that is revoked is *)
(* left out of `tokens`, since every query that reads the table filters on *)
(* revoked = 0; one that has expired stays, with nothing left.             *)
(***************************************************************************)
EXTENDS Integers, Functions, FiniteSets

CONSTANTS
    Identity, WgKey,    \* public keys
    NodeId, Token,      \* random values: UUIDs and auth tokens
    Report,             \* what heartbeats carry: [endpoint, via_relay]
    HostCount,          \* IP_POOL_HOST_COUNT
    TTL,                \* token_ttl_secs, in units of time
    Call,               \* bound: requests handled at a time
    None,
    ForeignKeys,        \* SQLite enforces REFERENCES nodes(node_id)
    DbErrors            \* any statement may fail

ASSUME CoordinatorAssumption ==
    /\ HostCount \in Nat \ {0}
    /\ TTL \in Nat
    /\ ForeignKeys \in BOOLEAN
    /\ DbErrors \in BOOLEAN
    /\ \A r \in Report : DOMAIN r = {"endpoint", "via_relay"}

VARIABLES
    nodes,      \* the rows of `nodes`, by node_id
    tokens,     \* the rows of `tokens` with revoked = 0, by token
    used,       \* IpAllocator.used, by host number
    calls       \* the handlers that run, and the answers not yet sent

coordVars == <<nodes, tokens, used, calls>>

Address == 1..HostCount

Idle == [pc |-> "idle", node |-> None, identity |-> None, wg |-> None,
         ip |-> 0, report |-> None, token |-> None, left |-> 0]

Answered(answer) == [Idle EXCEPT !.pc = answer]

CoordInit ==
    /\ nodes = <<>>
    /\ tokens = <<>>
    /\ used = {}
    /\ calls = [c \in Call |-> Idle]

-----------------------------------------------------------------------------

Assigned == {nodes[n].ip : n \in DOMAIN nodes}

Free == Address \ used

(* get_node_by_token joins the tables, so a row whose node is gone is not
   found either.  In the mutant it reads the tokens only. *)
ActiveUnjoined(t) == t \in DOMAIN tokens /\ tokens[t].left > 0
Active(t) ==
    /\ t \in DOMAIN tokens
    /\ tokens[t].left > 0
    /\ tokens[t].node \in DOMAIN nodes

TokensOf(n) == {t \in DOMAIN tokens : tokens[t].node = n}

(* The UNIQUE columns. *)
Conflict(row) ==
    \E n \in DOMAIN nodes : \/ nodes[n].identity = row.identity
                            \/ nodes[n].wg = row.wg
                            \/ nodes[n].ip = row.ip

With(table, key, row) ==
    [k \in DOMAIN table \cup {key} |-> IF k = key THEN row ELSE table[k]]

Without(table, keys) == Restrict(table, DOMAIN table \ keys)

Goto(c, call) == calls' = [calls EXCEPT ![c] = call]

Fail(c) == Goto(c, Answered("error")) /\ UNCHANGED <<nodes, tokens>>

-----------------------------------------------------------------------------

(* register up to the allocation, which takes the lowest free address.  An
   exhausted pool is answered at once. *)
Register(c, identity, wg) ==
    /\ calls[c].pc = "idle"
    /\ \/ Free = {} /\ Goto(c, Answered("error")) /\ UNCHANGED used
       \/ \E i \in Free :
             /\ \A j \in Free : i <= j
             /\ Goto(c, [Idle EXCEPT !.pc = "insert", !.identity = identity,
                             !.wg = wg, !.ip = i, !.left = TTL])
             /\ used' = used \cup {i}
    /\ UNCHANGED <<nodes, tokens>>

(* insert_node: two statements, no transaction.  Nothing gives the address
   back when the first one fails. *)
InsertNode(c, n, t) ==
    LET call == calls[c]
        row == [identity |-> call.identity, wg |-> call.wg, ip |-> call.ip,
                endpoint |-> None, via_relay |-> None] IN
    /\ call.pc = "insert"
    /\ \/ (Conflict(row) \/ DbErrors) /\ Fail(c)
       \/ /\ ~Conflict(row)
          /\ nodes' = With(nodes, n, row)
          /\ \/ /\ tokens' = With(tokens, t, [node |-> n, left |-> call.left])
                /\ Goto(c, [Answered("ok") EXCEPT !.node = n, !.token = t,
                                                  !.left = call.left])
             \/ DbErrors /\ Goto(c, Answered("error")) /\ UNCHANGED tokens
    /\ UNCHANGED used

(* The handlers that need a token: find its node, check the signature with
   the identity key of that node. *)
Authenticate(c, t, identity, call) ==
    /\ calls[c].pc = "idle"
    /\ Active(t)
    /\ nodes[tokens[t].node].identity = identity
    /\ Goto(c, [call EXCEPT !.node = tokens[t].node])
    /\ UNCHANGED <<nodes, tokens, used>>

(* GET /v1/peers carries no signature. *)
Peers(c, t) ==
    /\ Active(t)
    /\ Authenticate(c, t, nodes[tokens[t].node].identity,
                    [Idle EXCEPT !.pc = "list"])
Heartbeat(c, t, identity, report) ==
    Authenticate(c, t, identity, [Idle EXCEPT !.pc = "update", !.report = report])
RefreshToken(c, t, identity) ==
    Authenticate(c, t, identity, [Idle EXCEPT !.pc = "revoke", !.left = TTL])
DeleteNode(c, t, identity) ==
    Authenticate(c, t, identity, [Idle EXCEPT !.pc = "delete"])

(* list_peers reads the table in one go; the entries are not kept. *)
ListPeers(c) ==
    /\ calls[c].pc = "list"
    /\ \/ Goto(c, Answered("ok"))
       \/ DbErrors /\ Goto(c, Answered("error"))
    /\ UNCHANGED <<nodes, tokens, used>>

(* via_relay = COALESCE(?, via_relay) *)
Reported(row, report) ==
    [row EXCEPT !.endpoint = report.endpoint,
                !.via_relay = IF report.via_relay = None THEN row.via_relay
                              ELSE report.via_relay]

(* An UPDATE of a node that is gone changes no row and is no error. *)
UpdateHeartbeat(c) ==
    LET call == calls[c] IN
    /\ call.pc = "update"
    /\ \/ DbErrors /\ Fail(c)
       \/ /\ Goto(c, Answered("ok"))
          /\ nodes' = [n \in DOMAIN nodes |->
                          IF n = call.node THEN Reported(nodes[n], call.report)
                          ELSE nodes[n]]
          /\ UNCHANGED tokens
    /\ UNCHANGED used

(* revoke_all_tokens_for_node, before the new token is made. *)
RevokeTokens(c) ==
    /\ calls[c].pc = "revoke"
    /\ \/ DbErrors /\ Fail(c)
       \/ /\ Goto(c, [calls[c] EXCEPT !.pc = "create"])
          /\ tokens' = Without(tokens, TokensOf(calls[c].node))
          /\ UNCHANGED nodes
    /\ UNCHANGED used

CreateToken(c, t) ==
    LET call == calls[c]
        orphan == ForeignKeys /\ call.node \notin DOMAIN nodes IN
    /\ call.pc = "create"
    /\ \/ (orphan \/ DbErrors) /\ Fail(c)
       \/ /\ ~orphan
          /\ tokens' = With(tokens, t, [node |-> call.node, left |-> call.left])
          /\ Goto(c, [Answered("ok") EXCEPT !.node = call.node, !.token = t,
                                            !.left = call.left])
          /\ UNCHANGED nodes
    /\ UNCHANGED used

(* db::delete_node under one lock: SELECT ip, whose failure `.ok()` takes
   for a node that is gone, then the tokens, then the node. *)
DeleteRows(c) ==
    LET call == calls[c]
        n == call.node IN
    /\ call.pc = "delete"
    /\ \/ /\ nodes' = Without(nodes, {n})
          /\ tokens' = Without(tokens, TokensOf(n))
          /\ IF n \in DOMAIN nodes
             THEN \/ Goto(c, [Idle EXCEPT !.pc = "release", !.ip = nodes[n].ip])
                  \/ DbErrors /\ Goto(c, Answered("ok"))
             ELSE Goto(c, Answered("ok"))
       \/ /\ DbErrors
          /\ Goto(c, Answered("error"))
          /\ tokens' \in {tokens, Without(tokens, TokensOf(n))}
          /\ UNCHANGED nodes
    /\ UNCHANGED used

(* In the mutant the release does not reach the pool. *)
ForgetAddress(c) ==
    /\ calls[c].pc = "release"
    /\ Goto(c, Answered("ok"))
    /\ UNCHANGED <<nodes, tokens, used>>

ReleaseAddress(c) ==
    /\ calls[c].pc = "release"
    /\ used' = used \ {calls[c].ip}
    /\ Goto(c, Answered("ok"))
    /\ UNCHANGED <<nodes, tokens>>

(* The answer leaves the server; whether it arrives is the network's affair. *)
Respond(c) ==
    /\ calls[c].pc \in {"ok", "error"}
    /\ Goto(c, Idle)
    /\ UNCHANGED <<nodes, tokens, used>>

(* The process dies and starts again: IpAllocator::new reads the nodes.  In
   the mutant it starts with an empty pool. *)
RestartEmpty ==
    /\ calls' = [c \in Call |-> Idle]
    /\ used' = {}
    /\ UNCHANGED <<nodes, tokens>>

Restart ==
    /\ calls' = [c \in Call |-> Idle]
    /\ used' = Assigned
    /\ UNCHANGED <<nodes, tokens>>

LessUnfloored(n) == n - 1
Less(n) == IF n = 0 THEN 0 ELSE n - 1

Expire ==
    /\ tokens' = [t \in DOMAIN tokens |->
                     [tokens[t] EXCEPT !.left = Less(tokens[t].left)]]
    /\ calls' = [c \in Call |-> [calls[c] EXCEPT !.left = Less(calls[c].left)]]
    /\ UNCHANGED <<nodes, used>>
=============================================================================
