-------------------------- MODULE OpenCoordinator --------------------------
(***************************************************************************)
(* The coordinator with arbitrary clients: any request at any time, with   *)
(* any keys and any token that is still good, whoever sends it.            *)
(***************************************************************************)
EXTENDS Coordinator

VARIABLE drawn  \* the random values that have ever named a row

vars == <<nodes, tokens, used, calls, drawn>>

Init == CoordInit /\ drawn = {}

(* One handler's next locked section. *)
Serve(c) ==
    \/ \E n \in NodeId \ drawn, t \in Token \ drawn :
          /\ InsertNode(c, n, t)
          /\ drawn' = IF nodes' = nodes THEN drawn ELSE drawn \cup {n, t}
    \/ \E t \in Token \ drawn :
          /\ CreateToken(c, t)
          /\ drawn' = IF tokens' = tokens THEN drawn ELSE drawn \cup {t}
    \/ /\ \/ ListPeers(c)
          \/ UpdateHeartbeat(c)
          \/ RevokeTokens(c)
          \/ DeleteRows(c)
          \/ ReleaseAddress(c)
          \/ Respond(c)
       /\ UNCHANGED drawn

Request(c) ==
    /\ \/ \E k \in Identity, w \in WgKey : Register(c, k, w)
       \/ \E t \in DOMAIN tokens : Peers(c, t)
       \/ \E t \in DOMAIN tokens, k \in Identity :
             \/ \E r \in Report : Heartbeat(c, t, k, r)
             \/ RefreshToken(c, t, k)
             \/ DeleteNode(c, t, k)
    /\ UNCHANGED drawn

Next ==
    \/ \E c \in Call : Request(c) \/ Serve(c)
    \/ (Restart \/ Expire) /\ UNCHANGED drawn

Spec == Init /\ [][Next]_vars

-----------------------------------------------------------------------------

NodeRow == [identity : Identity, wg : WgKey, ip : Address,
            endpoint : {r.endpoint : r \in Report} \cup {None},
            via_relay : {r.via_relay : r \in Report} \cup {None}]

TokenRow == [node : NodeId, left : 0..TTL]

CallRecord ==
    [pc : {"idle", "insert", "list", "update", "revoke", "create", "delete",
           "release", "ok", "error"},
     node : NodeId \cup {None}, identity : Identity \cup {None},
     wg : WgKey \cup {None}, ip : 0..HostCount,
     report : Report \cup {None}, token : Token \cup {None}, left : 0..TTL]

(* Every row and every handler holds values of the right kind, and the node a
   handler has looked up is one that was in the table once. *)
TypeOK ==
    /\ DOMAIN nodes \subseteq NodeId \cap drawn
    /\ nodes \in [DOMAIN nodes -> NodeRow]
    /\ DOMAIN tokens \subseteq Token \cap drawn
    /\ tokens \in [DOMAIN tokens -> TokenRow]
    /\ \A t \in DOMAIN tokens : tokens[t].node \in drawn
    /\ used \subseteq Address
    /\ calls \in [Call -> CallRecord]
    /\ \A c \in Call : calls[c].pc \in {"update", "revoke", "create", "delete"}
                          => calls[c].node \in NodeId \cap drawn
    /\ drawn \subseteq NodeId \cup Token

(* The addresses in the hands of a handler: allocated and not yet in the
   table, or out of the table and not yet released. *)
Holding == {c \in Call : calls[c].pc \in {"insert", "release"}}

(* The pool and the table agree although no lock covers both: an address in
   the table or in the hands of a handler is marked used, and no two of them
   are the same.  So the pool never hands out an address that is taken, not
   between the deletion of a node and the release of its address, not after
   two deletions of one node and not after a restart in between. *)
ReservedAddresses ==
    /\ Assigned \subseteq used
    /\ \A c \in Holding : calls[c].ip \in used \ Assigned
    /\ \A c, d \in Holding : c # d => calls[c].ip # calls[d].ip

(* Marked used, and nobody's: lost until the coordinator restarts. *)
Held == {calls[c].ip : c \in Holding}
Lost == used \ (Assigned \cup Held)

(* A registration fails after allocating the address, or a deletion could not
   read the address of the node it deletes. *)
FailedWith(i) ==
    \E c \in Call :
       \/ /\ calls[c].pc = "insert" /\ calls[c].ip = i
          /\ calls'[c].pc = "error"
       \/ /\ calls[c].pc = "delete" /\ DbErrors
          /\ calls[c].node \in DOMAIN nodes /\ nodes[calls[c].node].ip = i
          /\ calls'[c].pc = "ok"

(* An address is lost only by such a failure (routes.rs:83 releases nothing),
   and never by handlers that overlap. *)
LostOnlyByFailure == [][\A i \in Lost' \ Lost : FailedWith(i)]_vars

(* What Registry sees of the tables. *)
Good == {t \in DOMAIN tokens : Active(t)}
Credentials == [t \in Good |-> tokens[t].node]
Where == [endpoint : {r.endpoint : r \in Report} \cup {None},
          via_relay : {r.via_relay : r \in Report} \cup {None}]

(* The coordinator implements the register of members: one mutex per table
   statement is enough for atomic joins and departures, a token that has been
   revoked, has expired or whose node is gone never works again, not even when
   a refresh and a deletion of the same node overlap, and no statement of a
   late handler brings back a row that was deleted. *)
Promise == INSTANCE Registry WITH
    Name <- NodeId,
    Credential <- Token,
    Whereabouts <- Where,
    members <- nodes,
    credentials <- Credentials

KeepsPromise == Promise!Spec
=============================================================================
