------------------------------ MODULE MCClient ------------------------------
(***************************************************************************)
(* One device from its first `init` on: keys for two nodes, a token that   *)
(* lives five heartbeat intervals and is refreshed in the last three.      *)
(***************************************************************************)
EXTENDS Client

CONSTANTS here

Calls == {"daemon", "command"}

OneReport == {[endpoint |-> here, via_relay |-> None]}

AllCommands == {"init", "register", "peers", "heartbeat", "refresh-token",
                "deregister"}

SetUpAndRefresh == {"init", "register", "refresh-token"}

(* The two commands that set the device up, and one more; the request, the
   answer, the process or the coordinator that fails. *)
Session == [commands |-> 3, starts |-> 2, faults |-> 1]

NoFaults == [commands |-> 3, starts |-> 1, faults |-> 0]
=============================================================================
