------------------------------- MODULE MCPair -------------------------------
(***************************************************************************)
(* Two nodes that reach each other directly, as in the integration test    *)
(* two_nodes_complete_handshake_and_tunnel_a_packet: a initiates.          *)
(***************************************************************************)
EXTENDS TunnelProperties

CONSTANTS a, b, addrA, addrB, addrN

Discovered == INSTANCE Discovery

PairHome == [n \in {a, b} |-> IF n = a THEN addrA ELSE addrB]

Flags(n) == [bind |-> Unspecified, advertise |-> PairHome[n], relay |-> None,
             rank |-> IF n = a THEN 2 ELSE 1]

PairConfig ==
    [n \in {a, b} |-> [p \in {a, b} |->
        Discovered!PeerConfigFor(Flags(n), Discovered!Registered(Flags(p)))]]

NoFaults == [ticks |-> 0, loss |-> 0, dup |-> 0, errors |-> 0,
             stops |-> 0, rebinds |-> 0, data |-> 0]
Faults == [NoFaults EXCEPT !.loss = 1, !.errors = 1, !.stops = 1]
AsyncBudget == [NoFaults EXCEPT !.ticks = 2, !.dup = 1, !.errors = 1, !.data = 1]
=============================================================================
