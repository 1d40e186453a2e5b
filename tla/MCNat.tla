-------------------------------- MODULE MCNat --------------------------------
(***************************************************************************)
(* The topology of the README's "NAT'd node (with relay)": h is a home     *)
(* node behind a NAT that runs with --relay set to the address of r; r and *)
(* c are reachable directly.  The README has h advertise the address of    *)
(* its relay as well; with a wildcard endpoint, which cmd_up also accepts  *)
(* of a relayed node, no two peers share an address.                       *)
(***************************************************************************)
EXTENDS TunnelProperties
LOCAL INSTANCE Functions

CONSTANTS h, r, c, addrH, addrR, addrC, addrN

Discovered == INSTANCE Discovery

NatHome == [n \in Node |->
               CASE n = h -> addrH [] n = r -> addrR [] n = c -> addrC]

Flags(n, advertised) ==
    [bind |-> Unspecified,
     advertise |-> IF n = h THEN advertised ELSE NatHome[n],
     relay |-> IF n = h THEN addrR ELSE None,
     rank |-> CASE n = h -> 1 [] n = r -> 3 [] n = c -> 2]

NatConfig(advertised) ==
    [n \in Node |-> [p \in Node |->
        Discovered!PeerConfigFor(Flags(n, advertised),
            Discovered!Registered(Flags(p, advertised)))]]

ReadmeConfig == NatConfig(addrR)
WildcardConfig == NatConfig(Unspecified)

NoFaults == [ticks |-> 0, loss |-> 0, dup |-> 0, errors |-> 0,
             stops |-> 0, rebinds |-> 0, data |-> 0]
OnePacket == [NoFaults EXCEPT !.data = 1]
OneRebind == [NoFaults EXCEPT !.rebinds = 1, !.data = 1]
Moves == [NoFaults EXCEPT !.rebinds = 3, !.stops = 1]

(* States that Start, AddPeer and a handshake lead to when nothing else runs:
   every daemon has started and been given every peer, but for the pairs in
   unaware, and no INIT is out yet.  The peers that share an endpoint may have
   been added in any order.  When h is home, it and its relay have done their
   handshake and sent their first keepalives.  h sends through the relay even
   what is for the relay, which learns h's address that way; the relay sends
   what is for h to itself, and drops it as a RELAY of no peer. *)
Initiating == {q \in Node \X Node : q[1] # q[2] /\ Config[q[1]][q[2]].is_initiator}

Numbering == CHOOSE f \in Injection(Initiating, Ephemeral) : TRUE

FirstSession(q) ==
    NewSession(q[1], q[2], IF q \in Initiating THEN Numbering[q] ELSE None)

HomeSession(q) ==
    LET initiated == q = <<h, r>>
        t == NewTransport(Numbering[<<h, r>>],
                          IF initiated THEN "initiator" ELSE "responder", q[2])
    IN [FirstSession(q) EXCEPT
          !.state = Established([t EXCEPT !.send = 1,
                                          !.recv = IF initiated THEN 0 ELSE 1]),
          !.last_handshake_at = 0, !.last_rx_at = 0, !.last_tx_at = 0,
          !.next_init_at = IF initiated THEN INIT_RETRY_INTERVAL ELSE None]

Settled(unaware, home) ==
    /\ up = Node
    /\ addr = HomeAddr
    /\ peers = [n \in Node |-> [p \in Node |->
          IF n = p \/ <<n, p>> \in unaware THEN Absent
          ELSE IF home /\ {n, p} = {h, r} THEN HomeSession(<<n, p>>)
          ELSE FirstSession(<<n, p>>)]]
    /\ \E last \in Node :
          endpoint_to_peer =
             [n \in Node |-> [x \in Addr |->
                LET owners == {p \in Node \ {n} : /\ <<n, p>> \notin unaware
                                                  /\ Config[n][p].endpoint = x} IN
                IF owners = {} THEN None
                ELSE IF last \in owners THEN last
                ELSE CHOOSE p \in owners : TRUE]]
    /\ learned_endpoints = [n \in Node |-> [p \in Node |->
          IF home /\ <<n, p>> = <<r, h>> THEN addr[h] ELSE None]]
    /\ age = [e \in Ephemeral |-> 0]
    /\ net = EmptyBag
    /\ left = Budget

SettledSpec == Settled({}, FALSE) /\ [][Next]_vars

(* h may not have discovered its relay yet.  An INIT for c that comes to an
   address which was c's, and is h's by now, then has an unknown source. *)
RoamSpec ==
    /\ Settled({}, FALSE) \/ Settled({<<h, r>>}, FALSE)
    /\ [][Next]_vars

(* c joins when h and its relay are connected; h has discovered it, and the
   relay may have discovered it already, or not yet. *)
Welcome == Settled({}, TRUE)
JoinSpec ==
    /\ Welcome \/ Settled({<<r, c>>}, TRUE)
    /\ [][Next]_vars
    /\ Fairness

(* Every two peers are connected again and again, without a single retry: time
   stands still here, so a RELAY that a relay drops is lost for good, and only
   behaviours that begin with a relay that knows its peers can promise it. *)
TrioReconnects == Welcome => AlwaysReconnects
=============================================================================
