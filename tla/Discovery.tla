----------------------------- MODULE Discovery -----------------------------
(***************************************************************************)
(* How `naboscale up` turns the peers the coordinator lists into the       *)
(* PeerConfigs of its tunnel manager (cmd_up, at start and in the          *)
(* discovery arm of its loop).                                             *)
(*                                                                         *)
(* The flags a node runs with are a record [bind, advertise, relay, rank]: *)
(* the address it is bound to (cmd_up binds the wildcard; the variable     *)
(* NABOSCALE_ADVERTISE_ENDPOINT may name another one, which takes its      *)
(* place), --advertise-endpoint and --relay (or None), and the rank of its *)
(* WireGuard key in byte order.  What its heartbeat leaves at the          *)
(* coordinator is a record [last_endpoint, via_relay, rank].  Every        *)
(* address with a wildcard IP is Unspecified.                              *)
(***************************************************************************)
EXTENDS Naturals, TLAPS

CONSTANTS Unspecified, None

(* The endpoint the heartbeat advertises. *)
Advertised(flags) ==
    CASE flags.advertise # None -> flags.advertise
      [] flags.advertise = None /\ flags.relay # None -> flags.relay
      [] OTHER -> flags.bind

Registered(flags) ==
    [last_endpoint |-> Advertised(flags), via_relay |-> flags.relay,
     rank |-> flags.rank]

(* A peer without an endpoint, or with a wildcard one and no relay, is
   skipped. *)
Usable(peer) ==
    /\ peer.last_endpoint # None
    /\ peer.last_endpoint = Unspecified => peer.via_relay # None

(* The role override, then the comparison of the keys.  In the mutant a peer
   behind a relay is not made to initiate. *)
IsInitiatorByKey(flags, peer) == flags.relay # None \/ flags.rank > peer.rank

IsInitiator(flags, peer) ==
    \/ flags.relay # None
    \/ flags.relay = None /\ peer.via_relay = None /\ flags.rank > peer.rank

ViaRelay(flags, peer) ==
    IF peer.via_relay # None THEN peer.via_relay ELSE flags.relay

PeerConfigFor(flags, peer) ==
    IF Usable(peer)
    THEN [is_initiator |-> IsInitiator(flags, peer),
          endpoint |-> peer.last_endpoint,
          via_relay |-> ViaRelay(flags, peer)]
    ELSE None

=============================================================================
