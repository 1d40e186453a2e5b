-------------------------- MODULE TunnelProperties --------------------------
(***************************************************************************)
(* What the tunnel managers of a mesh promise each other.  Which property  *)
(* holds under which assumptions is the subject of the runs of MCPair and  *)
(* MCNat; the README tells the two apart.                                  *)
(***************************************************************************)
EXTENDS TunnelManager

Sessions == {q \in Node \X Node : q[2] \in Known(q[1])}
Session(q) == peers[q[1]][q[2]]
ReadySessions == {q \in Sessions : IsReady(Session(q))}
TransportOf(q) == Session(q).state.transport
Reverse(q) == <<q[2], q[1]>>

-----------------------------------------------------------------------------
(* Invariants *)

(* The address index and the sessions agree: an address in endpoint_to_peer
   leads to a peer whose session has that address as its endpoint.  add_peer,
   the two endpoint refreshes of handle_incoming and the restart of a daemon
   write the two in separate statements, and a peer that moves may leave an
   address, or take one, that the index has for another peer. *)
EndpointsCoherent ==
    \A n \in Node, x \in Addr :
        LET p == endpoint_to_peer[n][x] IN
        p # None => p \in Known(n) /\ peers[n][p].endpoint = x

(* No nonce is used twice under one key: every TRANSPORT in flight was
   written with a nonce its session has left behind, and no two sessions
   ever hold the same side of the same key, whatever INIT is retransmitted,
   duplicated or answered again. *)
NoncesFresh ==
    \A q \in ReadySessions :
        LET t == TransportOf(q) IN
        /\ \A d \in InFlight :
              LET m == Inner(d.msg) IN
              (m.type = "TRANSPORT" /\ m.key = t.key /\ m.side = t.side)
                  => m.nonce < t.send
        /\ \A u \in ReadySessions :
              (TransportOf(u).key = t.key /\ TransportOf(u).side = t.side)
                  => u = q

(* A side of a key never decrypts more messages than the other side has
   encrypted: a duplicated TRANSPORT, direct or relayed, is not delivered to
   the TUN device a second time. *)
ReplaysRejected ==
    \A q, u \in ReadySessions :
        LET t == TransportOf(q)
            s == TransportOf(u)
        IN (t.key = s.key /\ t.side # s.side) => t.recv <= s.send

(* No session is ever in Init: handle_response puts one there that gets a
   RESPONSE it cannot read, and neither INIT, RESPONSE nor maintenance()
   leads out of it.  With RESPONSEs of several peers arriving through one
   relay it takes every one of them to reach the session it answers. *)
NeverStuckInInit == \A q \in Sessions : Session(q).state.tag # "Init"

(* The session a node keeps for p is one with p: what it encrypts for p's
   mesh IP, only p can read.  handle_init takes the peer from the source
   address and never compares it with the key the INIT authenticates. *)
SessionsAttributed == \A q \in ReadySessions : TransportOf(q).remote = q[2]

(* Between two peers one side waits for the other: never do both hold an
   Initiator of a first handshake (each would ignore the other's INIT). *)
OneSideInitiates ==
    \A q \in Sessions :
        Reverse(q) \in Sessions
            => ~(IsInitiating(Session(q)) /\ IsInitiating(Session(Reverse(q))))

(* A Ready peer is as silent as its key is old at most: every handshake is
   also heard, so a peer that maintenance() would mark stale is one whose
   key is past rekey_after. *)
SilenceMeansOldKey ==
    \A q \in ReadySessions :
        SilentTooLong(Session(q))
            => Passed(Session(q).last_handshake_at, REKEY_AFTER)

(* With loops that are not blocked, an initiator starts its rekey before the
   peer would go stale, and keepalives, retries and the responder's restart
   keep the other side from going stale too. *)
NeverStale == \A q \in Sessions : ~Session(q).stale

(* Both ends Ready, nothing in flight and no rekey pending mean that both
   ends hold the two sides of one key, however many datagrams or sends were
   lost before. *)
QuietMeansAgreed ==
    \A q \in ReadySessions :
        ( /\ InFlight = {}
          /\ Reverse(q) \in ReadySessions
          /\ ~IsRekeying(Session(q)) /\ ~IsRekeying(Session(Reverse(q))) )
        => /\ TransportOf(q).key = TransportOf(Reverse(q)).key
           /\ TransportOf(q).side # TransportOf(Reverse(q)).side

(* What a node has learnt as the address of a peer is the address that
   peer's own datagrams come from, never the one of a relay in between
   (checked where no NAT mapping changes). *)
LearnedIsOwnAddress ==
    \A n, p \in Node : learned_endpoints[n][p] \in {None, addr[p]}

-----------------------------------------------------------------------------
(* What a step may never do *)

(* No message and no failed send takes a Ready session out of Ready. *)
ReadyIsKept ==
    [][\A q \in ReadySessions :
         (q[1] \in up' /\ q[2] \in Known(q[1])') => IsReady(Session(q)')]_vars

(* Nothing is decrypted on a session that is stale, before a handshake has
   recovered it. *)
StaleDropsData ==
    [][\A q \in ReadySessions :
         (Session(q).stale /\ q \in ReadySessions')
            => \/ TransportOf(q)'.key # TransportOf(q).key
               \/ TransportOf(q)'.recv = TransportOf(q).recv]_vars

(* A daemon ends only where it is stopped: no datagram reaches generate_cookie,
   which panics, by more INITs in a second than check_init_cookie lets through. *)
DaemonKeepsRunning == [][up \subseteq up' \/ left'.stops < left.stops]_vars

-----------------------------------------------------------------------------
(* Liveness *)

Connected(q) ==
    /\ q \in ReadySessions /\ Reverse(q) \in ReadySessions
    /\ TransportOf(q).key = TransportOf(Reverse(q)).key

(* Every two peers are connected again and again: no sequence of lost
   datagrams, failed sends, rekeys or restarts separates them for good. *)
AlwaysReconnects ==
    \A n, p \in Node : Config[n][p] # None /\ n # p => []<>Connected(<<n, p>>)

(* A rekey ends: its INIT is retried until a RESPONSE replaces the transport
   or aborts it; "rekey every 2 min" is not left half done. *)
RekeyEnds ==
    \A q \in Node \X Node :
        (q \in Sessions /\ IsRekeying(Session(q)))
            ~> (q \in Sessions => ~IsRekeying(Session(q)))
=============================================================================
