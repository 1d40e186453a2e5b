------------------------------- MODULE Noise -------------------------------
(***************************************************************************)
(* The messages of naboscale-crypto, symbolically.                         *)
(*                                                                         *)
(* A handshake is Noise_IKpsk2 with the all-zero psk the client always     *)
(* configures.  The model keeps what the tunnel manager can tell apart:    *)
(* whom an INIT is encrypted for, which Initiator object wrote it, which   *)
(* Responder object answered it, and the implicit nonces of the two        *)
(* directions of a transport.  An ephemeral names one Initiator (its       *)
(* timestamp is fixed in Initiator::new, its bytes are written once and    *)
(* retransmitted) or one answer of a Responder; the ephemeral of the       *)
(* answer also names the transport key, because every answer draws a new   *)
(* one.  Sender ids are left out: a RESPONSE echoes the id of the INIT it  *)
(* answers, so the id check of consume_response never rejects more than    *)
(* the Noise read does.                                                    *)
(***************************************************************************)
EXTENDS Naturals

CONSTANTS
    Node,           \* the nodes, each standing for its key pair and mesh IP
    Ephemeral,      \* names of Noise ephemerals (a bound on the live ones)
    REPLAY_WINDOW   \* REPLAY_WINDOW_SECONDS

ASSUME ReplayWindowAssumption == REPLAY_WINDOW \in Nat

Side == {"initiator", "responder"}

InitMessage == [type : {"INIT"}, from : Node, to : Node, eph : Ephemeral]

ResponseMessage ==
    [type : {"RESPONSE"}, from : Node, to : Node,
     eph : Ephemeral, key : Ephemeral]

TransportMessage ==
    [type : {"TRANSPORT"}, key : Ephemeral, side : Side, nonce : Nat]

Message == InitMessage \cup ResponseMessage \cup TransportMessage

RelayMessage ==
    [type : {"RELAY"}, from : Node, dest : Node, inner : Message]

(* Transport: the two nonce counters snow keeps, and the static key of the
   other side that it learnt or was given in the handshake. *)
Transport ==
    [key : Ephemeral, side : Side, remote : Node, send : Nat, recv : Nat]

NewTransport(k, side, remote) ==
    [key |-> k, side |-> side, remote |-> remote, send |-> 0, recv |-> 0]

-----------------------------------------------------------------------------

(* Initiator::write_init: mac1 and the static-key encryption bind it to p. *)
WriteInit(n, p, e) == [type |-> "INIT", from |-> n, to |-> p, eph |-> e]

(* Responder::consume_init succeeds: the message decrypts under n's static
   key and its timestamp, `elapsed` time units old, is inside the window; the
   clocks of the nodes agree.  The mutant's window is one unit short. *)
ConsumesInitShort(n, m, elapsed) == m.to = n /\ elapsed < REPLAY_WINDOW
ConsumesInit(n, m, elapsed) == m.to = n /\ elapsed <= REPLAY_WINDOW

(* The RESPONSE that consume_init returns; r is the Responder's ephemeral. *)
WriteResponse(n, m, r) ==
    [type |-> "RESPONSE", from |-> n, to |-> m.from, eph |-> m.eph, key |-> r]

(* Initiator::consume_response succeeds: only the Initiator object whose
   ephemeral the RESPONSE answers can read it. *)
ConsumesResponse(e, m) == m.eph = e

(* Transport::encrypt, the message and the transport afterwards. *)
Encrypt(t) ==
    [type |-> "TRANSPORT", key |-> t.key, side |-> t.side, nonce |-> t.send]
NonceKept(t) == t   \* mutant
AfterEncrypt(t) == [t EXCEPT !.send = @ + 1]

(* Transport::decrypt: the nonce is implicit, so exactly the next message
   of the other side decrypts; a failure leaves the counter alone. *)
DecryptsAnyNonce(t, m) == m.key = t.key /\ m.side # t.side   \* mutant
Decrypts(t, m) == m.key = t.key /\ m.side # t.side /\ m.nonce = t.recv
AfterDecrypt(t) == [t EXCEPT !.recv = @ + 1]

(* The ephemerals a message mentions. *)
EphemeralsOf(m) ==
    CASE m.type = "INIT" -> {m.eph}
      [] m.type = "RESPONSE" -> {m.eph, m.key}
      [] m.type = "TRANSPORT" -> {m.key}
=============================================================================
