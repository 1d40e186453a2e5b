------------------------------- MODULE Client -------------------------------
(***************************************************************************)
(* One device and the coordinator: the files of its config directory, the  *)
(* daemon that `naboscale up` starts with its heartbeat task, and the      *)
(* commands its user runs meanwhile, one at a time.                        *)
(*                                                                         *)
(* Daemon and command are processes of their own.  Each makes one HTTP     *)
(* call at a time, in the coordinator's slot of its name.  State::save is  *)
(* fs::write, which truncates the file and then writes it; State::load in  *)
(* between finds no JSON.  A unit of time is the heartbeat task's sleep.   *)
(*                                                                         *)
(* Left out: what state.json keeps for display (endpoint, handshake time,  *)
(* known peers), config.toml, passphrases, and the daemon's discovery arm, *)
(* which reads the token and changes no file.                              *)
(***************************************************************************)
EXTENDS Coordinator

CONSTANTS
    Absent,     \* no such file
    Torn,       \* a state.json that does not parse
    GRACE,      \* the daemon refreshes a token with this little left
    Commands,   \* the commands the user may run
    Budget      \* bounds: commands, starts of the daemon, and faults

Budgets == [commands : Nat, starts : Nat, faults : Nat]

ASSUME ClientAssumption ==
    /\ Call = {"daemon", "command"}
    /\ GRACE \in Nat
    /\ Commands \subseteq {"init", "register", "peers", "heartbeat",
                           "refresh-token", "deregister"}
    /\ Budget \in Budgets

VARIABLES
    disk,       \* the files identity.key, wg.key and state.json
    daemon,     \* the process `naboscale up`
    command,    \* the process of the command that runs
    excused,    \* history: the daemon's session is not the daemon's to keep
    left        \* what is left of the Budget

vars == <<coordVars, disk, daemon, command, excused, left>>

NotRunning == [stage |-> "off", op |-> "none", sent |-> FALSE, copy |-> Absent,
               identity |-> Absent, wg |-> Absent, token |-> None,
               then |-> "off", heard |-> FALSE]

Init ==
    /\ CoordInit
    /\ disk = [identity |-> Absent, wg |-> Absent, state |-> Absent]
    /\ daemon = NotRunning
    /\ command = NotRunning
    /\ excused = FALSE
    /\ left = Budget

-----------------------------------------------------------------------------

Readable(state) == state \notin {Absent, Torn}

Spend(what) == left[what] > 0 /\ left' = [left EXCEPT ![what] = @ - 1]

(* is_token_expired and is_token_expired_soon.  In the mutants the latter
   looks for expiry without the grace, or for less than the grace. *)
IsTokenExpired(state) == state.left = 0
ExpiresWithinLess(state) == state.left < GRACE
IsTokenExpiredSoon(state) == state.left <= GRACE

Copies == {s \in {disk.state, daemon.copy, command.copy} : Readable(s)}

(* New random values: what nothing refers to any more stands for them. *)
UnusedToken(t) ==
    /\ t \notin {s.token : s \in Copies} \cup {daemon.token}
    /\ t \notin {calls[c].token : c \in Call}
    /\ t \in DOMAIN tokens => tokens[t].left = 0

UnusedNode(n) ==
    /\ n \notin DOMAIN nodes \cup {s.node : s \in Copies}
    /\ n \notin {calls[c].node : c \in Call}
    /\ \A t \in DOMAIN tokens : tokens[t].node # n

UsedIdentities == {disk.identity, daemon.identity}
                  \cup {nodes[n].identity : n \in DOMAIN nodes}
UsedWgKeys == {disk.wg, daemon.wg} \cup {nodes[n].wg : n \in DOMAIN nodes}

NewToken == CHOOSE t \in Token : UnusedToken(t)
NewNode == CHOOSE n \in NodeId : UnusedNode(n)
NewKey(keys, held) == CHOOSE k \in keys : k \notin held

-----------------------------------------------------------------------------
(* HTTP calls.  A process in one of these stages makes a request; when the
   answer is there it goes on as AfterCommand or AfterDaemon says, and an error
   of any kind, the connection's included, is all the same to it. *)

Calling == {"register", "peers", "first heartbeat", "heartbeat", "refresh",
            "delete"}

Requested(c, p) ==
    CASE p.stage = "register" -> Register(c, p.identity, p.wg)
      [] p.stage = "peers" -> Peers(c, p.token)
      [] p.stage \in {"first heartbeat", "heartbeat"} ->
            \E r \in Report : Heartbeat(c, p.token, p.identity, r)
      [] p.stage = "refresh" -> RefreshToken(c, p.token, p.identity)
      [] p.stage = "delete" -> DeleteNode(c, p.token, p.identity)

Authentic(t, identity) ==
    Active(t) /\ nodes[tokens[t].node].identity = identity

Refused(p) ==
    \/ p.stage = "peers" /\ ~Active(p.token)
    \/ p.stage \notin {"peers", "register"} /\ ~Authentic(p.token, p.identity)

(* A call of c that is still open at the coordinator, whoever made it. *)
Open(c) == calls[c].pc # "idle"

(* What c's call in stage p comes to: it is sent, or fails, or is answered.  The
   request or its answer may be lost; a call that the coordinator's restart has
   ended is an error too. *)
Outcome == {"sent", "ok", "error"}

Await(c, p, outcome) ==
    \/ /\ ~p.sent /\ ~Open(c) /\ p.stage \in Calling
       /\ \/ outcome = "sent" /\ Requested(c, p) /\ UNCHANGED left
          \/ outcome = "error" /\ Refused(p) /\ UNCHANGED <<coordVars, left>>
          \/ outcome = "error" /\ Spend("faults") /\ UNCHANGED coordVars
    \/ /\ p.sent /\ Respond(c)
       /\ \/ outcome = calls[c].pc /\ UNCHANGED left
          \/ outcome = "error" /\ Spend("faults")
    \/ /\ p.sent /\ ~Open(c) /\ outcome = "error"
       /\ UNCHANGED <<coordVars, left>>

-----------------------------------------------------------------------------
(* State::save.  A write that lands on a file another process has written
   since may leave the longer text's tail behind. *)

Truncate(p) ==
    /\ p.stage = "truncate"
    /\ disk' = [disk EXCEPT !.state = Torn]

Write(p) ==
    /\ p.stage = "write"
    /\ \/ disk' = [disk EXCEPT !.state = p.copy]
       \/ disk.state # Torn /\ disk' = [disk EXCEPT !.state = Torn]

(* In the mutant the new expiry is saved with the old token. *)
IssuedExpiry(copy, c) == [copy EXCEPT !.left = calls[c].left]
Issued(copy, c) == [copy EXCEPT !.token = calls[c].token, !.left = calls[c].left]

-----------------------------------------------------------------------------
(* The commands. *)

Start(op, stage) ==
    /\ command = NotRunning
    /\ op \in Commands
    /\ Spend("commands")
    /\ command' = [NotRunning EXCEPT
                     !.op = op, !.stage = stage,
                     !.identity = disk.identity, !.wg = disk.wg,
                     !.copy = IF op \in {"init", "register"} THEN Absent
                              ELSE disk.state,
                     !.token = IF op \in {"init", "register"} THEN None
                               ELSE disk.state.token]
    /\ UNCHANGED <<coordVars, disk, daemon>>

HasKeys == disk.identity # Absent /\ disk.wg # Absent

(* init; with --force when identity_exists.  It touches no state.json. *)
StartInit == Start("init", "save identity")
StartRegister == HasKeys /\ Start("register", "register")
StartPeers == HasKeys /\ Readable(disk.state) /\ Start("peers", "peers")
StartRefresh ==
    HasKeys /\ Readable(disk.state) /\ Start("refresh-token", "refresh")
StartDeregister ==
    HasKeys /\ Readable(disk.state) /\ Start("deregister", "delete")
StartHeartbeat ==
    /\ HasKeys /\ Readable(disk.state)
    /\ Start("heartbeat",
             IF IsTokenExpired(disk.state) THEN "refresh" ELSE "heartbeat")

(* The keys are replaced one file after the other, each atomically. *)
SaveIdentity ==
    /\ command.stage = "save identity"
    /\ disk' = [disk EXCEPT !.identity = NewKey(Identity, UsedIdentities)]
    /\ command' = [command EXCEPT !.stage = "save wg"]
    /\ UNCHANGED <<coordVars, daemon, left>>

SaveWg ==
    /\ command.stage = "save wg"
    /\ disk' = [disk EXCEPT !.wg = NewKey(WgKey, UsedWgKeys)]
    /\ command' = NotRunning
    /\ UNCHANGED <<coordVars, daemon, left>>

AfterCommand(answer) ==
    command' =
        CASE answer = "sent" -> [command EXCEPT !.sent = TRUE]
          [] answer = "error" -> NotRunning
          [] answer = "ok" /\ command.stage = "delete" -> NotRunning
          [] answer = "ok" /\ command.stage = "register" ->
                [command EXCEPT !.sent = FALSE, !.stage = "truncate",
                     !.copy = [node |-> calls["command"].node,
                               token |-> calls["command"].token,
                               left |-> calls["command"].left]]
          [] answer = "ok" /\ command.stage = "refresh" ->
                [command EXCEPT !.sent = FALSE,
                     !.stage = IF command.op = "heartbeat" THEN "heartbeat"
                               ELSE "truncate",
                     !.copy = Issued(command.copy, "command"),
                     !.token = calls["command"].token]
          [] OTHER -> [command EXCEPT !.sent = FALSE, !.stage = "truncate"]

CommandStep ==
    /\ \/ /\ \E outcome \in Outcome :
                Await("command", command, outcome) /\ AfterCommand(outcome)
          /\ UNCHANGED disk
       \/ /\ Truncate(command)
          /\ command' = [command EXCEPT !.stage = "write"]
          /\ UNCHANGED <<coordVars, left>>
       \/ /\ Write(command)
          /\ command' = NotRunning
          /\ UNCHANGED <<coordVars, left>>
    /\ UNCHANGED daemon

-----------------------------------------------------------------------------
(* The daemon. *)

(* cmd_up loads its state, fetches the peers, sends a first heartbeat whose
   outcome it ignores, and writes back the state it loaded. *)
StartUp ==
    /\ daemon = NotRunning /\ ~Open("daemon")
    /\ HasKeys /\ Readable(disk.state)
    /\ Spend("starts")
    /\ daemon' = [NotRunning EXCEPT
                    !.stage = "peers", !.copy = disk.state,
                    !.token = disk.state.token,
                    !.identity = disk.identity, !.wg = disk.wg]
    /\ UNCHANGED <<coordVars, disk, command>>

(* A load, its change and its save are one synchronous stretch of the task;
   the other process may run between the load and the save. *)
Reload(p, copy, then) ==
    IF Readable(disk.state)
    THEN [p EXCEPT !.stage = "truncate", !.copy = copy, !.then = then]
    ELSE [p EXCEPT !.stage = then]

AfterDaemon(answer) ==
    LET back == [daemon EXCEPT !.sent = FALSE, !.copy = Absent] IN
    daemon' =
        CASE answer = "sent" ->
                [daemon EXCEPT !.sent = TRUE]
          [] answer # "sent" /\ daemon.stage = "peers" ->
                IF answer = "error" THEN NotRunning
                ELSE [daemon EXCEPT !.sent = FALSE, !.stage = "first heartbeat"]
          [] answer # "sent" /\ daemon.stage = "first heartbeat" ->
                [daemon EXCEPT !.sent = FALSE, !.stage = "truncate",
                               !.then = "asleep"]
          [] answer # "sent" /\ daemon.stage = "refresh" ->
                IF answer = "error" THEN [back EXCEPT !.stage = "heartbeat"]
                ELSE Reload([back EXCEPT !.token = calls["daemon"].token],
                            Issued(disk.state, "daemon"), "heartbeat")
          [] answer # "sent" /\ daemon.stage = "heartbeat" ->
                Reload([back EXCEPT !.heard = (answer = "ok")],
                       disk.state, "asleep")

(* The task wakes up and looks into state.json, not at the token it holds. *)
Wake ==
    /\ daemon.stage = "due"
    /\ daemon' = [daemon EXCEPT
                    !.heard = FALSE,
                    !.stage = IF Readable(disk.state)
                                 /\ IsTokenExpiredSoon(disk.state)
                              THEN "refresh" ELSE "heartbeat"]
    /\ UNCHANGED <<coordVars, disk, left>>

DaemonStep ==
    /\ \/ /\ \E outcome \in Outcome :
                Await("daemon", daemon, outcome) /\ AfterDaemon(outcome)
          /\ UNCHANGED disk
       \/ /\ Truncate(daemon)
          /\ daemon' = [daemon EXCEPT !.stage = "write"]
          /\ UNCHANGED <<coordVars, left>>
       \/ /\ Write(daemon)
          /\ daemon' = [daemon EXCEPT !.stage = daemon.then, !.copy = Absent]
          /\ UNCHANGED <<coordVars, left>>
       \/ Wake
    /\ UNCHANGED command

-----------------------------------------------------------------------------
(* The rest of the world. *)

ServeCall(c) ==
    /\ \/ InsertNode(c, NewNode, NewToken)
       \/ CreateToken(c, NewToken)
       \/ ListPeers(c) \/ UpdateHeartbeat(c) \/ RevokeTokens(c)
       \/ DeleteRows(c) \/ ReleaseAddress(c)
    /\ UNCHANGED <<disk, daemon, command, left>>

(* Nobody waits for the answer any more. *)
Unclaimed ==
    /\ \/ ~daemon.sent /\ Respond("daemon")
       \/ ~command.sent /\ Respond("command")
    /\ UNCHANGED <<disk, daemon, command, left>>

KillDaemon ==
    /\ daemon # NotRunning
    /\ Spend("faults")
    /\ daemon' = NotRunning
    /\ UNCHANGED <<coordVars, disk, command>>

KillCommand ==
    /\ command # NotRunning
    /\ Spend("faults")
    /\ command' = NotRunning
    /\ UNCHANGED <<coordVars, disk, daemon>>

RestartCoordinator ==
    /\ Spend("faults")
    /\ Restart
    /\ UNCHANGED <<disk, daemon, command>>

Aged(state) ==
    IF Readable(state) THEN [state EXCEPT !.left = Less(state.left)] ELSE state

(* The daemon's calls are over before it sleeps again, and nobody takes a unit
   of time between truncating a file and writing it. *)
Tick ==
    /\ daemon.stage \in {"off", "asleep"} /\ command.stage # "write"
    /\ Expire
    /\ disk' = [disk EXCEPT !.state = Aged(disk.state)]
    /\ command' = [command EXCEPT !.copy = Aged(command.copy)]
    /\ daemon' = IF daemon.stage = "asleep" THEN [daemon EXCEPT !.stage = "due"]
                 ELSE daemon
    /\ UNCHANGED left

-----------------------------------------------------------------------------
(* What ends the daemon's session, and the heartbeat task cannot help. *)

(* `up` starts with a token that is about to expire or no longer good, or with
   keys that are not the node's. *)
Unfit(state, identity) ==
    state.left <= GRACE \/ ~Authentic(state.token, identity)

(* A command revokes the device's tokens or deletes its node. *)
Withdrawn ==
    /\ calls["command"].pc \in {"revoke", "delete"}
    /\ calls'["command"].pc \in {"create", "release", "ok"}

(* The old token is revoked and the new one does not reach the daemon. *)
LosesToken ==
    /\ daemon.stage = "refresh" /\ calls["daemon"].pc \in {"create", "ok"}
    /\ calls'["daemon"].pc \in {"idle", "error"}
    /\ daemon'.token = daemon.token

(* state.json is left without a whole text, or with another node's. *)
LosesState ==
    /\ daemon # NotRunning
    /\ \/ command.stage = "write" /\ command' = NotRunning
          /\ (command.op = "register" \/ disk'.state = Torn)
       \/ daemon.stage = "write" /\ daemon'.stage # "write" /\ disk'.state = Torn

History == excused' = IF daemon = NotRunning
                      THEN daemon' # NotRunning /\ Unfit(disk.state, disk.identity)
                      ELSE excused \/ Withdrawn \/ LosesToken \/ LosesState

-----------------------------------------------------------------------------

CommandNext ==
    \/ StartInit \/ StartRegister \/ StartPeers \/ StartHeartbeat
    \/ StartRefresh \/ StartDeregister

CommandRuns == SaveIdentity \/ SaveWg \/ CommandStep

Faults == KillDaemon \/ KillCommand \/ RestartCoordinator

Next ==
    /\ \/ CommandNext \/ CommandRuns
       \/ StartUp \/ DaemonStep
       \/ \E c \in Call : ServeCall(c)
       \/ Unclaimed \/ Tick \/ Faults
    /\ History

(* Processes and handlers run on, and time passes; no one has to start a
   command or the daemon, and nothing has to fail. *)
Fairness ==
    /\ WF_vars(CommandRuns /\ History)
    /\ WF_vars(DaemonStep /\ History)
    /\ \A c \in Call : WF_vars(ServeCall(c) /\ History)
    /\ WF_vars(Unclaimed /\ History)
    /\ WF_vars(Tick /\ History)

Spec == Init /\ [][Next]_vars /\ Fairness

-----------------------------------------------------------------------------

Stages == Calling \cup {"off", "save identity", "save wg", "truncate", "write",
                        "asleep", "due"}

SavedState == [node : NodeId, token : Token, left : 0..TTL]

ASSUME NoFileAssumption == Absent # Torn /\ {Absent, Torn} \cap SavedState = {}

Process ==
    [stage : Stages, op : Commands \cup {"none"}, sent : BOOLEAN,
     copy : SavedState \cup {Absent}, identity : Identity \cup {Absent},
     wg : WgKey \cup {Absent}, token : Token \cup {None},
     then : {"off", "heartbeat", "asleep"}, heard : BOOLEAN]

(* What the processes hold and what the files hold is of the right kind, and
   only a process that saves holds nothing to save. *)
TypeOK ==
    /\ disk \in [identity : Identity \cup {Absent}, wg : WgKey \cup {Absent},
                 state : SavedState \cup {Absent, Torn}]
    /\ {daemon, command} \subseteq Process
    /\ \A p \in {daemon, command} :
          p.stage \in {"truncate", "write"} => p.copy # Absent
    /\ excused \in BOOLEAN
    /\ left \in Budgets

Running == daemon.stage # "off"

Refreshing == daemon.stage = "refresh" /\ daemon.sent

(* The heartbeat task (cli.rs:582-603) refreshes early enough: up to two
   attempts may fail, on a request that is lost, a coordinator that restarts,
   or a state.json that does not parse while a command writes it, before the
   token of a running daemon expires. *)
DaemonKeepsToken ==
    Running /\ ~excused => Refreshing \/ Authentic(daemon.token, daemon.identity)

(* The daemon is heard again and again, whatever commands run next to it and
   although it decides by the expiry in state.json about a token of its own. *)
HeardForever == []<>(~Running \/ excused \/ daemon.heard)

(* A command that saves the state it loaded before a refresh (cli.rs:194-206)
   brings the old token back to state.json; the next refresh of the daemon
   repairs it. *)
StateFileHeals ==
    []<>(~Running \/ excused \/ (Readable(disk.state)
                                  /\ disk.state.token = daemon.token))

(* cli.rs:268 says that cmd_heartbeat refreshes a token past its expiry "so the
   call doesn't fail with 401": the command gives up at the refresh only when
   the call itself is lost. *)
HeartbeatSurvivesExpiry ==
    [][command.op = "heartbeat" /\ command.stage = "refresh"
       /\ command' = NotRunning => left' # left]_vars

(* README.md:128: "Long-running `naboscale up` sessions never lose auth": a
   daemon that has been heard is heard again, as long as it runs. *)
NeverLosesAuth == [](daemon.heard => []<>(~Running \/ daemon.heard))
=============================================================================
