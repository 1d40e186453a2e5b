------------------------------ MODULE Registry ------------------------------
(***************************************************************************)
(* What the coordinator promises: a register of members, each with an      *)
(* address and two keys of its own, and of the credentials that speak for  *)
(* them.  A credential speaks for one member from the step that issues it  *)
(* to the step that ends it, and never again; a member that leaves takes   *)
(* all its credentials along in the same step and never returns under its  *)
(* old name.                                                               *)
(***************************************************************************)
EXTENDS Functions

CONSTANTS Name, Credential, Identity, WgKey, Address, Whereabouts, None

VARIABLES
    members,        \* [identity, wg, ip, endpoint, via_relay] by name
    credentials,    \* the name each valid credential speaks for
    drawn           \* the names and credentials taken so far

registryVars == <<members, credentials, drawn>>

Init == members = <<>> /\ credentials = <<>> /\ drawn = {}

Newcomer == [identity : Identity, wg : WgKey, ip : Address,
             endpoint : {None}, via_relay : {None}]

CredentialsOf(n) == {t \in DOMAIN credentials : credentials[t] = n}

(* Names are random values: a new one is unlike any before it, and one may
   be drawn in vain. *)
Draw(new) ==
    /\ new \cap drawn = {}
    /\ drawn \cup new \subseteq drawn'

(* A member joins, with a credential or, when issuing it fails, without. *)
Join(n, row, granted) ==
    /\ Draw({n} \cup granted)
    /\ \A m \in DOMAIN members : /\ members[m].identity # row.identity
                                 /\ members[m].wg # row.wg
                                 /\ members[m].ip # row.ip
    /\ members' = [m \in DOMAIN members \cup {n} |->
                    IF m = n THEN row ELSE members[m]]
    /\ credentials' = [t \in DOMAIN credentials \cup granted |->
                          IF t \in granted THEN n ELSE credentials[t]]

(* A member's whereabouts change, its keys and its address never do. *)
Move(n, where) ==
    /\ n \in DOMAIN members
    /\ members' = [members EXCEPT ![n].endpoint = where.endpoint,
                                  ![n].via_relay = where.via_relay]
    /\ UNCHANGED <<credentials, drawn>>

Issue(n, t) ==
    /\ n \in DOMAIN members
    /\ Draw({t})
    /\ credentials' = [u \in DOMAIN credentials \cup {t} |->
                          IF u = t THEN n ELSE credentials[u]]
    /\ UNCHANGED members

(* Credentials run out, or are withdrawn. *)
End(ended) ==
    /\ credentials' = Restrict(credentials, DOMAIN credentials \ ended)
    /\ UNCHANGED <<members, drawn>>

Leave(n) ==
    /\ n \in DOMAIN members
    /\ members' = Restrict(members, DOMAIN members \ {n})
    /\ credentials' = Restrict(credentials,
                               DOMAIN credentials \ CredentialsOf(n))
    /\ UNCHANGED drawn

Next ==
    \/ \E n \in Name, row \in Newcomer, granted \in SUBSET Credential :
          Join(n, row, granted)
    \/ \E n \in Name, where \in Whereabouts : Move(n, where)
    \/ \E n \in Name, t \in Credential : Issue(n, t)
    \/ \E ended \in SUBSET DOMAIN credentials : End(ended)
    \/ \E n \in Name : Leave(n)
    \/ Draw({}) /\ UNCHANGED <<members, credentials>>

Spec == Init /\ [][Next]_registryVars
=============================================================================
