--------------------------- MODULE ClientRegistry ---------------------------
(***************************************************************************)
(* What the CI pipeline promises about OIDC clients, seen from the         *)
(* provider and the PaaS.  Every client the provider registers is new.  A  *)
(* build is handed the credentials of at most one client, one it has just  *)
(* registered; a registration may also be left without anyone holding its  *)
(* credentials.  The application is deployed only with the credentials a   *)
(* build was handed.                                                       *)
(***************************************************************************)
CONSTANTS
    Build,      \* the builds of the branch
    ClientId,   \* the ids the provider may hand out
    None        \* no client: no credentials, no application

VARIABLES
    registry,   \* the clients the provider holds
    issued,     \* the client whose credentials each build holds
    deployed    \* the client the application runs with

rvars == <<registry, issued, deployed>>

Init ==
    /\ registry = {}
    /\ issued = [b \in Build |-> None]
    /\ deployed = None

(* A new client is registered and nobody receives its credentials. *)
Register(c) ==
    /\ c \notin registry
    /\ registry' = registry \cup {c}
    /\ UNCHANGED <<issued, deployed>>

(* A new client is registered and build b, which holds none yet, receives *)
(* its credentials.                                                        *)
Issue(b, c) ==
    /\ c \notin registry
    /\ issued[b] = None
    /\ registry' = registry \cup {c}
    /\ issued' = [issued EXCEPT ![b] = c]
    /\ UNCHANGED deployed

(* The application is deployed with the credentials build b holds. *)
Deploy(b) ==
    /\ issued[b] # None
    /\ deployed' = issued[b]
    /\ UNCHANGED <<registry, issued>>

Next ==
    \/ \E c \in ClientId : Register(c) \/ \E b \in Build : Issue(b, c)
    \/ \E b \in Build : Deploy(b)

Spec == Init /\ [][Next]_rvars

=============================================================================
