---------------------------- MODULE SessionStore ----------------------------
(***************************************************************************)
(* What the refresh-token store (spec C4, "capability set {put, get,       *)
(* delete}") promises the flow handlers, stated over sessions rather than  *)
(* requests: a session's entry is written once, while the session is      *)
(* live and has none; a session is closed by logout; and an entry is only  *)
(* removed once its session is closed.  A read may fail at any time and    *)
(* changes nothing, so it is not an action.                                *)
(***************************************************************************)
CONSTANTS
    Session,    \* session keys (the session tokens)
    Refresh,    \* the values kept: encrypted refresh tokens
    None        \* no entry

VARIABLES
    kv,         \* the entry kept under each session key
    closed      \* the sessions that have been logged out

ssvars == <<kv, closed>>

TypeOK ==
    /\ kv \in [Session -> Refresh \cup {None}]
    /\ closed \subseteq Session

Init ==
    /\ kv = [s \in Session |-> None]
    /\ closed = {}

(* put: a live session without an entry gets one. *)
Put(s, v) ==
    /\ s \notin closed
    /\ kv[s] = None
    /\ kv' = [kv EXCEPT ![s] = v]
    /\ UNCHANGED closed

(* logout closes a session, with or without an entry. *)
Close(s) ==
    /\ closed' = closed \cup {s}
    /\ UNCHANGED kv

(* delete: the entry of a closed session goes. *)
Remove(s) ==
    /\ s \in closed
    /\ kv' = [kv EXCEPT ![s] = None]
    /\ UNCHANGED closed

Next ==
    \E s \in Session :
        \/ \E v \in Refresh : Put(s, v)
        \/ Close(s)
        \/ Remove(s)

Spec == Init /\ [][Next]_ssvars

=============================================================================
