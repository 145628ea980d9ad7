------------------------ MODULE LifecycleRefinement -------------------------
(***************************************************************************)
(* StateManager implements SessionLifecycle: the status of a session is    *)
(* read off the active record of its ID, in memory and in the file.        *)
(***************************************************************************)
EXTENDS StateManager

StatusIn(us, u, id) ==
    LET active == IF us[u] = Missing THEN {} ELSE Active(WithId(us[u].sessions, id))
    IN  IF active = {} THEN "closed"
        ELSE IF \E s \in active : IsIdle(s) THEN "idle" ELSE "running"

Statuses(us) == [k \in UserNames \X Ids |-> StatusIn(us, k[1], k[2])]

Lifecycle == INSTANCE SessionLifecycle WITH
    Keys <- UserNames \X Ids,
    up <- running,
    live <- Statuses(users),
    saved <- Statuses(IF disk = Missing THEN NoUsers ELSE disk.users)

\* Signals move one session at a time along closed, idle and running, sleep
\* suspends all that run, and a restart, whatever was lost, never opens or
\* resumes a session the file did not have open or running.
ImplementsLifecycle == Lifecycle!Spec
=============================================================================
