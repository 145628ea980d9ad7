-------------------------- MODULE SessionLifecycle --------------------------
(***************************************************************************)
(* What StateManager promises about each session of each user, without     *)
(* records, times or files: a session is closed, idle or running in the    *)
(* daemon's memory, and so it was when its state was last saved.           *)
(***************************************************************************)
CONSTANT Keys     \* the sessions, each with its user

VARIABLES
    up,      \* the daemon runs
    live,    \* the status of each session in memory
    saved    \* the status of each session in state.json

Status == {"closed", "idle", "running"}
AllClosed == [k \in Keys |-> "closed"]

Init == up = FALSE /\ live = AllClosed /\ saved = AllClosed

\* A save may fail: the file then keeps what it had.
Persist == saved' = live' \/ UNCHANGED saved

Move(k, from, to) ==
    /\ up /\ live[k] \in from
    /\ live' = [live EXCEPT ![k] = to]
    /\ Persist
    /\ UNCHANGED up

Start(k) == Move(k, {"closed", "idle"}, "running")
Suspend(k) == Move(k, {"running"}, "idle")
Close(k) == Move(k, {"idle", "running"}, "closed")

\* Sleep suspends what runs, all at once.
SuspendAll ==
    /\ up
    /\ live' = [k \in Keys |-> IF live[k] = "running" THEN "idle" ELSE live[k]]
    /\ Persist
    /\ UNCHANGED up

\* A signal that moves no session still saves what is in memory.
Resave == up /\ saved' = live /\ UNCHANGED <<up, live>>

\* A start finds each session as it was saved, or closes it: it never opens
\* or resumes one.
Restart ==
    /\ ~ up /\ up' = TRUE
    /\ live' \in [Keys -> Status]
    /\ \A k \in Keys : live'[k] \in {saved[k], "closed"}
    /\ UNCHANGED saved

Down == up /\ up' = FALSE /\ live' = AllClosed /\ UNCHANGED saved

Next ==
    \/ \E k \in Keys : Start(k) \/ Suspend(k) \/ Close(k)
    \/ SuspendAll \/ Resave \/ Restart \/ Down

Spec == Init /\ [][Next]_<<up, live, saved>>
=============================================================================
