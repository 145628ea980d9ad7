---------------------------- MODULE StateManager ----------------------------
(***************************************************************************)
(* internal/state: the Manager that keeps every user's records in memory   *)
(* and in state.json, and the machine it runs on.                          *)
(*                                                                         *)
(* Each handler holds Manager.mu from its first line to its return, so a   *)
(* handler is one step.  Its callers may pass any user and session: this   *)
(* module is open, SessionTracking adds the logind that makes the calls.   *)
(* A daemon may stop or crash, and the machine lose power, between any two *)
(* steps; a crash inside a handler, after the memory changed and before    *)
(* the file did, is a handler whose save fails followed by a crash.        *)
(***************************************************************************)
EXTENDS SessionRecords

CONSTANTS
    UserNames,
    Missing,       \* a user that is not in the map, a file that does not exist
    SaveMayFail,   \* whether writing or touching state.json may fail
    MaxTime,       \* bound on the clock
    MaxSessions,   \* bound on the records of a user
    MaxSegments,   \* bound on the segments of a record
    MaxStops,      \* bound on daemon stops while the machine stays on
    MaxOutages     \* bound on power losses

ASSUME MissingAssumption == Missing \notin User
ASSUME BoundsAssumption ==
    /\ SaveMayFail \in BOOLEAN
    /\ {MaxTime, MaxSessions, MaxSegments, MaxStops, MaxOutages} \subseteq Nat

VARIABLES
    now,        \* the wall clock
    powered,    \* the machine is on
    since,      \* when it was last switched on (if on) or off (if off)
    running,    \* the daemon runs
    users,      \* m.state.Users
    heartBeat,  \* m.state.HeartBeat
    disk,       \* state.json: its users and its modification time
    stops,      \* daemon stops so far (bounded)
    outages     \* power losses so far (bounded)

machineVars == <<now, powered, since, stops, outages>>
vars == <<machineVars, running, users, heartBeat, disk>>

UserMap == [UserNames -> User \union {Missing}]
File == [users : UserMap, mtime : Times]

ASSUME MissingFileAssumption == Missing \notin File

TypeOK ==
    /\ now \in Times /\ since \in Nat /\ since <= now
    /\ powered \in BOOLEAN /\ running \in BOOLEAN
    /\ running => powered
    /\ users \in UserMap
    /\ heartBeat \in Nat
    /\ disk \in File \union {Missing}
    /\ stops \in Nat /\ outages \in Nat

NoUsers == [u \in UserNames |-> Missing]

Init ==
    /\ now = 1 /\ powered = TRUE /\ since = Zero
    /\ running = FALSE /\ users = NoUsers /\ heartBeat = Zero
    /\ disk = Missing
    /\ stops = 0 /\ outages = 0

-----------------------------------------------------------------------------
(* Persistence: manager.go.                                                *)

\* Mutant: the rewritten file keeps the time of the last heartbeat.
SaveKeepingTime(us) ==
    \/ disk' = [users |-> us, mtime |-> heartBeat]
    \/ SaveMayFail /\ UNCHANGED disk

\* save: write a temporary file, rename it.  Handlers ignore its error.
Save(us) ==
    \/ disk' = [users |-> us, mtime |-> now]
    \/ SaveMayFail /\ UNCHANGED disk

\* Heartbeat: touch the file, whatever it holds.
Heartbeat ==
    /\ running
    /\ heartBeat' = now
    /\ \/ disk # Missing /\ disk' = [disk EXCEPT !.mtime = now]
       \/ (disk = Missing \/ SaveMayFail) /\ UNCHANGED disk
    /\ UNCHANGED <<machineVars, running, users>>

\* startUpChecks: the machine has been down since the last heartbeat exactly
\* when that heartbeat is older than the uptime, which /proc always tells; the
\* fraction of a second that is cut off is less than a tick.
SystemWasDown(lastHeartbeat) == now - lastHeartbeat > now - since

\* Mutant: sessions found open are ended at the start, not at the heartbeat.
StartUpChecksEndNow(us, lastHeartbeat) ==
    [u \in UserNames |->
        IF us[u] = Missing THEN Missing
        ELSE [us[u] EXCEPT !.sessions = RemoveOldSessions(
                IF SystemWasDown(lastHeartbeat) THEN EndActive(@, now) ELSE @, now)]]

\* Mutant: StartNewSegments is called for the sessions found open.
StartUpChecksResuming(us, lastHeartbeat) ==
    [u \in UserNames |->
        IF us[u] = Missing THEN Missing
        ELSE [us[u] EXCEPT !.sessions =
                {IF IsActive(s) THEN AddSegment(s, now) ELSE s :
                    s \in RemoveOldSessions(@, now)}]]

StartUpChecks(us, lastHeartbeat) ==
    LET ended(S) == IF SystemWasDown(lastHeartbeat)
                    THEN EndActive(S, lastHeartbeat) ELSE S
    IN  [u \in UserNames |->
            IF us[u] = Missing THEN Missing
            ELSE [us[u] EXCEPT !.sessions = RemoveOldSessions(ended(@), now)]]

\* NewManager, with load: memory is the file's users and its modification
\* time, then checked; the outcome of the checks is not saved.
NewManager ==
    /\ powered /\ ~ running
    /\ running' = TRUE
    /\ heartBeat' = now
    /\ \/ /\ disk = Missing
          /\ users' = NoUsers
          /\ disk' = [users |-> NoUsers, mtime |-> now]
       \/ /\ disk # Missing
          /\ users' = StartUpChecks(disk.users, disk.mtime)
          /\ UNCHANGED disk
    /\ UNCHANGED machineVars

-----------------------------------------------------------------------------
(* The handlers logind's signals end in: handlers.go.                      *)

SessionsOf(u) == users[u].sessions

\* A handler that changes user u's record and saves.
Store(u, usr) ==
    /\ users' = [users EXCEPT ![u] = usr]
    /\ Save(users')

StoreSessions(u, S) == Store(u, [users[u] EXCEPT !.sessions = S])

NoEffect == UNCHANGED <<users, disk>>

Handler == running /\ UNCHANGED <<machineVars, running, heartBeat>>

HasRoom(s) == IsIdle(s) => Len(s.segs) < MaxSegments

\* Mutant: a login signal always makes a new record.
HandleLoginAlwaysNew(u, id) ==
    LET usr == IF users[u] = Missing THEN FreshUser ELSE users[u]
    IN  /\ Handler
        /\ usr.next <= MaxSessions
        /\ Store(u, AddSession(usr, id, now))

HandleLogin(u, id) ==
    LET usr == IF users[u] = Missing THEN FreshUser ELSE users[u]
    IN  /\ Handler
        /\ \/ /\ ~ IsSessionActive(usr.sessions, id)
              /\ usr.next <= MaxSessions
              /\ Store(u, AddSession(usr, id, now))
           \/ /\ IsSessionActive(usr.sessions, id)
              /\ \E s \in GetSessionByID(usr.sessions, id) :
                   \/ /\ IsIdle(s) /\ HasRoom(s)
                      /\ StoreSessions(u, Replace(usr.sessions, s, AddSegment(s, now)))
                   \/ ~ IsIdle(s) /\ NoEffect

\* GetUserBySession ranges over a Go map: any owner may come first, but one
\* whose record of that ID is active is preferred.
Owners(id) == {u \in UserNames : users[u] # Missing /\ WithId(SessionsOf(u), id) # {}}
ActiveOwners(id) == {u \in Owners(id) : IsSessionActive(SessionsOf(u), id)}
\* Mutant: the first owner met, its record active or not.
GetUserBySessionAny(id) == Owners(id)

GetUserBySession(id) == IF ActiveOwners(id) # {} THEN ActiveOwners(id) ELSE Owners(id)

HandleLogout(id) ==
    /\ Handler
    /\ \/ Owners(id) = {} /\ NoEffect
       \/ \E u \in GetUserBySession(id) :
            StoreSessions(u, EndSession(SessionsOf(u), id, now))

HandleSleep ==
    /\ Handler
    /\ users' = [u \in UserNames |->
                   IF users[u] = Missing THEN Missing
                   ELSE [users[u] EXCEPT !.sessions = EndAllSegments(@, now)]]
    /\ Save(users')

\* The record HandleLock and HandleUnlock work on: none if the user or the
\* session is unknown.
Found(u, id) == IF users[u] = Missing THEN {} ELSE GetSessionByID(SessionsOf(u), id)

HandleLock(u, id) ==
    /\ Handler
    /\ \/ Found(u, id) = {} /\ NoEffect
       \/ \E s \in Found(u, id) :
            StoreSessions(u, Replace(SessionsOf(u), s, EndSegment(s, now)))

HandleUnlock(u, id) ==
    /\ Handler
    /\ \/ Found(u, id) = {} /\ NoEffect
       \/ \E s \in Found(u, id) :
            /\ HasRoom(s)
            /\ StoreSessions(u, Replace(SessionsOf(u), s, AddSegment(s, now)))

-----------------------------------------------------------------------------
(* The machine and the daemon's life on it.                                *)

Tick ==
    /\ now < MaxTime
    /\ now' = now + 1
    /\ UNCHANGED <<powered, since, stops, outages, running, users, heartBeat, disk>>

\* Memory is gone with the process.
Forget ==
    /\ running' = FALSE
    /\ users' = NoUsers
    /\ heartBeat' = Zero
    /\ UNCHANGED <<now, disk>>

\* The service is stopped, restarted or crashes; the machine stays on.
DaemonStop ==
    /\ running /\ stops < MaxStops
    /\ stops' = stops + 1
    /\ Forget
    /\ UNCHANGED <<powered, since, outages>>

PowerOff ==
    /\ powered /\ outages < MaxOutages
    /\ outages' = outages + 1
    /\ powered' = FALSE /\ since' = now
    /\ Forget
    /\ UNCHANGED stops

\* Booting takes time: the uptime starts later than anything before the outage.
Boot ==
    /\ ~ powered /\ since < now
    /\ powered' = TRUE /\ since' = now
    /\ UNCHANGED <<now, stops, outages, running, users, heartBeat, disk>>

Next ==
    \/ \E u \in UserNames, id \in Ids :
         HandleLogin(u, id) \/ HandleLock(u, id) \/ HandleUnlock(u, id)
    \/ \E id \in Ids : HandleLogout(id)
    \/ HandleSleep \/ Heartbeat
    \/ NewManager \/ DaemonStop \/ PowerOff \/ Boot \/ Tick

Spec == Init /\ [][Next]_vars

-----------------------------------------------------------------------------
(* What the manager promises.                                              *)

Records(us) == UNION {us[u].sessions : u \in {v \in UserNames : us[v] # Missing}}

\* No time in state.json is later than the file's modification time, so a
\* session that startUpChecks ends at that time does not end before it began.
FileTimesBeforeMtime ==
    disk # Missing => \A s \in Records(disk.users) : StampedBy(s, disk.mtime)

\* In memory and on disk the segments of a session are a chain that begins
\* with the session, has no overlap, and is open at most at its end.
SegmentsChained ==
    /\ \A s \in Records(users) : Chained(s) /\ StampedBy(s, now)
    /\ disk # Missing => \A s \in Records(disk.users) : Chained(s)

\* A user never has two active records of one session ID: EndSession, which
\* takes the first, and GetSessionByID, which takes the last, agree.
OneActivePerId ==
    \A u \in UserNames : users[u] # Missing =>
        \A s, r \in Active(SessionsOf(u)) : s.id = r.id => s = r

\* While the daemon runs no record disappears, none reopens and no closed
\* interval is rewritten: late, repeated or misdirected signals cannot take
\* back time that was recorded.
HistoryKept ==
    [][running /\ running' =>
         \A u \in UserNames : users[u] # Missing =>
            /\ users'[u] # Missing
            /\ \A s \in SessionsOf(u) :
                 \E r \in users'[u].sessions : Continues(r, s)]_vars

\* A session that was open when the power failed is not active after the
\* next boot.
NoSessionOutlivesBoot ==
    running => \A s \in Active(Records(users)) : since <= s.start
=============================================================================
