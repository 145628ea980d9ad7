------------------------------ MODULE IpcCalls ------------------------------
(***************************************************************************)
(* The D-Bus methods of internal/ipc, each in a goroutine of its own,      *)
(* beside the watcher's handlers.  The engine's rounds only read, and      *)
(* touch the file: they are left out.                                      *)
(*                                                                         *)
(* A handler holds Manager.mu throughout.  A method holds it in GetState   *)
(* and in Save only: in between it copies the user out of the shared map,  *)
(* changes the copy and writes it back.  The copy shares the arrays under  *)
(* the user's slices with the map, so what is lost and what survives a     *)
(* stale write-back depends on Go's append; slices are modelled as headers *)
(* into a heap of arrays.                                                  *)
(*                                                                         *)
(* One user: the entries of the map do not depend on one another.  Times   *)
(* are left out; a record is running, idle or ended.  The abort of the Go  *)
(* runtime when it sees a map access race is a crash, which StateManager   *)
(* has; here the program goes on.                                          *)
(***************************************************************************)
EXTENDS Integers, SequencesExt

CONSTANTS
    Callers,      \* D-Bus calls, each made once; an override is named by its call
    Ids,          \* logind's session object paths
    Missing,      \* no user in the map, nothing in an array slot, no one
    Ops,          \* the methods the calls may be to
    Events,       \* the signals the watcher may receive
    SaveMayFail,  \* whether writing state.json may fail
    MaxEvents     \* bound on the signals

ASSUME CallsAssumption ==
    /\ Ops \subseteq {"Pause", "Resume", "Add", "Remove", "Status"}
    /\ Events \subseteq {"Login", "Logout", "Lock", "Unlock", "Sleep"}
    /\ SaveMayFail \in BOOLEAN /\ MaxEvents \in Nat

Watcher == "watcher"
Threads == Callers \union {Watcher}

VARIABLES
    mu,       \* the thread that holds Manager.mu, or Missing
    heap,     \* the arrays slices point into
    entry,    \* m.state.Users[user]
    disk,     \* the user in state.json
    pc,       \* where each thread is
    job,      \* the method or the signal each thread works on
    copy,     \* each thread's local User
    logind,   \* what the watcher was told of each session
    early,    \* sessions that were open before the first call
    asked,    \* sessions logind was asked to lock
    behind,   \* the last save failed
    events    \* signals so far (bounded)

vars == <<mu, heap, entry, disk, pc, job, copy, logind, early, asked, behind, events>>

Record == [id : Ids, status : {"running", "idle", "ended"}]
Slice == [addr : Nat, len : Nat]
User == [sessions : Slice, overrides : Slice, paused : BOOLEAN]
Nil == [addr |-> 0, len |-> 0]
NewUser == [sessions |-> Nil, overrides |-> Nil, paused |-> FALSE]

\* Calls, the watcher, what the map and the arrays hold, and nothing are distinct.
ASSUME NamesAssumption ==
    /\ Watcher \notin Callers /\ Missing \notin Threads
    /\ Missing \notin User \union Record /\ Callers \intersect Record = {}

\* The threads that are between taking and releasing the mutex.
InMutex(t) == pc[t] \in {"marshal", "hread", "hwrite", "hsave"}

TypeOK ==
    /\ mu \in Threads \union {Missing}
    /\ \A c \in Callers : pc[c] \in {"idle", "getState", "read", "modify", "write",
            "save", "marshal", "lock", "returned", "refused", "failed"}
    /\ pc[Watcher] \in {"idle", "enter", "hread", "hwrite", "hsave"}
    /\ \A t \in Threads : mu = t <=> InMutex(t)
    /\ heap \in Seq(Seq(Record \union Callers \union {Missing}))
    /\ entry \in User \union {Missing}
    /\ entry # Missing => \A h \in {entry.sessions, entry.overrides} :
         h = Nil \/ (h.addr \in DOMAIN heap /\ h.len <= Len(heap[h.addr]))
    /\ copy \in [Threads -> User \union {Missing}]
    /\ logind \in [Ids -> {"new", "open", "gone"}]
    /\ {asked, early} \subseteq SUBSET Ids /\ behind \in BOOLEAN /\ events \in 0 .. MaxEvents

-----------------------------------------------------------------------------
(* Slices.                                                                 *)

Elements(hp, h) == [i \in 1 .. h.len |-> hp[h.addr][i]]

Capacity(hp, h) == IF h.addr = 0 THEN 0 ELSE Len(hp[h.addr])

\* append: in place if the array has room after the slice, whoever else uses
\* that slot, else into a copy of twice the size (what Go's allocator gives
\* for the size of a SessionRecord and of an Override).
GoAppend(hp, h, x) ==
    IF h.len < Capacity(hp, h)
    THEN [heap  |-> [hp EXCEPT ![h.addr][h.len + 1] = x],
          slice |-> [h EXCEPT !.len = @ + 1]]
    ELSE [heap  |-> Append(hp, [i \in 1 .. (IF h.len = 0 THEN 1 ELSE 2 * h.len) |->
                                  IF i <= h.len THEN hp[h.addr][i]
                                  ELSE IF i = h.len + 1 THEN x ELSE Missing]),
          slice |-> [addr |-> Len(hp) + 1, len |-> h.len + 1]]

\* append(s[:i-1], s[i:]...): shifts the rest down in the shared array.
GoRemove(hp, h, i) ==
    [heap  |-> [hp EXCEPT ![h.addr] = [j \in DOMAIN @ |->
                    IF j \in i .. h.len - 1 THEN @[j + 1] ELSE @[j]]],
     slice |-> [h EXCEPT !.len = @ - 1]]

\* The user as save writes it.
View(hp, usr) ==
    IF usr = Missing THEN Missing
    ELSE [sessions |-> Elements(hp, usr.sessions),
          overrides |-> Elements(hp, usr.overrides), paused |-> usr.paused]

Init ==
    /\ mu = Missing
    /\ \/ heap = <<>> /\ entry = Missing /\ logind = [id \in Ids |-> "new"]
       \/ \E id \in Ids :
            /\ heap = << <<[id |-> id, status |-> "running"]>> >>
            /\ entry = [NewUser EXCEPT !.sessions = [addr |-> 1, len |-> 1]]
            /\ logind = [i \in Ids |-> IF i = id THEN "open" ELSE "new"]
    /\ early = {id \in Ids : logind[id] = "open"}
    /\ disk = View(heap, entry)
    /\ pc = [t \in Threads |-> "idle"]
    /\ job = [t \in Threads |-> Missing]
    /\ copy = [t \in Threads |-> Missing]
    /\ asked = {} /\ behind = FALSE /\ events = 0

Goto(t, label) == pc' = [pc EXCEPT ![t] = label]

-----------------------------------------------------------------------------
(* The methods of protocol.go.                                             *)

Call(c) ==
    /\ pc[c] = "idle"
    /\ \E op \in Ops : job' = [job EXCEPT ![c] = op]
    /\ Goto(c, "getState")
    /\ UNCHANGED <<mu, heap, entry, disk, copy, logind, early, asked, behind, events>>

GetState(c) ==
    /\ pc[c] = "getState" /\ mu = Missing
    /\ Goto(c, "read")
    /\ UNCHANGED <<mu, heap, entry, disk, job, copy, logind, early, asked, behind, events>>

\* Mutant: GetUser clones the sessions as well.
ReadCloning(c) ==
    /\ pc[c] = "read" /\ entry # Missing /\ entry.sessions.len > 0
    /\ heap' = Append(heap, Elements(heap, entry.sessions))
    /\ copy' = [copy EXCEPT ![c] =
                   [entry EXCEPT !.sessions.addr = Len(heap) + 1]]
    /\ Goto(c, "modify")
    /\ UNCHANGED <<mu, entry, disk, job, logind, early, asked, behind, events>>

\* GetUser copies the User: its slices still share their arrays.
Read(c) ==
    /\ pc[c] = "read"
    /\ LET usr == IF entry = Missing /\ job[c] = "Add" THEN NewUser ELSE entry
           refused == usr = Missing \/ (job[c] = "Remove" /\ usr.overrides.len = 0)
       IN  IF refused \/ job[c] = "Status"
           THEN Goto(c, IF refused THEN "refused" ELSE "returned") /\ UNCHANGED copy
           ELSE Goto(c, "modify") /\ copy' = [copy EXCEPT ![c] = usr]
    /\ UNCHANGED <<mu, heap, entry, disk, job, logind, early, asked, behind, events>>

SetPaused(c) ==
    /\ job[c] \in {"Pause", "Resume"}
    /\ copy' = [copy EXCEPT ![c].paused = (job[c] = "Pause")]
    /\ UNCHANGED heap

SetOverrides(c, result) ==
    /\ heap' = result.heap
    /\ copy' = [copy EXCEPT ![c].overrides = result.slice]

\* Mutant: a user made for the override already has it when it is added.
ModifyTwice(c) ==
    /\ pc[c] = "modify"
    /\ \/ SetPaused(c)
       \/ /\ job[c] = "Add"
          /\ LET once == GoAppend(heap, copy[c].overrides, c)
             IN  SetOverrides(c, IF copy[c].sessions = Nil
                                 THEN GoAppend(once.heap, once.slice, c) ELSE once)
    /\ Goto(c, "write")
    /\ UNCHANGED <<mu, entry, disk, job, logind, early, asked, behind, events>>

Modify(c) ==
    /\ pc[c] = "modify"
    /\ \/ SetPaused(c)
       \/ job[c] = "Add" /\ SetOverrides(c, GoAppend(heap, copy[c].overrides, c))
       \/ /\ job[c] = "Remove"
          /\ \E i \in 1 .. copy[c].overrides.len :
               SetOverrides(c, GoRemove(heap, copy[c].overrides, i))
    /\ Goto(c, "write")
    /\ UNCHANGED <<mu, entry, disk, job, logind, early, asked, behind, events>>

\* Mutant: removing an override is not saved.
WriteUnsaved(c) ==
    /\ pc[c] = "write"
    /\ entry' = copy[c]
    /\ Goto(c, IF job[c] \in {"Remove", "Resume"} THEN "returned" ELSE "save")
    /\ UNCHANGED <<mu, heap, disk, job, copy, logind, early, asked, behind, events>>

\* st.Users[user] = *u, without the mutex.
Write(c) ==
    /\ pc[c] = "write"
    /\ entry' = copy[c]
    /\ Goto(c, "save")
    /\ UNCHANGED <<mu, heap, disk, job, copy, logind, early, asked, behind, events>>

StartSave(c) ==
    /\ pc[c] = "save" /\ mu = Missing
    /\ mu' = c
    /\ Goto(c, "marshal")
    /\ UNCHANGED <<heap, entry, disk, job, copy, logind, early, asked, behind, events>>

FinishSave(c) ==
    /\ pc[c] = "marshal"
    /\ \/ /\ disk' = View(heap, entry)
          /\ behind' = FALSE
          /\ Goto(c, IF job[c] = "Pause" THEN "lock" ELSE "returned")
       \/ SaveMayFail /\ UNCHANGED disk /\ behind' = TRUE /\ Goto(c, "failed")
    /\ mu' = Missing
    /\ copy' = [copy EXCEPT ![c] = Missing]
    /\ UNCHANGED <<heap, entry, job, logind, early, asked, events>>

\* The active record GetActiveSession returns: the last one.
LastActive(hp, usr) ==
    LET active == {i \in 1 .. usr.sessions.len :
                     hp[usr.sessions.addr][i].status # "ended"}
    IN  {hp[usr.sessions.addr][i].id : i \in {j \in active : \A k \in active : k <= j}}

\* PauseUser ends in LockUserSession, which asks logind to lock the session.
LockPaused(c) ==
    /\ pc[c] = "lock" /\ mu = Missing
    /\ asked' = asked \union LastActive(heap, entry)
    /\ Goto(c, "returned")
    /\ UNCHANGED <<mu, heap, entry, disk, job, copy, logind, early, behind, events>>

-----------------------------------------------------------------------------
(* The watcher's handlers.                                                 *)

\* logind says each session is new, perhaps twice, then gone.
Receive ==
    /\ pc[Watcher] = "idle" /\ events < MaxEvents
    /\ \E name \in Events, id \in Ids :
         /\ name = "Login" => logind[id] # "gone"
         /\ name \in {"Logout", "Lock", "Unlock"} => logind[id] = "open"
         /\ job' = [job EXCEPT ![Watcher] = [name |-> name, id |-> id]]
         /\ logind' = CASE name = "Login" -> [logind EXCEPT ![id] = "open"]
                        [] name = "Logout" -> [logind EXCEPT ![id] = "gone"]
                        [] OTHER -> logind
    /\ events' = events + 1
    /\ Goto(Watcher, "enter")
    /\ UNCHANGED <<mu, heap, entry, disk, copy, early, asked, behind>>

Enter ==
    /\ pc[Watcher] = "enter" /\ mu = Missing
    /\ mu' = Watcher
    /\ Goto(Watcher, "hread")
    /\ UNCHANGED <<heap, entry, disk, job, copy, logind, early, asked, behind, events>>

\* The index of the record GetSessionByID returns: no ID comes twice here.
Found(usr, id) ==
    {i \in 1 .. usr.sessions.len : heap[usr.sessions.addr][i].id = id}

\* Where a handler goes on with what it has read: it leaves early when it finds
\* no user or no record, but a sleep, which looks for neither, saves.
Onward(name, usr) ==
    IF usr = Missing THEN IF name = "Sleep" THEN "hsave" ELSE "idle"
    ELSE IF name \in {"Logout", "Lock", "Unlock"} /\ Found(usr, job[Watcher].id) = {}
         THEN "idle" ELSE "hwrite"

\* Mutant: the early return forgets the mutex.
HandlerReadKeepingMutex ==
    LET name == job[Watcher].name
        usr == IF entry = Missing /\ name = "Login" THEN NewUser ELSE entry
    IN  /\ pc[Watcher] = "hread"
        /\ copy' = [copy EXCEPT ![Watcher] = IF Onward(name, usr) = "hwrite" THEN usr ELSE Missing]
        /\ Goto(Watcher, Onward(name, usr))
        /\ UNCHANGED <<mu, heap, entry, disk, job, logind, early, asked, behind, events>>

HandlerRead ==
    LET name == job[Watcher].name
        usr == IF entry = Missing /\ name = "Login" THEN NewUser ELSE entry
    IN  /\ pc[Watcher] = "hread"
        /\ copy' = [copy EXCEPT ![Watcher] = IF Onward(name, usr) = "hwrite" THEN usr ELSE Missing]
        /\ mu' = IF Onward(name, usr) = "idle" THEN Missing ELSE mu
        /\ Goto(Watcher, Onward(name, usr))
        /\ UNCHANGED <<heap, entry, disk, job, logind, early, asked, behind, events>>

\* What a signal does to a record; a record that ended keeps its status.
After(name, r) ==
    IF r.status = "ended" THEN r
    ELSE [r EXCEPT !.status = CASE name = "Logout" -> "ended"
                                [] name \in {"Lock", "Sleep"} -> "idle"
                                [] name \in {"Unlock", "Login"} -> "running"]

\* Records change in place, in the array the map's slice may share.
ChangeRecords(which) ==
    LET h == copy[Watcher].sessions
    IN  /\ heap' = IF h.addr = 0 THEN heap
                   ELSE [heap EXCEPT ![h.addr] = [i \in DOMAIN @ |->
                       IF i \in which THEN After(job[Watcher].name, @[i]) ELSE @[i]]]
        /\ entry' = copy[Watcher]

\* A login of an unknown session appends a record; one of an active session
\* that is not idle changes and saves nothing.
HandlerWrite ==
    LET usr == copy[Watcher]
        known == Found(usr, job[Watcher].id)
        new == GoAppend(heap, usr.sessions, [id |-> job[Watcher].id, status |-> "running"])
    IN  /\ pc[Watcher] = "hwrite"
        /\ \/ /\ job[Watcher].name = "Login" /\ known = {}
              /\ heap' = new.heap
              /\ entry' = [usr EXCEPT !.sessions = new.slice]
              /\ Goto(Watcher, "hsave") /\ UNCHANGED mu
           \/ /\ job[Watcher].name = "Login" /\ known # {}
              /\ \E i \in known : heap[usr.sessions.addr][i].status = "running"
              /\ mu' = Missing /\ Goto(Watcher, "idle")
              /\ UNCHANGED <<heap, entry>>
           \/ /\ job[Watcher].name = "Login" => \E i \in known :
                    heap[usr.sessions.addr][i].status = "idle"
              /\ ChangeRecords(IF job[Watcher].name = "Sleep"
                               THEN 1 .. usr.sessions.len ELSE known)
              /\ Goto(Watcher, "hsave") /\ UNCHANGED mu
        /\ copy' = [copy EXCEPT ![Watcher] = Missing]
        /\ UNCHANGED <<disk, job, logind, early, asked, behind, events>>

HandlerSave ==
    /\ pc[Watcher] = "hsave"
    /\ \/ disk' = View(heap, entry) /\ behind' = FALSE
       \/ SaveMayFail /\ UNCHANGED disk /\ behind' = TRUE
    /\ mu' = Missing
    /\ Goto(Watcher, "idle")
    /\ UNCHANGED <<heap, entry, job, copy, logind, early, asked, events>>

-----------------------------------------------------------------------------

Unlocked(c) == Read(c) \/ Modify(c) \/ Write(c) \/ FinishSave(c)
Locking(c) == GetState(c) \/ StartSave(c) \/ LockPaused(c)
Handler == HandlerRead \/ HandlerWrite \/ HandlerSave

Next ==
    \/ \E c \in Callers : Call(c) \/ Unlocked(c) \/ Locking(c)
    \/ Receive \/ Enter \/ Handler

\* Goroutines are scheduled; sync.Mutex hands itself to one that has waited
\* for a millisecond.
Fairness ==
    /\ \A c \in Callers : WF_vars(Unlocked(c)) /\ SF_vars(Locking(c))
    /\ WF_vars(Handler) /\ SF_vars(Enter)

Spec == Init /\ [][Next]_vars /\ Fairness

-----------------------------------------------------------------------------
(* What callers and the watcher may rely on.                               *)

Settled == pc[Watcher] = "idle"
Returned == {"returned", "refused", "failed"}
Quiet == Settled /\ \A c \in Callers : pc[c] \in Returned \union {"idle"}

Recorded(usr) ==
    IF usr = Missing THEN {} ELSE Range(Elements(heap, usr.sessions))
ActiveIds(usr) == {r.id : r \in {q \in Recorded(usr) : q.status # "ended"}}
OpenIds == {id \in Ids : logind[id] = "open"}

\* Once no one is at work the file holds what memory holds, whatever the
\* order in which methods and handlers changed and saved it, unless the last
\* save failed.
DiskCurrent == Quiet /\ ~ behind => disk = View(heap, entry)

\* A session that was open before the first call stays ended once it has, although
\* a method may write back a User that it copied before the logout: the copy shares
\* the array the record ended in.  (Not if another session's login made append
\* move the records to a new array meanwhile.)
NoneRevived ==
    Settled /\ (\A id \in Ids \ early : logind[id] = "new") =>
        ActiveIds(entry) \intersect early \subseteq OpenIds

\* No override is in force twice once no one is at work.
GrantedAtMostOnce ==
    Quiet /\ entry # Missing => IsInjective(Elements(heap, entry.overrides))

\* As long as none is removed, no override is in force twice, although stale
\* copies of the list are written back.
GrantedOnce == (\A c \in Callers : job[c] # "Remove") => GrantedAtMostOnce

\* A user whose pause returned is paused as long as no one calls resume.
PauseSticks ==
    Quiet /\ (\E c \in Callers : job[c] = "Pause" /\ pc[c] = "returned")
          /\ (\A c \in Callers : job[c] # "Resume")
        => entry.paused

\* A session whose login was handled is recorded as active until its logout.
LoginsKept == Quiet => OpenIds \subseteq ActiveIds(entry)

\* No goroutine writes the map of users while another one is reading,
\* iterating over or writing it.
MapWriters == {t \in Threads : pc[t] = "write" \/ (pc[t] = "hwrite")}
MapReaders ==
    {t \in Threads : pc[t] \in {"read", "marshal", "hread", "hsave"}}
NoMapRace == \A w \in MapWriters : MapWriters \union MapReaders = {w}

\* Every call returns: the mutex is always released, and the watcher does
\* not keep a caller from it for ever.
CallsReturn == \A c \in Callers : pc[c] = "getState" ~> pc[c] \in Returned
=============================================================================
