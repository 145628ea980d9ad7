------------------------------- MODULE Daemons -------------------------------
(***************************************************************************)
(* cmd/sessionwardend: the life of the system daemon, whose watcher,       *)
(* D-Bus service and engine run beside one another, and of the user        *)
(* daemons that show its notifications.                                    *)
(*                                                                         *)
(* What the threads do to the state is left to the other modules; here     *)
(* they start, work, fail and end, and are or are not in the middle of the *)
(* map of users, which nothing keeps them from using at once.  A panic in  *)
(* any of them takes the process with it; systemd starts a process that    *)
(* failed again, until it has done so too often.                           *)
(***************************************************************************)
EXTENDS Integers, SequencesExt

CONSTANTS
    Users,
    Graphical,   \* users with a desktop, whose session starts a user daemon
    Capacity,    \* slots of a user daemon's channel (10 in the code)
    Burst,       \* starts in a row that systemd makes (5, in ten seconds)
    MaxNotes,    \* bound on the notifications that someone listens to
    MaxFaults,   \* bound on what goes wrong
    MaxStops     \* bound on stops of the service

ASSUME DaemonsAssumption ==
    /\ Graphical \subseteq Users
    /\ {Capacity, Burst} \subseteq Nat \ {0}
    /\ {MaxNotes, MaxFaults, MaxStops} \subseteq Nat

VARIABLES
    process,     \* the system daemon: "down", "starting", "running" or "failed"
    wanted,      \* systemd is to keep it running
    starts,      \* starts that count for systemd's limit
    cancelled,   \* ctx
    at,          \* where each of its threads is
    open,        \* threads whose connection to the bus is open
    conn,        \* SessionManager.conn is set
    config,      \* the configuration of the process is not nil
    calls,       \* what calls in flight do with the map of users
    bus,         \* the system bus is up
    to,          \* the addressees of the notifications, as they were emitted
    mode,        \* where each user's daemon is, "away" without a session
    inbox,       \* its channel
    waiting,     \* notifications that found the channel full
    shown,       \* how often each notification was shown to each user
    faults, stops   \* so far (bounded)

processVars == <<process, wanted, starts, cancelled, at, open, conn, config, calls>>
userVars == <<to, mode, inbox, waiting, shown>>
bounds == <<faults, stops>>
vars == <<processVars, bus, userVars, bounds>>

Threads == {"watcher", "service", "engine"}
Notes == 1 .. MaxNotes

\* There is none, there are some that read it, there is one that writes it, or
\* there are several one of which writes it.
Calls == {"none", "reads", "writes", "mixed"}

TypeOK ==
    /\ process \in {"down", "starting", "running", "failed"}
    /\ {wanted, cancelled, conn, config, bus} \subseteq BOOLEAN
    /\ starts \in 0 .. Burst /\ calls \in Calls
    /\ at["watcher"] \in {"off", "matching", "registering", "watching", "handling", "deaf",
                         "failed", "done"}
    /\ at["service"] \in {"off", "naming", "named", "serving", "failed", "done"}
    /\ at["engine"] \in {"off", "checking", "ticking", "done"}
    /\ open \subseteq Threads /\ (open # {} => bus /\ process = "running")
    /\ to \in Seq(Users) /\ Len(to) <= MaxNotes
    /\ mode \in [Users -> {"away", "off", "matching", "listening", "closing"}]
    /\ \A u \in Users : mode[u] # "away" => u \in Graphical
    /\ \A u \in Users : mode[u] = "away" => inbox[u] = <<>> /\ waiting[u] = {}
    /\ inbox \in [Users -> Seq(Notes)] /\ \A u \in Users : Len(inbox[u]) <= Capacity
    /\ waiting \in [Users -> SUBSET Notes]
    /\ shown \in [Notes -> [Users -> Nat]]

AllOff == [t \in Threads |-> "off"]
NoProcess ==
    /\ cancelled' = FALSE /\ at' = AllOff /\ open' = {}
    /\ conn' = FALSE /\ config' = FALSE /\ calls' = "none"

Init ==
    /\ process = "down" /\ wanted = FALSE /\ starts = 0 /\ cancelled = FALSE
    /\ at = AllOff /\ open = {} /\ conn = FALSE /\ config = FALSE /\ calls = "none"
    /\ bus = TRUE
    /\ to = <<>>
    /\ mode = [u \in Users |-> "away"]
    /\ inbox = [u \in Users |-> <<>>] /\ waiting = [u \in Users |-> {}]
    /\ shown = [n \in Notes |-> [u \in Users |-> 0]]
    /\ faults = 0 /\ stops = 0

\* Something goes wrong that may go wrong anywhere.
Fault == faults < MaxFaults /\ faults' = faults + 1 /\ UNCHANGED stops

-----------------------------------------------------------------------------
(* systemd and the process: runSystemDaemon.                               *)

\* An operator's start, which waits for the limit to pass.
StartUnit ==
    /\ process \in {"down", "failed"} /\ ~ wanted /\ stops < MaxStops
    /\ process' = "starting" /\ wanted' = TRUE /\ starts' = 1
    /\ UNCHANGED <<cancelled, at, open, conn, config, calls, bus, userVars, bounds>>

\* Restart=on-failure, 100 ms later.
Restart ==
    /\ process = "failed" /\ wanted /\ starts < Burst
    /\ process' = "starting" /\ starts' = starts + 1
    /\ UNCHANGED <<wanted, cancelled, at, open, conn, config, calls, bus, userVars, bounds>>

\* The start limit is hit: the unit stays as it is.
GiveUp ==
    /\ process = "failed" /\ wanted /\ starts = Burst
    /\ wanted' = FALSE /\ starts' = 0
    /\ UNCHANGED <<process, cancelled, at, open, conn, config, calls, bus,
                   userVars, bounds>>

\* NewManager and NewEngine end the process when they fail.  LoadConfig does
\* not, since the next assignment to err takes its place; whether the file
\* loads is up to whoever edited it last.
Initialise ==
    /\ process = "starting"
    /\ \/ /\ bus /\ process' = "running"
          /\ config' \in BOOLEAN
          /\ at' = [watcher |-> "matching", service |-> "naming", engine |-> "checking"]
          /\ open' = {"engine"} /\ UNCHANGED <<cancelled, conn, calls, bounds>>
       \/ ~ bus /\ process' = "failed" /\ NoProcess /\ UNCHANGED bounds
       \/ Fault /\ process' = "failed" /\ NoProcess
    /\ UNCHANGED <<wanted, starts, bus, userVars>>

\* SIGTERM ends a process that does not listen for it yet.
StopUnit ==
    /\ wanted /\ stops' = stops + 1 /\ UNCHANGED faults
    /\ wanted' = FALSE /\ starts' = 0
    /\ \/ /\ process = "running" /\ cancelled' = TRUE
          /\ UNCHANGED <<process, at, open, conn, config, calls>>
       \/ process # "running" /\ process' = "down" /\ NoProcess
    /\ UNCHANGED <<bus, userVars>>

\* Its start no longer counts, nor those before it, if it was long enough ago.
Panic ==
    /\ process' = "failed" /\ NoProcess
    /\ starts' \in {0, starts} /\ UNCHANGED wanted

\* wg.Wait.
Exit ==
    /\ process = "running" /\ \A t \in Threads : at[t] \in {"done", "failed"}
    /\ process' = "down" /\ NoProcess
    /\ UNCHANGED <<wanted, starts, bus, userVars, bounds>>

-----------------------------------------------------------------------------
(* The threads.                                                            *)

\* A thread of the running process goes on, and its connection is left open
\* or not; nothing else changes.
Goes(t, from, goal, opens) ==
    /\ process = "running" /\ at[t] = from
    /\ at' = [at EXCEPT ![t] = goal]
    /\ open' = IF opens THEN open \union {t} ELSE open \ {t}
    /\ UNCHANGED <<process, wanted, starts, cancelled, config, calls, bus, userVars>>

Step(t, from, goal, opens) == Goes(t, from, goal, opens) /\ UNCHANGED <<conn, bounds>>

\* Connecting, matching and asking for a name fail without the bus.
Fails(t, from) ==
    \/ ~ bus /\ Step(t, from, "failed", FALSE)
    \/ Fault /\ Goes(t, from, "failed", FALSE) /\ UNCHANGED conn

\* A channel given to a connection that is closed is never written nor closed.
WatcherStarts ==
    \/ bus /\ Step("watcher", "matching", "registering", TRUE)
    \/ Fails("watcher", "matching")
    \/ "watcher" \in open /\ Step("watcher", "registering", "watching", TRUE)
    \/ "watcher" \notin open /\ Step("watcher", "registering", "deaf", FALSE)

\* Mutant: the watcher ends when its channel is closed.
WatchClosedEnding ==
    "watcher" \notin open /\ Step("watcher", "watching", "done", FALSE)

\* The receive from the closed channel yields a nil signal.
WatchClosed ==
    /\ at["watcher"] = "watching" /\ "watcher" \notin open
    /\ Panic
    /\ UNCHANGED <<bus, userVars, bounds>>

\* What a closed connection left in the channel is not handled here.
WatcherHandles ==
    \/ "watcher" \in open /\ Step("watcher", "watching", "handling", TRUE)
    \/ Step("watcher", "handling", "watching", "watcher" \in open)

ServiceStarts ==
    \/ bus /\ Step("service", "naming", "named", TRUE)
    \/ Fails("service", "naming")
    \/ /\ Goes("service", "named", "serving", "service" \in open)
       /\ conn' = TRUE /\ UNCHANGED bounds

\* A handler or a call may be writing the map of users while another thread or
\* call uses it.
Handling == at["watcher"] = "handling"
Checking == at["engine"] = "checking"
MapShared ==
    \/ Handling /\ (Checking \/ calls # "none")
    \/ Checking /\ calls = "writes"
    \/ calls = "mixed"

\* The runtime may see it, and ends the process: concurrent map writes, read or
\* iteration.
MapFatal ==
    /\ process = "running" /\ MapShared /\ Fault
    /\ Panic /\ UNCHANGED <<bus, userVars>>

\* Mutant: the watcher ranges over its channel and never looks at ctx.
ThreadEndsButDeaf(t) ==
    /\ cancelled
    /\ \E from \in {"watching", "serving", "ticking"} : Step(t, from, "done", FALSE)

ThreadEnds(t) ==
    /\ cancelled
    /\ \E from \in {"watching", "deaf", "serving", "ticking"} : Step(t, from, "done", FALSE)

-----------------------------------------------------------------------------
(* Notifications on their way.                                             *)

Subscribed(u) == mode[u] = "listening"

\* Mutant: whoever listens has room for everything.
EmitUnbounded(u) ==
    /\ Len(to) < MaxNotes /\ (\E v \in Users : Subscribed(v)) /\ to' = Append(to, u)
    /\ inbox' = [v \in Users |-> IF Subscribed(v) THEN Append(inbox[v], Len(to) + 1)
                                 ELSE inbox[v]]
    /\ UNCHANGED <<mode, waiting, shown>>

\* Every user daemon gets every notification: into its channel or, if that
\* is full, into a goroutine of its own.  What no one listens to leaves no trace.
Emit(u) ==
    /\ Len(to) < MaxNotes /\ (\E v \in Users : Subscribed(v)) /\ to' = Append(to, u)
    /\ inbox' = [v \in Users |-> IF Subscribed(v) /\ Len(inbox[v]) < Capacity
                                 THEN Append(inbox[v], Len(to) + 1) ELSE inbox[v]]
    /\ waiting' = [v \in Users |-> IF Subscribed(v) /\ Len(inbox[v]) = Capacity
                                   THEN waiting[v] \union {Len(to) + 1} ELSE waiting[v]]
    /\ UNCHANGED <<mode, shown>>

\* EmitNotificationSignal: an error if there is no connection, or a closed one.
CanEmit == conn /\ "service" \in open

\* Mutant: the connection is used although it may not be set.
RoundEndsUnchecked ==
    /\ process = "running" /\ Checking
    /\ \/ CanEmit /\ \E u \in Users :
            /\ Emit(u)
            /\ at' = [at EXCEPT !["engine"] = "ticking"]
            /\ UNCHANGED <<process, wanted, starts, cancelled, open, conn, config, calls,
                           bus, bounds>>
       \/ ~ conn /\ Panic /\ UNCHANGED <<bus, userVars, bounds>>

\* checkSessions goes through the users at once and then every minute.
RoundStarts == Step("engine", "ticking", "checking", "engine" \in open)

\* It warns a user, or fails to, and needs the configuration for whoever is
\* known and not paused, which is left open.
RoundEnds ==
    /\ process = "running" /\ Checking
    /\ \/ /\ at' = [at EXCEPT !["engine"] = "ticking"]
          /\ \/ UNCHANGED userVars
             \/ config /\ CanEmit /\ \E u \in Users : Emit(u)
          /\ UNCHANGED <<process, wanted, starts, cancelled, open, conn, config, calls,
                         bus, bounds>>
       \/ ~ config /\ Panic /\ UNCHANGED <<bus, userVars, bounds>>

-----------------------------------------------------------------------------
(* The methods, which run in goroutines of their own.                      *)

Serving == at["service"] = "serving" /\ "service" \in open

\* CheckLogin, SendNotification, GetUserStatus and ListOverrides read the map;
\* PauseUser, ResumeUser, AddOverride and RemoveOverride write it.
CallStarts ==
    /\ Serving /\ calls # "mixed"
    /\ calls' \in (IF calls = "none" THEN {"reads", "writes"} ELSE {"mixed"})
    /\ UNCHANGED <<process, wanted, starts, cancelled, at, open, conn, config, bus,
                   userVars, bounds>>

\* A call that reads or writes the map ends, and others go on or not.
Returns(kind) ==
    /\ calls \in {kind, "mixed"}
    /\ \/ calls # "mixed" /\ calls' \in {"none", kind} \ {"writes"}
       \/ calls = "mixed" /\ calls' \in {"writes", "mixed"}
       \/ calls = "mixed" /\ kind = "writes" /\ calls' = "reads"
    /\ UNCHANGED <<process, wanted, starts, cancelled, at, open, conn, config, bounds>>

\* CheckLogin looks its user up in the configuration, and PauseUser to lock the
\* session.
CallEnds ==
    \/ (\E kind \in {"reads", "writes"} : Returns(kind)) /\ UNCHANGED <<bus, userVars>>
    \/ calls # "none" /\ ~ config /\ Panic /\ UNCHANGED <<bus, userVars, bounds>>

SendNotification(u) ==
    /\ Returns("reads") /\ CanEmit
    /\ Emit(u)
    /\ UNCHANGED bus

-----------------------------------------------------------------------------
(* People.                                                                 *)

\* CheckLogin lets the user in, and the session starts the user's daemon.  Who
\* has no desktop comes and goes without a change here.
Login(u) ==
    /\ mode[u] = "away" /\ u \in Graphical
    /\ Returns("reads") /\ config
    /\ mode' = [mode EXCEPT ![u] = "off"]
    /\ UNCHANGED <<bus, to, inbox, waiting, shown>>

Logout(u) ==
    /\ mode[u] # "away"
    /\ mode' = [mode EXCEPT ![u] = "away"]
    /\ inbox' = [inbox EXCEPT ![u] = <<>>] /\ waiting' = [waiting EXCEPT ![u] = {}]
    /\ UNCHANGED <<processVars, bus, to, shown, bounds>>

\* All connections close, and with them the channels given to them.
BusLost ==
    /\ bus /\ Fault
    /\ bus' = FALSE /\ open' = {}
    /\ mode' = [u \in Users |-> IF mode[u] = "listening" THEN "closing"
                                ELSE IF mode[u] = "matching" THEN "off" ELSE mode[u]]
    /\ waiting' = [u \in Users |-> {}]
    /\ UNCHANGED <<process, wanted, starts, cancelled, at, conn, config, calls, to, inbox, shown>>

BusBack ==
    /\ ~ bus /\ bus' = TRUE
    /\ UNCHANGED <<processVars, userVars, bounds>>

-----------------------------------------------------------------------------
(* The user daemon: runUserMode.                                           *)

World == UNCHANGED <<processVars, bus>>

\* It matches the signal first and listens once it has the session bus: what
\* comes in between is dropped.  If either fails, it ends and is started anew.
UserStarts(u) ==
    /\ bus /\ mode[u] \in {"off", "matching"}
    /\ mode' = [mode EXCEPT ![u] = IF @ = "off" THEN "matching" ELSE "listening"]
    /\ UNCHANGED <<to, inbox, waiting, shown, bounds>> /\ World

UserFails(u) ==
    /\ mode[u] = "matching" /\ Fault
    /\ mode' = [mode EXCEPT ![u] = "off"]
    /\ UNCHANGED <<to, inbox, waiting, shown>> /\ World

DeferredDeliver(u) ==
    /\ mode[u] = "listening" /\ Len(inbox[u]) < Capacity
    /\ \E n \in waiting[u] :
         /\ inbox' = [inbox EXCEPT ![u] = Append(@, n)]
         /\ waiting' = [waiting EXCEPT ![u] = @ \ {n}]
    /\ UNCHANGED <<to, mode, shown, bounds>> /\ World

\* Mutant: the notification is shown to whoever listens.
HandleUnfiltered(u) ==
    /\ inbox[u] # <<>> /\ inbox' = [inbox EXCEPT ![u] = Tail(@)]
    /\ shown' = [shown EXCEPT ![Head(inbox[u])][u] = @ + 1]
    /\ UNCHANGED <<to, mode, waiting, bounds>> /\ World

\* Mutant: someone else's notification ends the loop, not the handler.
HandleOwnOnly(u) ==
    /\ inbox[u] # <<>> /\ to[Head(inbox[u])] = u
    /\ inbox' = [inbox EXCEPT ![u] = Tail(@)]
    /\ shown' = [shown EXCEPT ![Head(inbox[u])][u] = @ + 1]
    /\ UNCHANGED <<to, mode, waiting, bounds>> /\ World

\* handleNotificationSignal: other users' notifications are ignored.  The
\* desktop may refuse it, which is logged.
HandleNotification(u) ==
    /\ inbox[u] # <<>> /\ inbox' = [inbox EXCEPT ![u] = Tail(@)]
    /\ LET n == Head(inbox[u])
       IN  \/ to[n] # u /\ UNCHANGED <<shown, bounds>>
           \/ to[n] = u /\ shown' = [shown EXCEPT ![n][u] = @ + 1] /\ UNCHANGED bounds
           \/ to[n] = u /\ Fault /\ UNCHANGED shown
    /\ UNCHANGED <<to, mode, waiting>> /\ World

\* A closed channel yields what it holds and then a nil signal.
UserClosed(u) ==
    /\ mode[u] = "closing" /\ inbox[u] = <<>>
    /\ mode' = [mode EXCEPT ![u] = "off"]
    /\ UNCHANGED <<to, inbox, waiting, shown, bounds>> /\ World

-----------------------------------------------------------------------------

Daemon ==
    \/ Initialise \/ Exit \/ WatcherStarts \/ WatcherHandles \/ WatchClosed \/ ServiceStarts
    \/ RoundStarts \/ RoundEnds \/ MapFatal
    \/ \E t \in Threads : ThreadEnds(t)
    \/ CallStarts \/ CallEnds

UserDaemon(u) ==
    \/ UserStarts(u) \/ DeferredDeliver(u) \/ HandleNotification(u) \/ UserClosed(u)

Next ==
    \/ StartUnit \/ Restart \/ GiveUp \/ StopUnit \/ Daemon
    \/ BusLost \/ BusBack
    \/ \E u \in Users :
         \/ Login(u) \/ Logout(u) \/ UserDaemon(u) \/ UserFails(u)
         \/ SendNotification(u)

\* Go schedules every thread, and a select that goes on finding several of its
\* cases ready chooses each of them some time; systemd does as it is told; a bus
\* that was lost comes back.
Fairness ==
    /\ WF_vars(Initialise) /\ WF_vars(Exit) /\ WF_vars(Restart) /\ WF_vars(GiveUp)
    /\ WF_vars(BusBack)
    /\ WF_vars(WatcherStarts) /\ WF_vars(WatchClosed) /\ WF_vars(ServiceStarts)
    /\ WF_vars(Step("watcher", "handling", "watching", "watcher" \in open))
    /\ WF_vars(RoundEnds) /\ \A t \in Threads : SF_vars(ThreadEnds(t))
    /\ \A u \in Graphical : WF_vars(DeferredDeliver(u)) /\ WF_vars(HandleNotification(u))

Spec == Init /\ [][Next]_vars /\ Fairness

-----------------------------------------------------------------------------
(* What the daemons promise.                                               *)

\* The process dies in the middle of its work only if it has no configuration,
\* its connection to the bus was closed, or the map of users is being written
\* while it is used.
CrashesExplained ==
    [][process = "running" /\ process' = "failed" =>
         ~ config \/ "watcher" \notin open \/ MapShared]_vars

\* A stop ends the process, whichever of its threads has failed, whatever
\* the bus does and however far the start had come.
ShutdownCompletes == cancelled ~> ~ cancelled

\* A start that left the process running without one of its parts: without
\* a configuration, a thread, or a connection that was closed before the
\* watcher, which would have noticed, had its own.
Crippled ==
    /\ process = "running"
    /\ \/ ~ config
       \/ at["watcher"] \in {"failed", "deaf"} \/ at["service"] = "failed"
       \/ "watcher" \in open /\ \E t \in Threads \ open : at[t] \notin {"off", "naming"}

Working ==
    /\ process = "running" /\ config /\ open = Threads
    /\ at["watcher"] \in {"watching", "handling"} /\ at["service"] = "serving"
    /\ at["engine"] \in {"ticking", "checking"}

\* Unless its start was crippled or systemd gives it up, the daemon that is
\* wanted works again after anything that went wrong: the watcher's panic is what
\* brings it back when the bus was lost, if the bus is there before the last of
\* the starts that systemd makes.
Recovers == <>[](wanted /\ ~ Crippled) => <>[]Working

\* A notification is shown only to its addressee, and at most once.
ShownOnceToAddressee ==
    \A n \in Notes, u \in Users : shown[n][u] <= (IF n \in DOMAIN to /\ to[n] = u THEN 1 ELSE 0)

\* A notification that reached its addressee's daemon is shown, unless the
\* desktop refuses it or the daemon ends.
NotificationsShown ==
    \A n \in Notes, u \in Graphical :
        (n \in Range(inbox[u]) \union waiting[u] /\ to[n] = u)
            ~> (n \notin Range(inbox[u]) \union waiting[u])

\* The daemon never dies in the middle of its work.
NeverCrashes == [][process = "running" => process' # "failed"]_vars
=============================================================================
