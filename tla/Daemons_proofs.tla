---------------------------- MODULE Daemons_proofs ----------------------------
(***************************************************************************)
(* Theorems about Daemons, for any users, numbers of notifications, faults *)
(* and stops, channel sizes and start limits.                              *)
(***************************************************************************)
EXTENDS Daemons, TLAPS

Messages ==
    /\ to \in Seq(Users) /\ Len(to) <= MaxNotes
    /\ inbox \in [Users -> Seq(Notes)]
    /\ waiting \in [Users -> SUBSET Notes]
    /\ shown \in [Notes -> [Users -> Nat]]

\* A notification is in one place of a user's daemon at a time: a slot of the
\* channel, or a goroutine that waits for one, and then it was not shown yet.
InOnePlace ==
    \A u \in Users :
        /\ \A i, j \in 1 .. Len(inbox[u]) : inbox[u][i] = inbox[u][j] => i = j
        /\ \A i \in 1 .. Len(inbox[u]) :
             /\ inbox[u][i] \notin waiting[u]
             /\ shown[inbox[u][i]][u] = 0 /\ inbox[u][i] <= Len(to)
        /\ \A n \in waiting[u] : shown[n][u] = 0 /\ n <= Len(to)

ShownInv == Messages /\ InOnePlace /\ ShownOnceToAddressee

-----------------------------------------------------------------------------
(* Every notification is shown to its addressee, and once.                 *)

\* Emitting a notification puts it in one place of each daemon, unshown.
LEMMA EmitKeeps ==
    ASSUME ShownInv, NEW u \in Users, Emit(u)
    PROVE  ShownInv'
<1> USE DEF ShownInv
<1> DEFINE n == Len(to) + 1
<1>0. n \in Notes /\ Len(to) \in Nat /\ ~ (n <= Len(to)) /\ MaxNotes \in Nat
  BY DaemonsAssumption DEF Messages, Emit, Notes
<1>1. to' = Append(to, u) /\ shown' = shown
  BY DEF Emit
<1>10. /\ to' \in Seq(Users) /\ Len(to') = n /\ Len(to') <= MaxNotes
       /\ \A m \in 1 .. Len(to) : to'[m] = to[m]
  BY <1>0, <1>1 DEF Messages, Notes
<1>11. DOMAIN to = 1 .. Len(to) /\ DOMAIN to' = 1 .. Len(to')
  BY <1>10 DEF Messages
<1>2. ASSUME NEW v \in Users
      PROVE  /\ inbox'[v] \in Seq(Notes) /\ waiting'[v] \in SUBSET Notes
             /\ \/ inbox'[v] = inbox[v] /\ waiting'[v] = waiting[v]
                \/ inbox'[v] = Append(inbox[v], n) /\ waiting'[v] = waiting[v]
                \/ inbox'[v] = inbox[v] /\ waiting'[v] = waiting[v] \union {n}
  <2>1. CASE Subscribed(v) /\ Len(inbox[v]) < Capacity
    BY <1>0, <2>1 DEF Messages, Emit
  <2>2. CASE Subscribed(v) /\ Len(inbox[v]) = Capacity
    BY <1>0, <2>2 DEF Messages, Emit
  <2>3. CASE /\ ~ (Subscribed(v) /\ Len(inbox[v]) < Capacity)
             /\ ~ (Subscribed(v) /\ Len(inbox[v]) = Capacity)
    BY <2>3 DEF Messages, Emit
  <2> QED BY <2>1, <2>2, <2>3
<1>3. Messages'
  <2>2. inbox' \in [Users -> Seq(Notes)] /\ waiting' \in [Users -> SUBSET Notes]
    BY <1>2 DEF Emit
  <2> QED BY <1>1, <1>10, <2>2 DEF Messages
<1>4. ASSUME NEW v \in Users
      PROVE  shown[n][v] = 0
  <2>1. shown[n] \in [Users -> Nat]
    BY <1>0 DEF Messages
  <2>2. n \notin DOMAIN to
    BY <1>0 DEF Messages
  <2>3. shown[n][v] <= 0
    BY <1>0, <2>2 DEF ShownOnceToAddressee
  <2> QED BY <2>1, <2>3
<1>5. ASSUME NEW v \in Users
      PROVE  n \notin waiting[v] /\ \A i \in 1 .. Len(inbox[v]) : inbox[v][i] # n
  BY <1>0 DEF InOnePlace
<1>6. \A m \in Notes : m <= Len(to) => m <= Len(to')
  BY <1>0, <1>10 DEF Notes
<1>7. n <= Len(to')
  BY <1>0, <1>10
<1>8. InOnePlace'
  <2> SUFFICES ASSUME NEW v \in Users
               PROVE  /\ \A i, j \in 1 .. Len(inbox'[v]) : inbox'[v][i] = inbox'[v][j] => i = j
                      /\ \A i \in 1 .. Len(inbox'[v]) :
                           /\ inbox'[v][i] \notin waiting'[v]
                           /\ shown'[inbox'[v][i]][v] = 0 /\ inbox'[v][i] <= Len(to')
                      /\ \A m \in waiting'[v] : shown'[m][v] = 0 /\ m <= Len(to')
    BY DEF InOnePlace
  <2>0. /\ inbox[v] \in Seq(Notes) /\ waiting[v] \subseteq Notes
        /\ \A i \in 1 .. Len(inbox[v]) : inbox[v][i] \in Notes
    BY DEF Messages
  <2>1. CASE inbox'[v] = inbox[v] /\ waiting'[v] = waiting[v]
    BY <2>0, <2>1, <1>1, <1>6 DEF InOnePlace
  <2>2. CASE inbox'[v] = Append(inbox[v], n) /\ waiting'[v] = waiting[v]
    BY <2>0, <2>2, <1>1, <1>4, <1>5, <1>6, <1>7 DEF InOnePlace
  <2>3. CASE inbox'[v] = inbox[v] /\ waiting'[v] = waiting[v] \union {n}
    BY <2>0, <2>3, <1>1, <1>4, <1>5, <1>6, <1>7 DEF InOnePlace
  <2> QED BY <1>2, <2>1, <2>2, <2>3
<1>9. ShownOnceToAddressee'
  <2> SUFFICES ASSUME NEW m \in Notes, NEW v \in Users
               PROVE  shown[m][v] <= (IF m \in DOMAIN to' /\ to'[m] = v THEN 1 ELSE 0)
    BY <1>1 DEF ShownOnceToAddressee
  <2>1. CASE m = n
    BY <2>1, <1>4
  <2>2. CASE m # n
    <3>1. m \in DOMAIN to' <=> m \in DOMAIN to
      BY <2>2, <1>0, <1>10, <1>11 DEF Notes
    <3>2. m \in DOMAIN to => to'[m] = to[m]
      BY <1>10, <1>11
    <3> QED BY <3>1, <3>2 DEF ShownOnceToAddressee
  <2> QED BY <2>1, <2>2
<1> QED BY <1>3, <1>8, <1>9

\* A goroutine's delivery moves a notification from one place to the other.
LEMMA DeliverKeeps ==
    ASSUME ShownInv, NEW u \in Users, DeferredDeliver(u)
    PROVE  ShownInv'
<1> USE DEF ShownInv
<1>1. PICK n \in waiting[u] :
        /\ inbox' = [inbox EXCEPT ![u] = Append(@, n)]
        /\ waiting' = [waiting EXCEPT ![u] = @ \ {n}]
  BY DEF DeferredDeliver
<1>2. UNCHANGED <<to, shown>>
  BY DEF DeferredDeliver, World
<1>3. n \in Notes /\ inbox[u] \in Seq(Notes)
  BY DEF Messages
<1>4. Messages'
  BY <1>1, <1>2, <1>3 DEF Messages
<1>5. ASSUME NEW v \in Users
      PROVE  /\ \A i, j \in 1 .. Len(inbox'[v]) : inbox'[v][i] = inbox'[v][j] => i = j
             /\ \A i \in 1 .. Len(inbox'[v]) :
                  /\ inbox'[v][i] \notin waiting'[v]
                  /\ shown'[inbox'[v][i]][v] = 0 /\ inbox'[v][i] <= Len(to')
             /\ \A m \in waiting'[v] : shown'[m][v] = 0 /\ m <= Len(to')
  <2>1. CASE v = u
    <3>1. inbox'[v] = Append(inbox[v], n) /\ waiting'[v] = waiting[v] \ {n}
      BY <1>1, <2>1 DEF Messages
    <3> QED BY <2>1, <3>1, <1>2, <1>3 DEF InOnePlace
  <2>2. CASE v # u
    <3>1. inbox'[v] = inbox[v] /\ waiting'[v] = waiting[v]
      BY <1>1, <2>2 DEF Messages
    <3> QED BY <3>1, <1>2 DEF InOnePlace
  <2> QED BY <2>1, <2>2
<1>6. InOnePlace'
  BY <1>5 DEF InOnePlace
<1> QED BY <1>2, <1>4, <1>6 DEF ShownOnceToAddressee

\* Handling takes the notification out before or as it is shown, and shows it
\* to its addressee alone.
LEMMA HandleKeeps ==
    ASSUME ShownInv, NEW u \in Users, HandleNotification(u)
    PROVE  ShownInv'
<1> USE DEF ShownInv
<1> DEFINE n == inbox[u][1]
<1>1. /\ inbox[u] # <<>> /\ inbox' = [inbox EXCEPT ![u] = Tail(@)]
      /\ UNCHANGED <<to, waiting>>
  BY DEF HandleNotification, World
<1>2. inbox[u] \in Seq(Notes) /\ Len(inbox[u]) \in Nat /\ 1 \in 1 .. Len(inbox[u])
  BY <1>1 DEF Messages
<1>3. n \in Notes /\ n = Head(inbox[u])
  BY <1>2
<1>4. \/ shown' = shown
      \/ to[n] = u /\ shown' = [shown EXCEPT ![n][u] = @ + 1]
  BY <1>3 DEF HandleNotification
<1>5. shown[n][u] = 0 /\ n \notin waiting[u]
  BY <1>2 DEF InOnePlace
<1>6. shown' \in [Notes -> [Users -> Nat]]
  <2>1. shown[n] \in [Users -> Nat] /\ shown \in [Notes -> [Users -> Nat]]
    BY <1>3 DEF Messages
  <2>2. [shown[n] EXCEPT ![u] = @ + 1] \in [Users -> Nat]
    BY <2>1
  <2> HIDE DEF n
  <2>3. [shown EXCEPT ![n][u] = @ + 1] \in [Notes -> [Users -> Nat]]
    BY <1>3, <2>1, <2>2
  <2> QED BY <1>4, <2>1, <2>3
<1>7. Messages'
  BY <1>1, <1>2, <1>6 DEF Messages
<1>8. ASSUME NEW m \in Notes, NEW v \in Users, m # n \/ v # u
      PROVE  shown'[m][v] = shown[m][v]
  <2> HIDE DEF n
  <2>1. shown \in [Notes -> [Users -> Nat]] /\ shown[m] \in [Users -> Nat]
    BY DEF Messages
  <2>2. CASE m # n
    BY <1>4, <2>1, <2>2
  <2>3. CASE m = n /\ v # u
    <3>1. shown'[m] = shown[m] \/ shown'[m] = [shown[m] EXCEPT ![u] = @ + 1]
      BY <1>3, <1>4, <2>1, <2>3
    <3> QED BY <3>1, <2>1, <2>3
  <2> QED BY <1>8, <2>2, <2>3
<1>9. ASSUME NEW v \in Users
      PROVE  /\ \A i, j \in 1 .. Len(inbox'[v]) : inbox'[v][i] = inbox'[v][j] => i = j
             /\ \A i \in 1 .. Len(inbox'[v]) :
                  /\ inbox'[v][i] \notin waiting'[v]
                  /\ shown'[inbox'[v][i]][v] = 0 /\ inbox'[v][i] <= Len(to')
             /\ \A m \in waiting'[v] : shown'[m][v] = 0 /\ m <= Len(to')
  <2>0. waiting[v] \subseteq Notes /\ inbox[v] \in Seq(Notes)
    BY DEF Messages
  <2>1. CASE v = u
    <3>1. inbox'[v] = Tail(inbox[v]) /\ waiting'[v] = waiting[v]
      BY <1>1, <2>1 DEF Messages
    <3>2. /\ Len(inbox'[v]) = Len(inbox[v]) - 1
          /\ \A i \in 1 .. Len(inbox'[v]) :
               inbox'[v][i] = inbox[v][i + 1] /\ i + 1 \in 1 .. Len(inbox[v])
      BY <3>1, <1>2, <2>1
    <3>3. \A i \in 1 .. Len(inbox'[v]) : inbox'[v][i] # n
      BY <3>2, <1>2, <2>1 DEF InOnePlace
    <3>4. \A i \in 1 .. Len(inbox'[v]) : inbox'[v][i] \in Notes
      BY <3>2, <2>0
    <3>5. \A i \in 1 .. Len(inbox'[v]) :
            /\ inbox'[v][i] \notin waiting'[v]
            /\ shown'[inbox'[v][i]][v] = 0 /\ inbox'[v][i] <= Len(to')
      BY <3>1, <3>2, <3>3, <3>4, <1>1, <1>8, <2>1 DEF InOnePlace
    <3>6. \A m \in waiting'[v] : shown'[m][v] = 0 /\ m <= Len(to')
      BY <3>1, <1>1, <1>5, <1>8, <2>0, <2>1 DEF InOnePlace
    <3>7. \A i, j \in 1 .. Len(inbox'[v]) : inbox'[v][i] = inbox'[v][j] => i = j
      <4>1. \A i, j \in 1 .. Len(inbox[v]) : inbox[v][i] = inbox[v][j] => i = j
        BY DEF InOnePlace
      <4>2. SUFFICES ASSUME NEW i \in 1 .. Len(inbox'[v]), NEW j \in 1 .. Len(inbox'[v]),
                            inbox'[v][i] = inbox'[v][j]
                     PROVE  i = j
        OBVIOUS
      <4>3. i + 1 = j + 1
        BY <3>2, <4>1, <4>2
      <4> QED BY <4>3
    <3> QED BY <3>5, <3>6, <3>7
  <2>2. CASE v # u
    <3>1. inbox'[v] = inbox[v] /\ waiting'[v] = waiting[v]
      BY <1>1, <2>2 DEF Messages
    <3>2. \A i \in 1 .. Len(inbox[v]) : inbox[v][i] \in Notes
      BY <2>0
    <3> QED BY <3>1, <3>2, <2>0, <2>2, <1>1, <1>8 DEF InOnePlace
  <2> QED BY <2>1, <2>2
<1>10. InOnePlace'
  BY <1>9 DEF InOnePlace
<1>11. ShownOnceToAddressee'
  <2> SUFFICES ASSUME NEW m \in Notes, NEW v \in Users
               PROVE  shown'[m][v] <= (IF m \in DOMAIN to' /\ to'[m] = v THEN 1 ELSE 0)
    BY DEF ShownOnceToAddressee
  <2>1. CASE m = n /\ v = u
    <3>1. n \in DOMAIN to
      BY <1>2, <1>3, DaemonsAssumption DEF InOnePlace, Messages, Notes
    <3> QED BY <2>1, <3>1, <1>1, <1>3, <1>4, <1>5 DEF Messages, ShownOnceToAddressee
  <2>2. CASE m # n \/ v # u
    BY <2>2, <1>1, <1>8 DEF ShownOnceToAddressee
  <2> QED BY <2>1, <2>2
<1> QED BY <1>7, <1>10, <1>11

\* A user who leaves takes channel and goroutines along.
LEMMA LogoutKeeps ==
    ASSUME ShownInv, NEW u \in Users, Logout(u)
    PROVE  ShownInv'
<1> USE DEF ShownInv
<1>1. /\ inbox' = [inbox EXCEPT ![u] = <<>>] /\ waiting' = [waiting EXCEPT ![u] = {}]
      /\ UNCHANGED <<to, shown>>
  BY DEF Logout
<1>2. Messages'
  BY <1>1 DEF Messages
<1>3. ASSUME NEW v \in Users
      PROVE  \/ inbox'[v] = inbox[v] /\ waiting'[v] = waiting[v]
             \/ inbox'[v] = <<>> /\ waiting'[v] = {}
  BY <1>1 DEF Messages
<1>4. InOnePlace'
  BY <1>1, <1>3 DEF InOnePlace
<1> QED BY <1>1, <1>2, <1>4 DEF ShownOnceToAddressee

\* A lost bus ends the goroutines and leaves what the channels hold.
LEMMA BusLostKeeps ==
    ASSUME ShownInv, BusLost
    PROVE  ShownInv'
<1> USE DEF ShownInv
<1>1. waiting' = [v \in Users |-> {}] /\ UNCHANGED <<to, inbox, shown>>
  BY DEF BusLost
<1>2. Messages'
  BY <1>1 DEF Messages
<1>3. InOnePlace'
  BY <1>1 DEF InOnePlace
<1> QED BY <1>1, <1>2, <1>3 DEF ShownOnceToAddressee

\* What touches no notification keeps the invariant.
LEMMA StillKeeps ==
    ASSUME ShownInv, UNCHANGED <<to, inbox, waiting, shown>>
    PROVE  ShownInv'
BY DEF ShownInv, Messages, InOnePlace, ShownOnceToAddressee

\* The end of a round and the method SendNotification emit at most one notification.
LEMMA EmitNext ==
    ASSUME ShownInv, RoundEnds \/ \E u \in Users : SendNotification(u)
    PROVE  ShownInv'
<1>1. CASE \E u \in Users : Emit(u)
  BY <1>1, EmitKeeps
<1>2. CASE UNCHANGED userVars
  BY <1>2, StillKeeps DEF userVars
<1> QED BY <1>1, <1>2 DEF RoundEnds, SendNotification

\* One step of Next leads from states of the invariant to states of it.
LEMMA ShownStep ==
    ASSUME ShownInv, [Next]_vars
    PROVE  ShownInv'
<1>1. CASE StartUnit \/ Restart \/ GiveUp \/ StopUnit \/ BusBack
  BY <1>1, StillKeeps DEF StartUnit, Restart, GiveUp, StopUnit, BusBack, userVars
<1>2. CASE \/ Initialise \/ Exit \/ WatcherStarts \/ WatcherHandles \/ WatchClosed
           \/ ServiceStarts \/ RoundStarts \/ MapFatal \/ CallStarts \/ CallEnds
           \/ \E t \in Threads : ThreadEnds(t)
  BY <1>2, StillKeeps DEF Initialise, Exit, WatcherStarts, WatcherHandles, WatchClosed,
     ServiceStarts, RoundStarts, MapFatal, CallStarts, CallEnds, ThreadEnds, Step, Goes,
     Fails, userVars
<1>3. CASE RoundEnds
  BY <1>3, EmitNext
<1>4. CASE BusLost
  BY <1>4, BusLostKeeps
<1>5. ASSUME NEW u \in Users, Login(u)
      PROVE  ShownInv'
  BY <1>5, StillKeeps DEF Login
<1>6. ASSUME NEW u \in Users, Logout(u)
      PROVE  ShownInv'
  BY <1>6, LogoutKeeps
<1>7. ASSUME NEW u \in Users, UserStarts(u) \/ UserClosed(u) \/ UserFails(u)
      PROVE  ShownInv'
  BY <1>7, StillKeeps DEF UserStarts, UserClosed, UserFails
<1>8. ASSUME NEW u \in Users, DeferredDeliver(u)
      PROVE  ShownInv'
  BY <1>8, DeliverKeeps
<1>9. ASSUME NEW u \in Users, HandleNotification(u)
      PROVE  ShownInv'
  BY <1>9, HandleKeeps
<1>10. ASSUME NEW u \in Users, SendNotification(u)
       PROVE  ShownInv'
  BY <1>10, EmitNext
<1>11. CASE UNCHANGED vars
  BY <1>11, StillKeeps DEF vars, userVars
<1> QED
  BY <1>1, <1>2, <1>3, <1>4, <1>5, <1>6, <1>7, <1>8, <1>9, <1>10, <1>11
  DEF Next, Daemon, UserDaemon

\* A notification is shown to nobody but its addressee and at most once, with
\* any number of users, notifications in flight, lost buses and restarts.
THEOREM ShownOnceAlways == Spec => []ShownOnceToAddressee
<1>1. Init => ShownInv
  <2> SUFFICES ASSUME Init PROVE ShownInv
    OBVIOUS
  <2>1. Messages
    BY DaemonsAssumption DEF Init, Messages
  <2>2. InOnePlace
    BY DEF Init, InOnePlace
  <2>3. ShownOnceToAddressee
    BY DEF Init, ShownOnceToAddressee
  <2> QED BY <2>1, <2>2, <2>3 DEF ShownInv
<1>2. ShownInv /\ [Next]_vars => ShownInv'
  BY ShownStep
<1>3. ShownInv => ShownOnceToAddressee
  BY DEF ShownInv
<1> QED BY <1>1, <1>2, <1>3, PTL DEF Spec

-----------------------------------------------------------------------------

\* The running process dies only without a configuration, once the watcher's
\* connection is gone, or while the map of users is written and used at once: no
\* other thread's failure takes it down.
THEOREM CrashesExplainedAlways == Spec => CrashesExplained
<1> DEFINE Dies == process = "running" /\ process' = "failed"
<1> DEFINE Explained == ~ config \/ "watcher" \notin open \/ MapShared
<1>1. ASSUME [Next]_vars, Dies
      PROVE  Explained
  <2>1. CASE MapFatal \/ WatchClosed
    BY <2>1 DEF MapFatal, WatchClosed
  <2>2. CASE RoundEnds \/ CallEnds
    BY <2>2, <1>1 DEF RoundEnds, CallEnds, Returns
  <2>3. CASE ~ (MapFatal \/ WatchClosed \/ RoundEnds \/ CallEnds)
    <3>1. process' = process \/ process # "running" \/ process' = "down"
      BY <2>3, <1>1
      DEF Next, vars, processVars, StartUnit, Restart, GiveUp, StopUnit, Daemon, Initialise,
          Exit, WatcherStarts, WatcherHandles, ServiceStarts, RoundStarts, ThreadEnds, BusLost,
          BusBack, CallStarts, Returns, Login, Logout, UserDaemon, UserStarts, DeferredDeliver,
          HandleNotification, UserClosed, UserFails, SendNotification, Step, Goes, Fails, World
    <3> QED
      BY <3>1, <1>1
  <2> QED
    BY <2>1, <2>2, <2>3
<1>2. [Next]_vars => (Dies => Explained)
  BY <1>1
<1>3. QED
  BY <1>2, PTL DEF Spec, CrashesExplained

-----------------------------------------------------------------------------
(* Types, connections and channels.                                        *)

Places == [watcher |-> {"off", "matching", "registering", "watching", "handling", "deaf",
                        "failed", "done"},
           service |-> {"off", "naming", "named", "serving", "failed", "done"},
           engine |-> {"off", "checking", "ticking", "done"}]

\* A connection is open only in a running process, while the bus is up.
ProcessOK ==
    /\ process \in {"down", "starting", "running", "failed"}
    /\ {wanted, cancelled, conn, config, bus} \subseteq BOOLEAN
    /\ starts \in 0 .. Burst /\ calls \in Calls
    /\ DOMAIN at = Threads /\ \A t \in Threads : at[t] \in Places[t]
    /\ open \subseteq Threads /\ (open # {} => bus /\ process = "running")

\* A user daemon runs, and holds notifications, only while its user has a session.
DaemonsOK ==
    /\ mode \in [Users -> {"away", "off", "matching", "listening", "closing"}]
    /\ \A u \in Users : mode[u] # "away" => u \in Graphical
    /\ \A u \in Users : mode[u] = "away" => inbox[u] = <<>> /\ waiting[u] = {}

ChannelsOK == \A u \in Users : Len(inbox[u]) <= Capacity

TypeInv == ProcessOK /\ DaemonsOK /\ ChannelsOK

LEMMA PlacesHave ==
    /\ \A t \in Threads : "off" \in Places[t]
    /\ \A t \in Threads : "done" \in Places[t]
    /\ {"watcher", "service", "engine"} = Threads
    /\ {"matching", "registering", "watching", "handling", "deaf", "failed"}
         \subseteq Places["watcher"]
    /\ {"naming", "named", "serving", "failed"} \subseteq Places["service"]
    /\ {"checking", "ticking"} \subseteq Places["engine"]
BY DEF Places, Threads

LEMMA NoProcessOK ==
    ASSUME ProcessOK, NoProcess, process' \in {"down", "failed"}, UNCHANGED bus,
           wanted' \in BOOLEAN, starts' \in {0, starts}
    PROVE  ProcessOK'
<1>1. DOMAIN at' = Threads /\ \A t \in Threads : at'[t] \in Places[t]
  BY PlacesHave DEF NoProcess, AllOff
<1>2. starts' \in 0 .. Burst
  BY DaemonsAssumption DEF ProcessOK
<1> QED
  BY <1>1, <1>2 DEF ProcessOK, NoProcess, Calls

\* A thread of the running process goes on; a connection it opens is to the bus.
LEMMA GoesOK ==
    ASSUME ProcessOK, NEW t \in Threads, NEW goal \in Places[t], process = "running",
           at' = [at EXCEPT ![t] = goal], open' \in {open \union {t}, open \ {t}},
           t \in open' => bus, conn' \in BOOLEAN,
           UNCHANGED <<process, wanted, starts, cancelled, config, calls, bus>>
    PROVE  ProcessOK'
<1>1. DOMAIN at' = Threads /\ \A s \in Threads : at'[s] \in Places[s]
  BY DEF ProcessOK
<1>2. open' \subseteq Threads /\ (open' # {} => bus')
  BY DEF ProcessOK
<1> QED
  BY <1>1, <1>2 DEF ProcessOK

\* The threads' steps.
LEMMA ThreadsKeep ==
    ASSUME ProcessOK,
           \/ WatcherStarts \/ WatcherHandles \/ ServiceStarts \/ RoundStarts
           \/ \E t \in Threads : ThreadEnds(t)
    PROVE  ProcessOK' /\ UNCHANGED <<bus, userVars>>
<1>1. UNCHANGED <<bus, userVars>>
  BY DEF WatcherStarts, WatcherHandles, ServiceStarts, RoundStarts, ThreadEnds, Fails, Step, Goes
<1>2. bus' = bus /\ conn \in BOOLEAN /\ (open # {} => bus)
  BY <1>1 DEF ProcessOK
<1>3. CASE WatcherStarts \/ WatcherHandles
  <2>1. PICK goal \in {"registering", "watching", "handling", "deaf", "failed"} :
           /\ process = "running" /\ at' = [at EXCEPT !["watcher"] = goal]
           /\ open' \in {open \union {"watcher"}, open \ {"watcher"}}
           /\ ("watcher" \in open' => bus) /\ conn' = conn
           /\ UNCHANGED <<process, wanted, starts, cancelled, config, calls>>
    <3>1. CASE WatcherStarts
      BY <1>2, <3>1 DEF WatcherStarts, Fails, Step, Goes
    <3>2. CASE WatcherHandles
      BY <1>2, <3>2 DEF WatcherHandles, Step, Goes
    <3> QED BY <1>3, <3>1, <3>2
  <2> QED
    BY <1>1, <1>2, <2>1, GoesOK, PlacesHave
<1>4. CASE ServiceStarts
  <2>1. PICK goal \in {"named", "serving", "failed"} :
           /\ process = "running" /\ at' = [at EXCEPT !["service"] = goal]
           /\ open' \in {open \union {"service"}, open \ {"service"}}
           /\ ("service" \in open' => bus) /\ (conn' = conn \/ conn' = TRUE)
           /\ UNCHANGED <<process, wanted, starts, cancelled, config, calls>>
    BY <1>2, <1>4 DEF ServiceStarts, Fails, Step, Goes
  <2>2. conn' \in BOOLEAN /\ "service" \in Threads /\ goal \in Places["service"]
    BY <1>2, <2>1, PlacesHave
  <2> QED
    BY <1>1, <1>2, <2>1, <2>2, GoesOK
<1>5. ASSUME NEW t \in Threads, ThreadEnds(t) PROVE ProcessOK'
  <2>1. /\ process = "running" /\ at' = [at EXCEPT ![t] = "done"]
        /\ open' = open \ {t} /\ conn' = conn
        /\ UNCHANGED <<process, wanted, starts, cancelled, config, calls>>
    BY <1>5 DEF ThreadEnds, Step, Goes
  <2> QED
    BY <1>2, <2>1, GoesOK, PlacesHave
<1>6. CASE RoundStarts
  <2>1. PICK goal \in {"checking"} :
           /\ process = "running" /\ at' = [at EXCEPT !["engine"] = goal]
           /\ open' \in {open \union {"engine"}, open \ {"engine"}}
           /\ ("engine" \in open' => bus) /\ conn' = conn
           /\ UNCHANGED <<process, wanted, starts, cancelled, config, calls>>
    BY <1>2, <1>6 DEF RoundStarts, Step, Goes
  <2> QED
    BY <1>1, <1>2, <2>1, GoesOK, PlacesHave
<1> QED
  BY <1>1, <1>3, <1>4, <1>5, <1>6

LEMMA PanicOK == ASSUME ProcessOK, Panic, UNCHANGED bus PROVE ProcessOK'
BY NoProcessOK DEF Panic, ProcessOK

LEMMA UnitKeeps ==
    ASSUME ProcessOK,
           \/ StartUnit \/ Restart \/ GiveUp \/ StopUnit \/ Initialise \/ Exit
           \/ WatchClosed \/ MapFatal
    PROVE  ProcessOK' /\ UNCHANGED <<bus, userVars>>
<1>1. UNCHANGED <<bus, userVars>>
  BY DEF StartUnit, Restart, GiveUp, StopUnit, Initialise, Exit, WatchClosed, MapFatal
<1>2. bus' = bus /\ Burst \in Nat \ {0}
  BY <1>1, DaemonsAssumption
<1> SUFFICES ProcessOK'
  BY <1>1
<1>3. CASE StartUnit \/ Restart \/ GiveUp
  <2>1. starts' \in 0 .. Burst
    BY <1>2, <1>3 DEF StartUnit, Restart, GiveUp, ProcessOK
  <2> QED
    BY <1>2, <1>3, <2>1 DEF StartUnit, Restart, GiveUp, ProcessOK
<1>4. CASE StopUnit
  <2>1. CASE /\ process = "running" /\ cancelled' = TRUE /\ wanted' = FALSE /\ starts' = 0
             /\ UNCHANGED <<process, at, open, conn, config, calls>>
    <3>1. starts' \in 0 .. Burst
      BY <1>2, <2>1
    <3>2. {wanted', cancelled', conn', config', bus'} \subseteq BOOLEAN
      BY <1>2, <2>1 DEF ProcessOK
    <3> QED
      BY <1>2, <2>1, <3>1, <3>2 DEF ProcessOK
  <2>2. CASE process' = "down" /\ NoProcess /\ wanted' = FALSE /\ starts' = 0
    BY <1>2, <2>2, NoProcessOK
  <2> QED
    BY <1>4, <2>1, <2>2 DEF StopUnit
<1>5. CASE Initialise
  <2>1. CASE /\ bus /\ process' = "running" /\ config' \in BOOLEAN
             /\ at' = [watcher |-> "matching", service |-> "naming", engine |-> "checking"]
             /\ open' = {"engine"} /\ UNCHANGED <<cancelled, conn, calls, wanted, starts>>
    <3>1. DOMAIN at' = Threads /\ \A t \in Threads : at'[t] \in Places[t]
      BY <2>1, PlacesHave
    <3> QED
      BY <1>2, <2>1, <3>1, PlacesHave DEF ProcessOK
  <2>2. CASE process' = "failed" /\ NoProcess /\ UNCHANGED <<wanted, starts>>
    BY <1>2, <2>2, NoProcessOK DEF ProcessOK
  <2> QED
    BY <1>5, <2>1, <2>2 DEF Initialise
<1>6. CASE Exit
  BY <1>2, <1>6, NoProcessOK DEF Exit, ProcessOK
<1>7. CASE WatchClosed \/ MapFatal
  BY <1>2, <1>7, PanicOK DEF WatchClosed, MapFatal
<1> QED
  BY <1>3, <1>4, <1>5, <1>6, <1>7

\* Emitting respects the channels' capacity, and reaches only who listens.
LEMMA EmitFits ==
    ASSUME Messages, DaemonsOK, ChannelsOK, NEW u \in Users, Emit(u)
    PROVE  DaemonsOK' /\ ChannelsOK'
<1>1. ASSUME NEW v \in Users
      PROVE  /\ Len(inbox'[v]) <= Capacity
             /\ mode[v] # "listening" => inbox'[v] = inbox[v] /\ waiting'[v] = waiting[v]
  <2>1. inbox[v] \in Seq(Notes) /\ Len(inbox[v]) \in Nat /\ Capacity \in Nat
    BY DaemonsAssumption DEF Messages
  <2>2. CASE Subscribed(v) /\ Len(inbox[v]) < Capacity
    <3>1. inbox'[v] = Append(inbox[v], Len(to) + 1)
      BY <2>2 DEF Emit
    <3> QED
      BY <2>1, <2>2, <3>1 DEF Subscribed
  <2>3. CASE ~ (Subscribed(v) /\ Len(inbox[v]) < Capacity)
    <3>1. inbox'[v] = inbox[v]
      BY <2>3 DEF Emit
    <3>2. ~ Subscribed(v) => waiting'[v] = waiting[v]
      BY DEF Emit
    <3> QED
      BY <3>1, <3>2 DEF ChannelsOK, Subscribed
  <2> QED
    BY <2>2, <2>3
<1>2. mode' = mode
  BY DEF Emit
<1> QED
  BY <1>1, <1>2 DEF ChannelsOK, DaemonsOK

\* The end of a round.
LEMMA RoundKeeps ==
    ASSUME TypeInv, Messages, RoundEnds
    PROVE  TypeInv'
<1>1. CASE Panic /\ UNCHANGED <<bus, userVars>>
  BY <1>1, PanicOK DEF TypeInv, DaemonsOK, ChannelsOK, userVars
<1>2. CASE /\ at' = [at EXCEPT !["engine"] = "ticking"]
           /\ UNCHANGED userVars \/ \E u \in Users : Emit(u)
           /\ UNCHANGED <<process, wanted, starts, cancelled, open, conn, config, calls, bus>>
  <2>1. DOMAIN at' = Threads /\ \A t \in Threads : at'[t] \in Places[t]
    BY <1>2, PlacesHave DEF TypeInv, ProcessOK
  <2>2. ProcessOK'
    BY <1>2, <2>1 DEF TypeInv, ProcessOK
  <2>3. CASE UNCHANGED userVars
    BY <2>2, <2>3 DEF TypeInv, DaemonsOK, ChannelsOK, userVars
  <2>4. CASE \E u \in Users : Emit(u)
    BY <2>2, <2>4, EmitFits DEF TypeInv
  <2> QED
    BY <1>2, <2>3, <2>4
<1> QED
  BY <1>1, <1>2 DEF RoundEnds

\* A call's start and end change nothing but what is in flight, or end the process.
LEMMA CallsKeep ==
    ASSUME ProcessOK
    PROVE  /\ CallStarts => ProcessOK' /\ UNCHANGED <<bus, userVars>>
           /\ CallEnds => ProcessOK' /\ UNCHANGED <<bus, userVars>>
           /\ (Returns("reads") /\ UNCHANGED bus) => ProcessOK'
<1>1. ASSUME CallStarts PROVE ProcessOK' /\ UNCHANGED <<bus, userVars>>
  BY <1>1 DEF CallStarts, Calls, ProcessOK
<1>2. ASSUME NEW kind \in {"reads", "writes"}, Returns(kind), UNCHANGED bus
      PROVE  ProcessOK'
  BY <1>2 DEF Returns, Calls, ProcessOK
<1>3. ASSUME CallEnds PROVE ProcessOK' /\ UNCHANGED <<bus, userVars>>
  BY <1>2, <1>3, PanicOK DEF CallEnds
<1> QED
  BY <1>1, <1>2, <1>3

\* What people do.
LEMMA PeopleKeep ==
    ASSUME TypeInv, Messages, NEW u \in Users, Login(u) \/ Logout(u)
    PROVE  TypeInv'
<1> USE DEF TypeInv
<1>1. CASE Login(u)
  <2>1. ProcessOK'
    BY <1>1, CallsKeep DEF Login
  <2>2. DaemonsOK' /\ ChannelsOK'
    BY <1>1 DEF Login, DaemonsOK, ChannelsOK
  <2> QED
    BY <2>1, <2>2
<1>2. CASE Logout(u)
  <2>1. ProcessOK'
    BY <1>2 DEF Logout, ProcessOK, processVars
  <2>2. DaemonsOK'
    BY <1>2 DEF Logout, DaemonsOK, Messages
  <2>3. ChannelsOK'
    BY <1>2, DaemonsAssumption DEF Logout, ChannelsOK, Messages
  <2> QED
    BY <2>1, <2>2, <2>3
<1> QED
  BY <1>1, <1>2

LEMMA BusKeeps ==
    ASSUME TypeInv, Messages, BusLost \/ BusBack
    PROVE  TypeInv'
<1> USE DEF TypeInv
<1>1. CASE BusLost
  <2>1. ProcessOK' /\ ChannelsOK'
    BY <1>1 DEF BusLost, ProcessOK, ChannelsOK
  <2>2. \A u \in Users : /\ mode'[u] \in {"away", "off", "matching", "listening", "closing"}
                         /\ mode'[u] = "away" <=> mode[u] = "away"
    BY <1>1 DEF BusLost, DaemonsOK
  <2>3. DaemonsOK'
    BY <1>1, <2>2 DEF BusLost, DaemonsOK
  <2> QED
    BY <2>1, <2>3
<1>2. CASE BusBack
  BY <1>2 DEF BusBack, ProcessOK, DaemonsOK, ChannelsOK, processVars, userVars
<1> QED
  BY <1>1, <1>2

LEMMA UserDaemonKeeps ==
    ASSUME TypeInv, Messages, NEW u \in Users, UserDaemon(u) \/ UserFails(u)
    PROVE  TypeInv'
<1> USE DEF TypeInv
<1>1. UNCHANGED <<processVars, bus>>
  BY DEF UserDaemon, UserStarts, DeferredDeliver, HandleNotification, UserClosed, UserFails,
         World
<1>2. ProcessOK'
  BY <1>1 DEF ProcessOK, processVars
<1>3. CASE UserStarts(u) \/ UserClosed(u) \/ UserFails(u)
  <2>1. inbox' = inbox /\ waiting' = waiting
    BY <1>3 DEF UserStarts, UserClosed, UserFails
  <2>2. PICK m \in {"off", "matching", "listening"} :
           mode' = [mode EXCEPT ![u] = m] /\ mode[u] # "away"
    BY <1>3 DEF UserStarts, UserClosed, UserFails
  <2>3. DaemonsOK'
    BY <2>1, <2>2 DEF DaemonsOK
  <2> QED
    BY <1>2, <2>1, <2>3 DEF ChannelsOK
<1>4. CASE DeferredDeliver(u)
  <2>1. PICK n \in waiting[u] :
           /\ inbox' = [inbox EXCEPT ![u] = Append(@, n)]
           /\ waiting' = [waiting EXCEPT ![u] = @ \ {n}]
    BY <1>4 DEF DeferredDeliver
  <2>2. inbox[u] \in Seq(Notes) /\ n \in Notes /\ Len(inbox[u]) \in Nat /\ Capacity \in Nat
        /\ Len(inbox[u]) < Capacity /\ mode' = mode /\ mode[u] = "listening"
    BY <1>4, <2>1, DaemonsAssumption DEF Messages, DeferredDeliver
  <2>3. Len(Append(inbox[u], n)) <= Capacity
    BY <2>2
  <2>4. ChannelsOK'
    BY <2>1, <2>3 DEF ChannelsOK, Messages
  <2>5. DaemonsOK'
    BY <2>1, <2>2 DEF DaemonsOK, Messages
  <2> QED
    BY <1>2, <2>4, <2>5
<1>5. CASE HandleNotification(u)
  <2>1. /\ inbox' = [inbox EXCEPT ![u] = Tail(@)] /\ inbox[u] # <<>>
        /\ mode' = mode /\ waiting' = waiting
    BY <1>5 DEF HandleNotification
  <2>2. inbox[u] \in Seq(Notes) /\ Len(inbox[u]) \in Nat /\ Capacity \in Nat
        /\ Len(inbox[u]) <= Capacity
    BY DaemonsAssumption DEF Messages, ChannelsOK
  <2>3. Len(Tail(inbox[u])) <= Capacity
    BY <2>1, <2>2
  <2>4. ChannelsOK'
    BY <2>1, <2>3 DEF ChannelsOK, Messages
  <2>5. DaemonsOK'
    BY <2>1 DEF DaemonsOK, Messages
  <2> QED
    BY <1>2, <2>4, <2>5
<1> QED
  BY <1>3, <1>4, <1>5 DEF UserDaemon

LEMMA TypeStep == ASSUME TypeInv, Messages, [Next]_vars PROVE TypeInv'
<1>1. ASSUME ProcessOK', UNCHANGED <<bus, userVars>> PROVE TypeInv'
  BY <1>1 DEF TypeInv, DaemonsOK, ChannelsOK, userVars
<1>2. CASE UNCHANGED vars
  <2>1. ProcessOK'
    BY <1>2 DEF TypeInv, ProcessOK, vars, processVars
  <2> QED
    BY <1>1, <1>2, <2>1 DEF vars
<1>3. CASE \/ StartUnit \/ Restart \/ GiveUp \/ StopUnit \/ Initialise \/ Exit
           \/ WatchClosed \/ MapFatal
  BY <1>1, <1>3, UnitKeeps DEF TypeInv
<1>4. CASE \/ WatcherStarts \/ WatcherHandles \/ ServiceStarts \/ RoundStarts
           \/ \E t \in Threads : ThreadEnds(t)
  BY <1>1, <1>4, ThreadsKeep DEF TypeInv
<1>5. CASE RoundEnds
  BY <1>5, RoundKeeps
<1>6. CASE BusLost \/ BusBack
  BY <1>6, BusKeeps
<1>7. ASSUME NEW u \in Users, Login(u) \/ Logout(u) PROVE TypeInv'
  BY <1>7, PeopleKeep
<1>8. ASSUME NEW u \in Users, UserDaemon(u) \/ UserFails(u) PROVE TypeInv'
  BY <1>8, UserDaemonKeeps
<1>9. ASSUME NEW u \in Users, SendNotification(u) PROVE TypeInv'
  <2>1. DaemonsOK' /\ ChannelsOK'
    BY <1>9, EmitFits DEF SendNotification, TypeInv
  <2>2. ProcessOK'
    BY <1>9, CallsKeep DEF SendNotification, TypeInv
  <2> QED
    BY <2>1, <2>2 DEF TypeInv
<1>10. CASE CallStarts \/ CallEnds
  BY <1>1, <1>10, CallsKeep DEF TypeInv
<1> QED
  BY <1>2, <1>3, <1>4, <1>5, <1>6, <1>7, <1>8, <1>9, <1>10 DEF Next, Daemon

\* Types hold; a connection is open only in a running process with the bus up, a user
\* daemon runs and holds notifications only for a user with a session, no channel holds
\* more than its capacity and no more starts are made than systemd's limit, for any
\* users, capacity, limit and numbers of notifications, faults and stops.
THEOREM TypeCorrect == Spec => []TypeOK
<1>1. Init => ShownInv /\ TypeInv
  <2> SUFFICES ASSUME Init PROVE ShownInv /\ TypeInv
    OBVIOUS
  <2>1. ProcessOK
    <3>1. 0 \in 0 .. Burst
      BY DaemonsAssumption
    <3> QED
      BY <3>1, PlacesHave DEF Init, ProcessOK, AllOff, Calls
  <2>2. DaemonsOK
    BY DEF Init, DaemonsOK
  <2>3. ChannelsOK
    BY DaemonsAssumption DEF Init, ChannelsOK
  <2>4. Messages /\ InOnePlace /\ ShownOnceToAddressee
    BY DaemonsAssumption DEF Init, Messages, InOnePlace, ShownOnceToAddressee
  <2> QED
    BY <2>1, <2>2, <2>3, <2>4 DEF ShownInv, TypeInv
<1>2. ShownInv /\ TypeInv /\ [Next]_vars => ShownInv' /\ TypeInv'
  BY ShownStep, TypeStep DEF ShownInv
<1>3. ShownInv /\ TypeInv => TypeOK
  BY DEF ShownInv, Messages, TypeInv, ProcessOK, DaemonsOK, ChannelsOK, TypeOK, Threads,
         Places
<1> QED
  BY <1>1, <1>2, <1>3, PTL DEF Spec
=============================================================================
