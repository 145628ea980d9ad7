-------------------------- MODULE SessionTracking ---------------------------
(***************************************************************************)
(* StateManager with what drives it: logind, whose signals reach the       *)
(* watcher of internal/loginctl through a buffered channel, and time that  *)
(* passes for the sessions meanwhile.                                      *)
(*                                                                         *)
(* Only sessions of class "user" are modelled; the watcher drops the       *)
(* others.  logind counts session IDs from the start at each boot, and     *)
(* uses none twice in one boot.                                            *)
(***************************************************************************)
EXTENDS StateManager

CONSTANTS
    Capacity,      \* slots of the signal channel (10 in the code)
    MaxWaiting,    \* bound on the signals waiting for a slot
    PamGuards,     \* no one logs in while the daemon is down or does not watch yet
    Prompt,        \* no time passes while a signal waits to be handled
    SleepWaits,    \* nor does the machine fall asleep while one waits
    QuietSleep,    \* no one logs in or unlocks once sleep is announced
    ReEmits        \* logind announces its sessions again after a wake

ASSUME TrackingAssumption ==
    /\ Capacity \in Nat \ {0} /\ MaxWaiting \in Nat
    /\ {PamGuards, Prompt, SleepWaits, QuietSleep, ReEmits} \subseteq BOOLEAN

VARIABLES
    logind,    \* logind's sessions: their users and LockedHints
    used,      \* the IDs given out in this boot
    sleep,     \* where the machine is in a suspend cycle
    chan,      \* the channel Watch reads
    waiting,   \* signals whose delivery found the channel full
    missed,    \* a signal of this boot reached no watcher
    truth      \* time each user has had unlocked sessions for, while awake

signalVars == <<chan, waiting, missed>>
logindVars == <<logind, used, sleep>>
trackVars == <<logindVars, signalVars, truth>>
managerVars == vars
allVars == <<managerVars, trackVars>>

Signal == [name : {"SessionNew", "SessionRemoved", "Lock", "Unlock"}, id : Ids]
          \union [name : {"Sleep", "Wake"}]
LogindSession == [user : UserNames, locked : BOOLEAN]

ASSUME MissingSessionAssumption == Missing \notin LogindSession

TrackingTypeOK ==
    /\ TypeOK
    /\ logind \in [Ids -> LogindSession \union {Missing}]
    /\ used \subseteq Ids
    /\ \A id \in Ids : logind[id] # Missing => powered /\ id \in used
    /\ sleep \in {"awake", "preparing", "asleep", "resumed"}
    /\ chan \in Seq(Signal) /\ waiting \in Seq(Signal)
    /\ Len(chan) <= Capacity /\ Len(waiting) <= MaxWaiting
    /\ missed \in BOOLEAN
    /\ truth \in [UserNames -> Nat]

NoSessions == [id \in Ids |-> Missing]

TrackingInit ==
    /\ Init
    /\ logind = NoSessions /\ used = {} /\ sleep = "awake"
    /\ chan = <<>> /\ waiting = <<>> /\ missed = FALSE
    /\ truth = [u \in UserNames |-> 0]

-----------------------------------------------------------------------------
(* Delivery: godbus sends to the channel if it has room, and otherwise     *)
(* leaves the signal to a goroutine that waits for room.                   *)

\* Mutant: the channel has no capacity.
EmitUnbounded(sig) ==
    \/ ~ running /\ missed' = TRUE /\ UNCHANGED <<chan, waiting>>
    \/ running /\ chan' = Append(chan, sig) /\ UNCHANGED <<waiting, missed>>

Emit(sig) ==
    \/ ~ running /\ missed' = TRUE /\ UNCHANGED <<chan, waiting>>
    \/ /\ running /\ Len(chan) < Capacity
       /\ chan' = Append(chan, sig)
       /\ UNCHANGED <<waiting, missed>>
    \/ /\ running /\ Len(chan) = Capacity /\ Len(waiting) < MaxWaiting
       /\ waiting' = Append(waiting, sig)
       /\ UNCHANGED <<chan, missed>>

\* Whichever waiting goroutine runs first gets the free slot.
DeferredDeliver ==
    /\ Len(chan) < Capacity
    /\ \E i \in DOMAIN waiting :
         chan' = Append(chan, waiting[i]) /\ waiting' = RemoveAt(waiting, i)
    /\ UNCHANGED <<managerVars, logindVars, missed, truth>>

-----------------------------------------------------------------------------
(* logind and the people at the machine.                                   *)

Awake == powered /\ sleep # "asleep"
Welcome == Awake /\ (QuietSleep => sleep # "preparing")

SessionNew(id, u) ==
    /\ Welcome /\ logind[id] = Missing /\ id \notin used
    /\ PamGuards => running
    /\ logind' = [logind EXCEPT ![id] = [user |-> u, locked |-> FALSE]]
    /\ used' = used \union {id}
    /\ Emit([name |-> "SessionNew", id |-> id])
    /\ UNCHANGED <<managerVars, sleep, truth>>

SessionRemoved(id) ==
    /\ Awake /\ logind[id] # Missing
    /\ logind' = [logind EXCEPT ![id] = Missing]
    /\ Emit([name |-> "SessionRemoved", id |-> id])
    /\ UNCHANGED <<managerVars, used, sleep, truth>>

LockSession(id) ==
    /\ Awake /\ logind[id] # Missing /\ ~ logind[id].locked
    /\ logind' = [logind EXCEPT ![id].locked = TRUE]
    /\ Emit([name |-> "Lock", id |-> id])
    /\ UNCHANGED <<managerVars, used, sleep, truth>>

UnlockSession(id) ==
    /\ Welcome /\ logind[id] # Missing /\ logind[id].locked
    /\ logind' = [logind EXCEPT ![id].locked = FALSE]
    /\ Emit([name |-> "Unlock", id |-> id])
    /\ UNCHANGED <<managerVars, used, sleep, truth>>

PrepareForSleep ==
    /\ powered /\ sleep \in {"awake", "resumed"}
    /\ sleep' = "preparing"
    /\ Emit([name |-> "Sleep"])
    /\ UNCHANGED <<managerVars, logind, used, truth>>

Quiet == chan = <<>> /\ waiting = <<>>

FallAsleep ==
    /\ powered /\ sleep = "preparing"
    /\ SleepWaits /\ running => Quiet
    /\ sleep' = "asleep"
    /\ UNCHANGED <<managerVars, logind, used, signalVars, truth>>

WakeUp ==
    /\ powered /\ sleep = "asleep"
    /\ sleep' = "resumed"
    /\ Emit([name |-> "Wake"])
    /\ UNCHANGED <<managerVars, logind, used, truth>>

\* After a wake logind may announce a session it has announced before.
ReEmitSessionNew(id) ==
    /\ ReEmits /\ powered /\ sleep = "resumed" /\ logind[id] # Missing
    /\ Emit([name |-> "SessionNew", id |-> id])
    /\ UNCHANGED <<managerVars, logindVars, truth>>

-----------------------------------------------------------------------------
(* The watcher: Watch handles one signal at a time and looks the session   *)
(* up in logind when it does, not when the signal was sent.                *)

UserOf(id) == logind[id].user

WatchSession(name, id) ==
    CASE name = "SessionRemoved" -> HandleLogout(id)
      [] name # "SessionRemoved" /\ logind[id] = Missing -> UNCHANGED managerVars
      [] name = "SessionNew" /\ logind[id] # Missing -> HandleLogin(UserOf(id), id)
      [] name = "Lock" /\ logind[id] # Missing -> HandleLock(UserOf(id), id)
      [] name = "Unlock" /\ logind[id] # Missing -> HandleUnlock(UserOf(id), id)

Watch ==
    /\ running /\ Awake /\ chan # <<>>
    /\ LET sig == Head(chan)
       IN  \/ sig.name = "Sleep" /\ HandleSleep
           \/ sig.name = "Wake" /\ UNCHANGED managerVars
           \/ sig.name \notin {"Sleep", "Wake"} /\ WatchSession(sig.name, sig.id)
    /\ chan' = Tail(chan)
    /\ UNCHANGED <<waiting, missed, logindVars, truth>>

-----------------------------------------------------------------------------
(* Time, power and the daemon's own steps.                                 *)

Unlocked(u) ==
    {id \in Ids : logind[id] # Missing /\ logind[id].user = u /\ ~ logind[id].locked}

TimePasses ==
    /\ Tick
    /\ Prompt /\ running /\ Awake => Quiet
    /\ truth' = [u \in UserNames |->
                   truth[u] + (IF Awake THEN Cardinality(Unlocked(u)) ELSE 0)]
    /\ UNCHANGED <<logindVars, signalVars>>

\* The daemon runs from the moment Watch has subscribed: what logind announces
\* after NewManager and before that is lost as if the daemon were still down, and
\* NewManager reads nothing that changes in between but a clock that does not tick.
DaemonStarts ==
    /\ NewManager /\ Awake
    /\ UNCHANGED trackVars

DaemonDies ==
    /\ DaemonStop /\ Awake
    /\ missed' = (missed \/ ~ Quiet)
    /\ chan' = <<>> /\ waiting' = <<>>
    /\ UNCHANGED <<logindVars, truth>>

PowerFails ==
    /\ PowerOff
    /\ logind' = NoSessions /\ used' = {} /\ sleep' = "awake"
    /\ chan' = <<>> /\ waiting' = <<>> /\ missed' = FALSE
    /\ UNCHANGED truth

TrackingNext ==
    \/ \E id \in Ids :
         \/ \E u \in UserNames : SessionNew(id, u)
         \/ SessionRemoved(id) \/ LockSession(id) \/ UnlockSession(id)
         \/ ReEmitSessionNew(id)
    \/ PrepareForSleep \/ FallAsleep \/ WakeUp
    \/ DeferredDeliver \/ Watch
    \/ Heartbeat /\ Awake /\ UNCHANGED trackVars
    \/ TimePasses \/ DaemonStarts \/ DaemonDies \/ PowerFails
    \/ Boot /\ UNCHANGED trackVars

TrackingSpec == TrackingInit /\ [][TrackingNext]_allVars

-----------------------------------------------------------------------------
(* What tracking promises.                                                 *)

CaughtUp == running /\ Quiet /\ ~ missed

\* Once the watcher has caught up, a user has an active record of a session
\* exactly when logind has that session, and it is that user's: across IDs
\* that come back after a reboot, for the same user or another.
InSync ==
    CaughtUp => \A u \in UserNames, id \in Ids :
        (users[u] # Missing /\ IsSessionActive(SessionsOf(u), id))
          <=> (logind[id] # Missing /\ logind[id].user = u)

\* Once the watcher has caught up, no locked session is being charged.
LockedNotCharged ==
    CaughtUp => \A id \in Ids :
        logind[id] # Missing /\ logind[id].locked /\ users[UserOf(id)] # Missing =>
            \A s \in Active(WithId(SessionsOf(UserOf(id)), id)) : IsIdle(s)

Charged(u) == MapThenSumSet(LAMBDA s : Duration(s, now), SessionsOf(u))

\* Once the watcher has caught up, a user is charged for at most the time
\* there were unlocked sessions of that user on a machine on and awake.
NeverOvercharged ==
    CaughtUp => \A u \in UserNames : users[u] # Missing => Charged(u) <= truth[u]

\* Once no signal is in flight, every active record is of a session that
\* logind still has, whatever happened while the daemon was down.
NoGhosts ==
    running /\ Quiet => \A u \in UserNames : users[u] # Missing =>
        \A s \in Active(SessionsOf(u)) : logind[s.id] # Missing

\* A session that has ended has no open segment: its time no longer grows, even
\* if a late signal names it or its ID is in use again.
EndedStopsCharging ==
    \A s \in Records(users) : ~ IsActive(s) => ~ SegIsActive(Last(s.segs))
=============================================================================
