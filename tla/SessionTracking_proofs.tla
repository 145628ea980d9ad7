----------------------- MODULE SessionTracking_proofs ------------------------
(***************************************************************************)
(* SessionTracking for every number of users and sessions, every capacity  *)
(* of the channel and every order of delivery: what logind and the watcher *)
(* do keeps the records in step with logind's sessions, and charges no     *)
(* more than the time of the unlocked ones.                                *)
(***************************************************************************)
EXTENDS SessionTracking, StateManager_proofs, FiniteSetTheorems

-----------------------------------------------------------------------------
(* Types, and the manager's specification as part of this one.             *)

New(id) == [name |-> "SessionNew", id |-> id]
Gone(id) == [name |-> "SessionRemoved", id |-> id]
LockOf(id) == [name |-> "Lock", id |-> id]
UnlockOf(id) == [name |-> "Unlock", id |-> id]

\* All of TrackingTypeOK but the manager's own state and the time counted.
TrackTypes ==
    /\ logind \in [Ids -> LogindSession \union {Missing}]
    /\ used \subseteq Ids
    /\ \A id \in Ids : logind[id] # Missing => powered /\ id \in used
    /\ sleep \in {"awake", "preparing", "asleep", "resumed"}
    /\ chan \in Seq(Signal) /\ waiting \in Seq(Signal)
    /\ Len(chan) <= Capacity /\ Len(waiting) <= MaxWaiting
    /\ missed \in BOOLEAN

\* A signal that is sent goes to the channel, waits for room, or is missed.
LEMMA EmitTypes ==
    ASSUME TrackTypes, NEW sig \in Signal, Emit(sig)
    PROVE  /\ chan' \in Seq(Signal) /\ waiting' \in Seq(Signal)
           /\ Len(chan') <= Capacity /\ Len(waiting') <= MaxWaiting
           /\ missed' \in BOOLEAN
<1>1. /\ chan \in Seq(Signal) /\ waiting \in Seq(Signal) /\ missed \in BOOLEAN
      /\ Len(chan) <= Capacity /\ Len(waiting) <= MaxWaiting
      /\ Capacity \in Nat /\ MaxWaiting \in Nat
  BY TrackingAssumption DEF TrackTypes
<1>2. CASE UNCHANGED <<chan, waiting>> /\ missed' \in BOOLEAN
  BY <1>1, <1>2
<1>3. CASE chan' = Append(chan, sig) /\ Len(chan) < Capacity /\ UNCHANGED <<waiting, missed>>
  <2>1. chan' \in Seq(Signal) /\ Len(chan') = Len(chan) + 1
    BY <1>1, <1>3
  <2> QED BY <1>1, <1>3, <2>1
<1>4. CASE /\ waiting' = Append(waiting, sig) /\ Len(waiting) < MaxWaiting
           /\ UNCHANGED <<chan, missed>>
  <2>1. waiting' \in Seq(Signal) /\ Len(waiting') = Len(waiting) + 1
    BY <1>1, <1>4
  <2> QED BY <1>1, <1>4, <2>1
<1> QED BY <1>1, <1>2, <1>3, <1>4 DEF Emit

\* The signals about sessions and sleep are signals.
LEMMA SignalsAreSignals ==
    /\ \A id \in Ids, name \in {"SessionNew", "SessionRemoved", "Lock", "Unlock"} :
         [name |-> name, id |-> id] \in Signal
    /\ \A name \in {"Sleep", "Wake"} : [name |-> name] \in Signal
    /\ \A sig \in Signal : sig.name \notin {"Sleep", "Wake"} =>
         sig.id \in Ids /\ sig = [name |-> sig.name, id |-> sig.id]
BY DEF Signal

\* A sequence has the elements it is left with and the one taken out.
LEMMA RangeWithout ==
    ASSUME NEW n \in Nat, NEW s, DOMAIN s = 1 .. n, NEW i \in 1 .. n,
           NEW r, DOMAIN r = 1 .. n - 1,
           \A j \in 1 .. n - 1 : r[j] = IF j < i THEN s[j] ELSE s[j + 1]
    PROVE  Range(s) = Range(r) \union {s[i]}
<1>1. ASSUME NEW j \in 1 .. n - 1 PROVE r[j] \in Range(s)
  <2>1. j \in 1 .. n /\ j + 1 \in 1 .. n
    OBVIOUS
  <2> QED BY <2>1 DEF Range
<1>2. ASSUME NEW j \in 1 .. n PROVE s[j] \in Range(r) \union {s[i]}
  <2>1. CASE j < i
    <3>1. j \in 1 .. n - 1 /\ r[j] = s[j]
      BY <2>1
    <3> QED BY <3>1 DEF Range
  <2>2. CASE j > i
    <3>1. PICK k \in 1 .. n - 1 : j = k + 1 /\ ~ k < i
      BY <2>2
    <3>2. r[k] = s[j]
      BY <3>1
    <3> QED BY <3>1, <3>2 DEF Range
  <2> QED BY <2>1, <2>2
<1> QED BY <1>1, <1>2 DEF Range

\* Taking an element out of a sequence leaves a shorter one of the same kind.
LEMMA RemoveAtType ==
    ASSUME NEW S, NEW s \in Seq(S), NEW i \in DOMAIN s
    PROVE  /\ RemoveAt(s, i) \in Seq(S) /\ Len(RemoveAt(s, i)) = Len(s) - 1
           /\ Range(s) = Range(RemoveAt(s, i)) \union {s[i]}
<1> DEFINE a == SubSeq(s, 1, i - 1)
           b == SubSeq(s, i + 1, Len(s))
           r == a \o b
<1>1. /\ a \in Seq(S) /\ Len(a) = i - 1 /\ \A j \in 1 .. i - 1 : a[j] = s[j]
      /\ b \in Seq(S) /\ Len(b) = Len(s) - i /\ \A j \in 1 .. Len(s) - i : b[j] = s[i + j]
  OBVIOUS
<1>2. RemoveAt(s, i) = r
  BY DEF RemoveAt
<1> HIDE DEF a, b
<1>3. /\ r \in Seq(S) /\ Len(r) = Len(s) - 1
      /\ \A j \in 1 .. i - 1 : r[j] = s[j]
      /\ \A j \in i .. Len(s) - 1 : r[j] = s[j + 1]
  BY <1>1
<1>4. /\ DOMAIN r = 1 .. Len(s) - 1 /\ DOMAIN s = 1 .. Len(s)
      /\ Len(s) \in Nat /\ i \in 1 .. Len(s)
  BY <1>3
<1> HIDE DEF r
<1>5. ASSUME NEW j \in 1 .. Len(s) - 1 PROVE r[j] = IF j < i THEN s[j] ELSE s[j + 1]
  <2> DEFINE n == Len(s)
  <2>1. n \in Nat /\ i \in 1 .. n /\ j \in 1 .. n - 1
    BY <1>4
  <2>2. (\A k \in 1 .. i - 1 : r[k] = s[k]) /\ (\A k \in i .. n - 1 : r[k] = s[k + 1])
    BY <1>3
  <2> HIDE DEF n
  <2>3. j < i => j \in 1 .. i - 1
    BY <2>1
  <2>4. ~ j < i => j \in i .. n - 1
    BY <2>1
  <2> QED BY <2>2, <2>3, <2>4
<1>6. Range(s) = Range(r) \union {s[i]}
  BY <1>4, <1>5, RangeWithout
<1> QED BY <1>2, <1>3, <1>6

\* The watcher handles the first signal of the channel: by a handler, for the
\* user logind has for the session, or not at all.
LEMMA WatchHandles ==
    ASSUME TrackTypes, Watch
    PROVE  \/ Head(chan) = [name |-> "Sleep"] /\ HandleSleep
           \/ Head(chan) = [name |-> "Wake"] /\ UNCHANGED managerVars
           \/ \E id \in Ids :
                \/ Head(chan) = Gone(id) /\ HandleLogout(id)
                \/ /\ Head(chan) \in {New(id), LockOf(id), UnlockOf(id)}
                   /\ logind[id] = Missing /\ UNCHANGED managerVars
                \/ /\ logind[id] # Missing /\ UserOf(id) \in UserNames
                   /\ \/ Head(chan) = New(id) /\ HandleLogin(UserOf(id), id)
                      \/ Head(chan) = LockOf(id) /\ HandleLock(UserOf(id), id)
                      \/ Head(chan) = UnlockOf(id) /\ HandleUnlock(UserOf(id), id)
<1> DEFINE sig == Head(chan)
<1>1. sig \in Signal
  BY DEF Watch, TrackTypes
<1>2. CASE sig.name = "Sleep" /\ HandleSleep
  BY <1>1, <1>2 DEF Signal
<1>3. CASE sig.name = "Wake" /\ UNCHANGED managerVars
  BY <1>1, <1>3 DEF Signal
<1>4. CASE sig.name \notin {"Sleep", "Wake"} /\ WatchSession(sig.name, sig.id)
  <2> DEFINE id == sig.id
  <2>1. /\ id \in Ids /\ sig.name \in {"SessionNew", "SessionRemoved", "Lock", "Unlock"}
        /\ sig = [name |-> sig.name, id |-> id]
    BY <1>1, <1>4 DEF Signal
  <2>2. logind[id] # Missing => UserOf(id) \in UserNames
    BY <2>1 DEF TrackTypes, LogindSession, UserOf
  <2> HIDE DEF id, sig
  <2>3. CASE sig.name = "SessionRemoved"
    BY <1>4, <2>1, <2>3 DEF WatchSession, Gone, sig, id
  <2>4. CASE sig.name # "SessionRemoved" /\ logind[id] = Missing
    <3>1. UNCHANGED managerVars
      BY <1>4, <2>1, <2>4 DEF WatchSession, id
    <3> QED BY <2>1, <2>4, <3>1 DEF New, LockOf, UnlockOf, sig
  <2>5. CASE sig.name = "SessionNew" /\ logind[id] # Missing
    <3>1. HandleLogin(UserOf(id), id)
      BY <1>4, <2>5 DEF WatchSession, id
    <3> QED BY <2>1, <2>2, <2>5, <3>1 DEF New, sig
  <2>6. CASE sig.name = "Lock" /\ logind[id] # Missing
    <3>1. HandleLock(UserOf(id), id)
      BY <1>4, <2>6 DEF WatchSession, id
    <3> QED BY <2>1, <2>2, <2>6, <3>1 DEF LockOf, sig
  <2>7. CASE sig.name = "Unlock" /\ logind[id] # Missing
    <3>1. HandleUnlock(UserOf(id), id)
      BY <1>4, <2>7 DEF WatchSession, id
    <3> QED BY <2>1, <2>2, <2>7, <3>1 DEF UnlockOf, sig
  <2> QED BY <2>1, <2>3, <2>4, <2>5, <2>6, <2>7
<1> QED BY <1>2, <1>3, <1>4 DEF Watch

\* logind's own steps, the delivery and the watcher keep the types.
LEMMA TrackTypesStep ==
    ASSUME TrackTypes, [TrackingNext]_allVars
    PROVE  TrackTypes'
<1> USE DEF TrackTypes
<1>1. ASSUME NEW id \in Ids, NEW u \in UserNames, SessionNew(id, u) PROVE TrackTypes'
  BY <1>1, EmitTypes, SignalsAreSignals DEF SessionNew, LogindSession, Welcome, Awake,
     managerVars, vars, machineVars
<1>2. ASSUME NEW id \in Ids, SessionRemoved(id) PROVE TrackTypes'
  BY <1>2, EmitTypes, SignalsAreSignals DEF SessionRemoved, managerVars, vars, machineVars
<1>3. ASSUME NEW id \in Ids, LockSession(id) \/ UnlockSession(id) PROVE TrackTypes'
  <2>1. /\ \E b \in BOOLEAN : logind' = [logind EXCEPT ![id].locked = b]
        /\ logind[id] # Missing /\ UNCHANGED <<managerVars, used, sleep>>
        /\ \E name \in {"Lock", "Unlock"} : Emit([name |-> name, id |-> id])
    BY <1>3 DEF LockSession, UnlockSession
  <2>2. logind' \in [Ids -> LogindSession \union {Missing}]
    BY <2>1 DEF LogindSession
  <2>3. \A j \in Ids : j # id => logind'[j] = logind[j]
    BY <2>1
  <2> QED BY <2>1, <2>2, <2>3, EmitTypes, SignalsAreSignals DEF managerVars, vars, machineVars
<1>4. ASSUME NEW id \in Ids, ReEmitSessionNew(id) PROVE TrackTypes'
  BY <1>4, EmitTypes, SignalsAreSignals DEF ReEmitSessionNew, managerVars, vars, machineVars,
     logindVars
<1>5. CASE PrepareForSleep \/ WakeUp
  BY <1>5, EmitTypes, SignalsAreSignals DEF PrepareForSleep, WakeUp, managerVars, vars, machineVars
<1>6. CASE FallAsleep
  BY <1>6 DEF FallAsleep, managerVars, vars, machineVars, signalVars
<1>7. CASE DeferredDeliver
  <2>1. PICK i \in DOMAIN waiting :
            chan' = Append(chan, waiting[i]) /\ waiting' = RemoveAt(waiting, i)
    BY <1>7 DEF DeferredDeliver
  <2>2. RemoveAt(waiting, i) \in Seq(Signal) /\ Len(RemoveAt(waiting, i)) <= MaxWaiting
    BY RemoveAtType, TrackingAssumption
  <2>3. chan' \in Seq(Signal) /\ Len(chan') <= Capacity
    BY <1>7, <2>1, TrackingAssumption DEF DeferredDeliver
  <2> QED BY <1>7, <2>1, <2>2, <2>3 DEF DeferredDeliver, managerVars, vars, machineVars, logindVars
<1>8. CASE Watch
  <2>1. chan' \in Seq(Signal) /\ Len(chan') <= Capacity
    BY <1>8, TrackingAssumption DEF Watch
  <2>2. UNCHANGED powered
    BY <1>8, WatchHandles DEF HandleSleep, HandleLogout, HandleLogin, HandleLock, HandleUnlock,
       Handler, managerVars, vars, machineVars
  <2> QED BY <1>8, <2>1, <2>2 DEF Watch, logindVars
<1>9. CASE PowerFails
  <2>1. 0 <= Capacity /\ 0 <= MaxWaiting /\ <<>> \in Seq(Signal) /\ Len(<<>>) = 0
    BY TrackingAssumption
  <2> QED BY <1>9, <2>1 DEF PowerFails, NoSessions
<1>10. CASE DaemonDies
  <2>1. 0 <= Capacity /\ 0 <= MaxWaiting /\ <<>> \in Seq(Signal) /\ Len(<<>>) = 0
    BY TrackingAssumption
  <2> QED BY <1>10, <2>1 DEF DaemonDies, DaemonStop, Quiet, logindVars
<1>11. CASE (Heartbeat /\ UNCHANGED trackVars) \/ DaemonStarts \/ TimePasses
            \/ UNCHANGED allVars
  BY <1>11 DEF Heartbeat, NewManager, DaemonStarts, TimePasses, Tick, allVars,
     managerVars, vars, machineVars, trackVars, logindVars, signalVars
<1>12. CASE Boot /\ UNCHANGED trackVars
  BY <1>12 DEF Boot, trackVars, logindVars, signalVars
<1> QED BY <1>1, <1>2, <1>3, <1>4, <1>5, <1>6, <1>7, <1>8, <1>9, <1>10, <1>11, <1>12
        DEF TrackingNext

\* Whatever drives the manager, it takes its own steps only.
LEMMA TrackingSimulates ==
    ASSUME TrackTypes, [TrackingNext]_allVars
    PROVE  [Next]_vars
<1>1. CASE Watch
  BY <1>1, WatchHandles DEF Next, managerVars
<1>2. CASE ~ Watch
  BY <1>2 DEF TrackingNext, SessionNew, SessionRemoved, LockSession, UnlockSession,
     ReEmitSessionNew, PrepareForSleep, FallAsleep, WakeUp, DeferredDeliver, TimePasses,
     DaemonStarts, DaemonDies, PowerFails, managerVars, allVars, Next
<1> QED BY <1>1, <1>2

\* Signals are signals, sessions are users', and channel and queue keep their bounds.
LEMMA TrackingTypes == TrackingSpec => []TrackTypes
<1>1. TrackingInit => TrackTypes
  <2>1. 0 <= Capacity /\ 0 <= MaxWaiting /\ <<>> \in Seq(Signal) /\ Len(<<>>) = 0
    BY TrackingAssumption
  <2> QED BY <2>1 DEF TrackingInit, TrackTypes, NoSessions
<1>2. TrackTypes /\ [TrackingNext]_allVars => TrackTypes'
  BY TrackTypesStep
<1> QED BY <1>1, <1>2, PTL DEF TrackingSpec

\* The manager that logind drives is the manager: whatever is true of its
\* specification holds here.
THEOREM TrackingIsManager == TrackingSpec => Spec
<1>1. TrackingInit => Init
  BY DEF TrackingInit
<1>2. TrackTypes /\ [TrackingNext]_allVars => [Next]_vars
  BY TrackingSimulates
<1> QED BY <1>1, <1>2, TrackingTypes, PTL DEF TrackingSpec, Spec

-----------------------------------------------------------------------------
(* Signals on their way.                                                   *)

Pending == Range(chan) \union Range(waiting)

Open(u, id) == StatusIn(users, u, id) # "closed"

\* What relates logind, the signals on their way and the records:
\* a session without an active record of its user is still to be announced;
\* an active record is of the session of that ID, or that session's end is
\* still to be announced; only one user has an active record of an ID; and no
\* session whose end is still to be announced comes back.
Agrees ==
    \A id \in Ids :
        /\ logind[id] # Missing /\ ~ Open(UserOf(id), id) => New(id) \in Pending
        /\ \A u \in UserNames : Open(u, id) =>
             IF logind[id] = Missing THEN Gone(id) \in Pending ELSE UserOf(id) = u
        /\ \A u, v \in UserNames : Open(u, id) /\ Open(v, id) => u = v
        /\ Gone(id) \in Pending => logind[id] = Missing /\ id \in used

\* Appending an element adds it to the elements.
LEMMA RangeAppend ==
    ASSUME NEW S, NEW s \in Seq(S), NEW e
    PROVE  Range(Append(s, e)) = Range(s) \union {e}
<1> DEFINE n == Len(s)
           r == Append(s, e)
<1>1. /\ n \in Nat /\ DOMAIN r = 1 .. n + 1 /\ DOMAIN s = 1 .. n
      /\ \A j \in 1 .. n : r[j] = s[j]
      /\ r[n + 1] = e
  OBVIOUS
<1> HIDE DEF n, r
<1>2. n + 1 \in 1 .. n + 1 /\ 1 .. n + 1 = (1 .. n) \union {n + 1}
  BY <1>1
<1> QED BY <1>1, <1>2 DEF Range, r

\* A sequence has the elements of its tail and its head.
LEMMA RangeTail ==
    ASSUME NEW S, NEW s \in Seq(S), s # <<>>
    PROVE  Range(s) = Range(Tail(s)) \union {Head(s)}
<1> DEFINE n == Len(s)
           r == Tail(s)
<1>1. /\ n \in Nat /\ 1 \in 1 .. n /\ DOMAIN r = 1 .. n - 1 /\ DOMAIN s = 1 .. n
      /\ \A j \in 1 .. n - 1 : r[j] = s[j + 1]
      /\ Head(s) = s[1]
  OBVIOUS
<1> HIDE DEF n, r
<1>2. \A j \in 1 .. n - 1 : r[j] = IF j < 1 THEN s[j] ELSE s[j + 1]
  BY <1>1
<1>3. Range(s) = Range(r) \union {s[1]}
  BY <1>1, <1>2, RangeWithout
<1> QED BY <1>1, <1>3 DEF r

\* What is sent joins the signals on their way, or is missed.
LEMMA EmitPending ==
    ASSUME TrackTypes, NEW sig, Emit(sig)
    PROVE  /\ running => Pending' = Pending \union {sig} /\ UNCHANGED missed
           /\ ~ running => missed' = TRUE /\ UNCHANGED <<chan, waiting>>
<1>1. ASSUME running PROVE Pending' = Pending \union {sig} /\ UNCHANGED missed
  <2>1. CASE chan' = Append(chan, sig) /\ UNCHANGED <<waiting, missed>>
    <3>1. Range(chan') = Range(chan) \union {sig}
      BY <2>1, RangeAppend DEF TrackTypes
    <3> QED BY <2>1, <3>1 DEF Pending
  <2>2. CASE waiting' = Append(waiting, sig) /\ UNCHANGED <<chan, missed>>
    <3>1. Range(waiting') = Range(waiting) \union {sig}
      BY <2>2, RangeAppend DEF TrackTypes
    <3> QED BY <2>2, <3>1 DEF Pending
  <2> QED BY <1>1, <2>1, <2>2 DEF Emit
<1> QED BY <1>1 DEF Emit

\* What is open after a step, by the records after it.
LEMMA OpenPrimed ==
    /\ \A u \in UserNames, id \in Ids : Open(u, id)' <=> StatusIn(users', u, id) # "closed"
    /\ UNCHANGED users => \A u \in UserNames, id \in Ids : Open(u, id)' <=> Open(u, id)
BY DEF Open, StatusIn, Active, WithId, IsActive, IsIdle, SegIsActive

\* Steps that leave the records alone, add signals and end no session.
LEMMA AgreesKept ==
    ASSUME Agrees, UNCHANGED <<users, used>>, Pending \subseteq Pending',
           \A id \in Ids : /\ logind'[id] = Missing <=> logind[id] = Missing
                           /\ logind[id] # Missing => UserOf(id)' = UserOf(id)
                           /\ Gone(id) \in Pending' => Gone(id) \in Pending
    PROVE  Agrees'
<1>1. \A u, id : Open(u, id)' <=> Open(u, id)
  BY DEF Open, StatusIn, Active, WithId, IsActive, IsIdle, SegIsActive
<1> QED BY <1>1 DEF Agrees, New, Gone

\* A login, a logout, a lock or an unlock in logind.
LEMMA LogindAgrees ==
    ASSUME TrackTypes, Agrees, running, NEW id \in Ids,
           \/ \E u \in UserNames : SessionNew(id, u)
           \/ SessionRemoved(id) \/ LockSession(id) \/ UnlockSession(id)
    PROVE  Agrees'
<1>1. UNCHANGED users /\ \A u, j : Open(u, j)' <=> Open(u, j)
  BY DEF SessionNew, SessionRemoved, LockSession, UnlockSession, managerVars, vars,
     Open, StatusIn, Active, WithId, IsActive, IsIdle, SegIsActive
<1>2. ASSUME NEW u \in UserNames, SessionNew(id, u) PROVE Agrees'
  <2>1. Pending' = Pending \union {New(id)}
    BY <1>2, EmitPending DEF SessionNew, New
  <2>2. /\ logind' = [logind EXCEPT ![id] = [user |-> u, locked |-> FALSE]]
        /\ logind[id] = Missing /\ id \notin used /\ used' = used \union {id}
    BY <1>2 DEF SessionNew
  <2>3. /\ \A j \in Ids : j # id => logind'[j] = logind[j]
        /\ logind'[id].user = u
    BY <2>2 DEF TrackTypes
  <2>4. \A v \in UserNames : ~ Open(v, id)
    BY <2>2 DEF Agrees
  <2>5. \A j \in Ids : Gone(j) \in Pending' <=> Gone(j) \in Pending
    BY <2>1 DEF Gone, New
  <2>6. Gone(id) \notin Pending
    BY <2>2 DEF Agrees
  <2> QED BY <1>1, <2>1, <2>2, <2>3, <2>4, <2>5, <2>6 DEF Agrees, UserOf, New, Gone
<1>3. ASSUME SessionRemoved(id) PROVE Agrees'
  <2>1. Pending' = Pending \union {Gone(id)}
    BY <1>3, EmitPending DEF SessionRemoved, Gone
  <2>2. /\ logind' = [logind EXCEPT ![id] = Missing] /\ UNCHANGED used
        /\ id \in used
    BY <1>3 DEF SessionRemoved, TrackTypes
  <2>3. (\A j \in Ids : j # id => logind'[j] = logind[j]) /\ logind'[id] = Missing
    BY <2>2 DEF TrackTypes
  <2>4. \A j \in Ids : j # id => (Gone(j) \in Pending' <=> Gone(j) \in Pending)
    BY <2>1 DEF Gone
  <2> QED BY <1>1, <2>1, <2>2, <2>3, <2>4 DEF Agrees, UserOf, New, Gone
<1>4. ASSUME LockSession(id) \/ UnlockSession(id) PROVE Agrees'
  <2>1. /\ \E b \in BOOLEAN : logind' = [logind EXCEPT ![id].locked = b]
        /\ logind[id] # Missing /\ UNCHANGED used
        /\ \E sig \in {LockOf(id), UnlockOf(id)} : Pending' = Pending \union {sig}
    BY <1>4, EmitPending DEF LockSession, UnlockSession, LockOf, UnlockOf
  <2>2. /\ \A j \in Ids : j # id => logind'[j] = logind[j]
        /\ logind'[id] \in LogindSession /\ logind'[id].user = logind[id].user
    BY <2>1 DEF TrackTypes, LogindSession
  <2>3. \A j \in Ids : Gone(j) \in Pending' => Gone(j) \in Pending
    BY <2>1 DEF Gone, LockOf, UnlockOf
  <2> QED BY <1>1, <2>1, <2>2, <2>3, MissingSessionAssumption, AgreesKept DEF UserOf
<1> QED BY <1>2, <1>3, <1>4

\* What the watcher does to the records that are open.
LEMMA WatchAgrees ==
    ASSUME Inv, TrackTypes, Agrees, Watch
    PROVE  Agrees'
<1>1. /\ Pending' \subseteq Pending /\ Pending \subseteq Pending' \union {Head(chan)}
      /\ UNCHANGED <<logind, used>>
  <2>1. Range(chan) = Range(chan') \union {Head(chan)} /\ UNCHANGED waiting
    BY RangeTail DEF Watch, TrackTypes
  <2> QED BY <2>1 DEF Pending, Watch, logindVars
<1>2. ASSUME \A u \in UserNames, j \in Ids : Open(u, j)' <=> Open(u, j),
             \A j \in Ids : Head(chan) = New(j) \/ Head(chan) = Gone(j) => logind[j] = Missing,
             \A j \in Ids : Head(chan) = Gone(j) => \A u \in UserNames : ~ Open(u, j)
      PROVE  Agrees'
  BY <1>1, <1>2 DEF Agrees, UserOf, TrackTypes, LogindSession
<1>9. /\ \A j \in Ids : logind[j] # Missing => UserOf(j) \in UserNames
      /\ \A j : UserOf(j)' = UserOf(j)
  BY <1>1 DEF TrackTypes, LogindSession, UserOf
<1>3. ASSUME HandleSleep, Head(chan) = [name |-> "Sleep"]
      PROVE  Agrees'
  <2>1. \A u \in UserNames, j \in Ids : Open(u, j)' <=> Open(u, j)
    BY <1>3, SleepEffect, OpenPrimed DEF Open
  <2> QED BY <1>2, <1>3, <2>1 DEF New, Gone
<1>4. ASSUME UNCHANGED managerVars, Head(chan) = [name |-> "Wake"]
      PROVE  Agrees'
  <2>1. \A u \in UserNames, j \in Ids : Open(u, j)' <=> Open(u, j)
    BY <1>4, OpenPrimed DEF managerVars, vars
  <2> QED BY <1>2, <1>4, <2>1 DEF New, Gone
<1>5. ASSUME NEW id \in Ids, logind[id] = Missing, UNCHANGED managerVars,
             Head(chan) \in {New(id), LockOf(id), UnlockOf(id)}
      PROVE  Agrees'
  <2>1. \A u \in UserNames, j \in Ids : Open(u, j)' <=> Open(u, j)
    BY <1>5, OpenPrimed DEF managerVars, vars
  <2>2. \A j \in Ids : (Head(chan) = New(j) => j = id) /\ Head(chan) # Gone(j)
    BY <1>5 DEF New, Gone, LockOf, UnlockOf
  <2> QED BY <1>2, <1>5, <2>1, <2>2
<1>6. ASSUME NEW id \in Ids, logind[id] # Missing, UserOf(id) \in UserNames,
             \/ Head(chan) = LockOf(id) /\ HandleLock(UserOf(id), id)
             \/ Head(chan) = UnlockOf(id) /\ HandleUnlock(UserOf(id), id)
      PROVE  Agrees'
  <2>1. \A u \in UserNames, j \in Ids : Open(u, j)' <=> Open(u, j)
    BY <1>6, LockEffect, OpenPrimed DEF Open
  <2>2. \A j \in Ids : Head(chan) # New(j) /\ Head(chan) # Gone(j)
    BY <1>6 DEF New, Gone, LockOf, UnlockOf
  <2> QED BY <1>2, <2>1, <2>2
<1>7. ASSUME NEW id \in Ids, logind[id] # Missing, UserOf(id) \in UserNames,
             Head(chan) = New(id), HandleLogin(UserOf(id), id)
      PROVE  Agrees'
  <2>1. \A u \in UserNames, j \in Ids :
            Open(u, j)' <=> Open(u, j) \/ (u = UserOf(id) /\ j = id)
    BY <1>7, LoginEffect, OpenPrimed DEF Open
  <2>2. \A j \in Ids : (Head(chan) = New(j) => j = id) /\ Head(chan) # Gone(j)
    BY <1>7 DEF New, Gone
  <2>3. \A u \in UserNames : Open(u, id) => u = UserOf(id)
    BY <1>7 DEF Agrees
  <2> QED BY <1>1, <1>9, <1>7, <2>1, <2>2, <2>3 DEF Agrees
<1>8. ASSUME NEW id \in Ids, Head(chan) = Gone(id), HandleLogout(id)
      PROVE  Agrees'
  <2>1. Gone(id) \in Pending
    <3>1. Head(chan) \in Range(chan)
      BY RangeTail DEF Watch, TrackTypes
    <3> QED BY <1>8, <3>1 DEF Pending
  <2>2. logind[id] = Missing
    BY <2>1 DEF Agrees
  <2>3. \A j \in Ids : (Head(chan) = Gone(j) => j = id) /\ Head(chan) # New(j)
    BY <1>8 DEF New, Gone
  <2>4. \A u \in UserNames, j \in Ids : Open(u, j)' <=> Open(u, j) /\ j # id
    <3>1. CASE UNCHANGED users /\ \A v \in UserNames : StatusIn(users, v, id) = "closed"
      BY <3>1, OpenPrimed DEF Open
    <3>2. ASSUME NEW u \in UserNames,
                 \A v \in UserNames, j \in Ids : StatusIn(users', v, j) =
                     IF v = u /\ j = id THEN "closed" ELSE StatusIn(users, v, j),
                 (\E v \in UserNames : StatusIn(users, v, id) # "closed") =>
                     StatusIn(users, u, id) # "closed"
          PROVE  \A v \in UserNames, j \in Ids : Open(v, j)' <=> Open(v, j) /\ j # id
      <4>1. \A v \in UserNames : Open(v, id) => v = u
        BY <3>2 DEF Agrees, Open
      <4>2. \A v \in UserNames, j \in Ids :
                Open(v, j)' <=> Open(v, j) /\ ~ (v = u /\ j = id)
        BY <3>2, OpenPrimed DEF Open
      <4> QED BY <4>1, <4>2
    <3> QED BY <1>8, <3>1, <3>2, LogoutEffect
  <2> QED BY <1>1, <1>9, <2>2, <2>3, <2>4 DEF Agrees
<1> QED BY <1>3, <1>4, <1>5, <1>6, <1>7, <1>8, WatchHandles

\* No step of logind, of the delivery or of a daemon that goes on breaks it.
LEMMA AgreesStep ==
    ASSUME Inv, TrackTypes, Agrees, running, running', [TrackingNext]_allVars
    PROVE  Agrees'
<1>1. CASE \E id \in Ids : \/ \E u \in UserNames : SessionNew(id, u)
                           \/ SessionRemoved(id) \/ LockSession(id) \/ UnlockSession(id)
  BY <1>1, LogindAgrees
<1>2. CASE \E id \in Ids : ReEmitSessionNew(id)
  <2>1. PICK id \in Ids : ReEmitSessionNew(id)
    BY <1>2
  <2>2. /\ Pending' = Pending \union {New(id)}
        /\ UNCHANGED <<users, logind, used>>
    BY <2>1, EmitPending DEF ReEmitSessionNew, New, managerVars, vars, logindVars
  <2>3. \A j \in Ids : Gone(j) \in Pending' => Gone(j) \in Pending
    BY <2>2 DEF Gone, New
  <2> QED BY <2>2, <2>3, AgreesKept DEF UserOf
<1>3. CASE PrepareForSleep \/ WakeUp
  <2>1. /\ \E sig \in {[name |-> "Sleep"], [name |-> "Wake"]} : Pending' = Pending \union {sig}
        /\ UNCHANGED <<users, logind, used>>
    BY <1>3, EmitPending DEF PrepareForSleep, WakeUp, managerVars, vars
  <2>2. \A j \in Ids : Gone(j) \in Pending' => Gone(j) \in Pending
    BY <2>1 DEF Gone
  <2> QED BY <2>1, <2>2, AgreesKept DEF UserOf
<1>4. CASE DeferredDeliver
  <2>1. PICK i \in DOMAIN waiting :
            chan' = Append(chan, waiting[i]) /\ waiting' = RemoveAt(waiting, i)
    BY <1>4 DEF DeferredDeliver
  <2>2. Range(chan') = Range(chan) \union {waiting[i]}
    BY <2>1, RangeAppend DEF TrackTypes
  <2>3. Range(waiting) = Range(waiting') \union {waiting[i]}
    BY <2>1, RemoveAtType DEF TrackTypes
  <2>4. Pending' = Pending
    BY <2>2, <2>3 DEF Pending
  <2>5. UNCHANGED <<users, logind, used>>
    BY <1>4 DEF DeferredDeliver, managerVars, vars, logindVars
  <2> QED BY <2>4, <2>5, AgreesKept DEF UserOf
<1>5. CASE Watch
  BY <1>5, WatchAgrees DEF Watch
<1>6. CASE FallAsleep \/ (Heartbeat /\ UNCHANGED trackVars) \/ TimePasses \/ UNCHANGED allVars
  <2>1. UNCHANGED <<users, logind, used, chan, waiting>>
    BY <1>6 DEF FallAsleep, Heartbeat, TimePasses, Tick, allVars, managerVars, vars, machineVars,
       trackVars, logindVars, signalVars
  <2>2. UNCHANGED Pending
    BY <2>1 DEF Pending, Range
  <2> QED BY <2>1, <2>2, AgreesKept DEF UserOf
<1>7. CASE DaemonStarts \/ DaemonDies \/ PowerFails \/ Boot
  BY <1>7 DEF DaemonStarts, NewManager, DaemonDies, DaemonStop, PowerFails, PowerOff, Forget,
     Boot, Inv, TypeOK
<1> QED BY <1>1, <1>2, <1>3, <1>4, <1>5, <1>6, <1>7 DEF TrackingNext

\* While the daemon runs no signal is missed.
LEMMA NoneMissed ==
    ASSUME TrackTypes, running, running', [TrackingNext]_allVars
    PROVE  UNCHANGED missed
BY DEF TrackingNext, SessionNew, SessionRemoved, LockSession, UnlockSession, ReEmitSessionNew,
   PrepareForSleep, FallAsleep, WakeUp, DeferredDeliver, Watch, TimePasses, DaemonStarts,
   NewManager, DaemonDies, DaemonStop, PowerFails, PowerOff, Forget, Emit, allVars, trackVars,
   signalVars

-----------------------------------------------------------------------------
(* In step, if the daemon ends only with the machine.                      *)

OneRun == MaxStops = 0

\* Every session of this boot was announced to the watcher.
Announced == ~ missed \/ (PamGuards /\ OneRun)

\* A machine whose daemon is yet to start then has no sessions.
Empty == Quiet /\ logind = NoSessions
SyncOneRun == Announced => Agrees /\ (~ running => Empty)

\* With no session, no active record and no signal there is nothing to tell.
NoneOpen == \A u \in UserNames, id \in Ids : ~ Open(u, id)

LEMMA EmptyAgrees == Empty /\ NoneOpen => Agrees
BY DEF Empty, NoneOpen, Quiet, NoSessions, Agrees, Pending, Range

\* No one is known to a daemon that does not run.
LEMMA NoUsersClosed == users = NoUsers => NoneOpen
BY DEF NoneOpen, Open, StatusIn, NoUsers

\* The watcher writes neither the machine's state nor the daemon's.
LEMMA WatchKeeps ==
    ASSUME TrackTypes, Watch
    PROVE  UNCHANGED <<machineVars, running, heartBeat>>
BY WatchHandles DEF HandleSleep, HandleLogout, HandleLogin, HandleLock, HandleUnlock, Handler,
   managerVars, vars

\* What logind tells while no daemon listens is missed.
LEMMA UnheardStep ==
    ASSUME OneRun, Inv, TrackTypes, Announced => Empty, ~ running, ~ running',
           [TrackingNext]_allVars, Announced'
    PROVE  Empty'
<1>1. CASE \E id \in Ids, u \in UserNames : SessionNew(id, u)
  BY <1>1 DEF SessionNew, Emit, Announced
<1>2. CASE \E id \in Ids : \/ SessionRemoved(id) \/ LockSession(id) \/ UnlockSession(id)
                           \/ ReEmitSessionNew(id)
  BY <1>2 DEF SessionRemoved, LockSession, UnlockSession, ReEmitSessionNew, Emit, Announced,
     Empty, NoSessions
<1>3. CASE PrepareForSleep \/ WakeUp
  BY <1>3 DEF PrepareForSleep, WakeUp, Emit, Announced, Empty, Quiet
<1>4. CASE DeferredDeliver
  BY <1>4 DEF DeferredDeliver, Announced, Empty, Quiet, logindVars
<1>5. CASE PowerFails
  BY <1>5 DEF PowerFails, Empty, Quiet, NoSessions
<1>6. CASE FallAsleep \/ TimePasses \/ UNCHANGED allVars \/ (Boot /\ UNCHANGED trackVars)
  BY <1>6 DEF FallAsleep, TimePasses, Announced, Empty, Quiet, NoSessions, signalVars,
     logindVars, trackVars, allVars
<1>7. CASE Watch \/ Heartbeat \/ DaemonStarts \/ DaemonDies
  BY <1>7 DEF Watch, Heartbeat, DaemonStarts, NewManager, DaemonDies, DaemonStop
<1> QED BY <1>1, <1>2, <1>3, <1>4, <1>5, <1>6, <1>7 DEF TrackingNext

\* The daemon starts and ends by steps of their own.
LEMMA StartsOrEnds ==
    ASSUME TrackTypes, [TrackingNext]_allVars
    PROVE  /\ ~ running /\ running' => DaemonStarts
           /\ running /\ ~ running' => DaemonDies \/ PowerFails
<1>1. ASSUME ~ running, running' PROVE DaemonStarts
  BY <1>1, WatchKeeps DEF TrackingNext, SessionNew, SessionRemoved, LockSession, UnlockSession,
   ReEmitSessionNew, PrepareForSleep, FallAsleep, WakeUp, DeferredDeliver, Heartbeat,
   TimePasses, Tick, DaemonDies, DaemonStop, PowerFails, PowerOff, Forget, Boot, allVars,
   managerVars, vars
<1>2. ASSUME running, ~ running' PROVE DaemonDies \/ PowerFails
  BY <1>2, WatchKeeps DEF TrackingNext, SessionNew, SessionRemoved, LockSession, UnlockSession,
   ReEmitSessionNew, PrepareForSleep, FallAsleep, WakeUp, DeferredDeliver, Heartbeat,
   TimePasses, Tick, DaemonStarts, NewManager, Boot, allVars, managerVars, vars
<1> QED BY <1>1, <1>2

\* The steps that keep logind, the signals and the records in step.
LEMMA SyncOneRunStep ==
    ASSUME OneRun, BootInv, BootInv', TrackTypes, SyncOneRun, [TrackingNext]_allVars
    PROVE  SyncOneRun'
<1>1. Inv /\ Inv' /\ (~ running' => users' = NoUsers)
  BY DEF BootInv
<1>2. CASE running /\ running'
  <2>1. Announced' => Announced
    BY <1>2, NoneMissed DEF Announced
  <2> QED BY <1>1, <1>2, <2>1, AgreesStep DEF SyncOneRun
<1>3. CASE ~ running /\ ~ running'
  <2>1. Announced' => Empty'
    BY <1>1, <1>3, UnheardStep DEF SyncOneRun
  <2>2. (Empty /\ users = NoUsers => Agrees)'
    BY EmptyAgrees, NoUsersClosed, PTL
  <2> QED BY <1>1, <1>3, <2>1, <2>2 DEF SyncOneRun, NoUsers
<1>4. CASE ~ running /\ running'
  <2>1. DaemonStarts
    BY <1>4, StartsOrEnds
  <2>2. \A u \in UserNames, id \in Ids : StatusIn(users', u, id) = "closed"
    BY <2>1, StartBegun DEF DaemonStarts, StatusIn, Active, WithId
  <2>3. Announced' = Announced /\ (Empty => Empty')
    BY <2>1 DEF DaemonStarts, trackVars, signalVars, logindVars, Announced, Empty, Quiet,
       NoSessions
  <2>4. NoneOpen'
    BY <2>2, OpenPrimed DEF NoneOpen
  <2>5. Empty' /\ NoneOpen' => Agrees'
    BY EmptyAgrees, PTL
  <2> QED BY <1>4, <2>3, <2>4, <2>5 DEF SyncOneRun
<1>5. CASE running /\ ~ running'
  <2>1. ~ DaemonDies
    BY <1>1 DEF DaemonDies, DaemonStop, OneRun, Inv, TypeOK
  <2>2. PowerFails
    BY <1>5, <2>1, StartsOrEnds
  <2>3. Empty'
    BY <2>2 DEF PowerFails, Empty, Quiet, NoSessions
  <2>4. (Empty /\ users = NoUsers => Agrees)'
    BY EmptyAgrees, NoUsersClosed, PTL
  <2> QED BY <1>1, <1>5, <2>3, <2>4 DEF SyncOneRun, NoUsers
<1> QED BY <1>1, <1>2, <1>3, <1>4, <1>5 DEF BootInv, Inv, TypeOK

LEMMA SyncOneRunAlways == ASSUME MaxStops = 0 PROVE TrackingSpec => []SyncOneRun
<1>1. TrackingInit => SyncOneRun
  BY EmptyAgrees, NoUsersClosed DEF TrackingInit, Init, SyncOneRun, Empty, Quiet
<1>2. OneRun
  BY DEF OneRun
<1>3. /\ BootInv /\ BootInv' /\ TrackTypes /\ SyncOneRun /\ [TrackingNext]_allVars
      => SyncOneRun'
  BY <1>2, SyncOneRunStep
<1> QED BY <1>1, <1>3, BootInvariance, TrackingTypes, TrackingIsManager, PTL DEF TrackingSpec

\* With no signal on its way, agreement is being in step.
LEMMA AgreesInStep ==
    ASSUME Agrees, Quiet, TrackTypes
    PROVE  \A u \in UserNames, id \in Ids :
               Open(u, id) <=> (logind[id] # Missing /\ logind[id].user = u)
<1>1. Pending = {}
  BY DEF Quiet, Pending, Range
<1> QED BY <1>1 DEF Agrees, UserOf, TrackTypes, LogindSession

LEMMA OpenIsActive ==
    \A u \in UserNames, id \in Ids :
        Open(u, id) <=> users[u] # Missing /\ IsSessionActive(SessionsOf(u), id)
BY StatusActive DEF Open

\* However signals are delayed, reordered between the channel and its waiting
\* senders, or repeated, records and sessions agree when all are handled, on
\* every boot whose signals the watcher received.
THEOREM InSyncOneRun == ASSUME MaxStops = 0 PROVE TrackingSpec => []InSync
<1>1. SyncOneRun /\ TrackTypes => InSync
  BY AgreesInStep, OpenIsActive DEF SyncOneRun, InSync, CaughtUp, Announced
<1> QED BY <1>1, SyncOneRunAlways, TrackingTypes, PTL

-----------------------------------------------------------------------------
(* In step, if the daemon restarts but the machine stays on.               *)

\* One day without outage, on which every save succeeds.
OneDay == MaxOutages = 0 /\ ~ SaveMayFail /\ MaxTime \in 1 .. DayLength - 1

\* The file then has what memory has, or had when the daemon ended.
DayInv ==
    /\ Inv
    /\ powered /\ since = Zero /\ now <= MaxTime
    /\ running => users = SavedUsers

\* What was open when the daemon ended.
Remembered(u, id) == StatusIn(SavedUsers, u, id) # "closed"

SyncOneDay ==
    ~ missed => IF running THEN Agrees
                ELSE /\ Quiet
                     /\ \A u \in UserNames, id \in Ids :
                          Remembered(u, id) <=> (logind[id] # Missing /\ logind[id].user = u)

\* A start on the day the file was written finds all as it was.
LEMMA StartFindsAll ==
    ASSUME OneDay, DayInv, disk # Missing
    PROVE  StartUpChecks(disk.users, disk.mtime) = disk.users
<1> DEFINE us == disk.users
           t == disk.mtime
<1>1. /\ us \in UserMap /\ t \in Times /\ GoodUsers(us, t) /\ t <= now /\ now \in Times
      /\ since = 0 /\ now <= MaxTime
  BY FileElement DEF DayInv, Inv, TypeOK, Zero
<1>2. DayLength \in Nat /\ MaxTime \in Nat /\ MaxTime < DayLength /\ DayLength > 0
  BY DayLengthAssumption DEF OneDay
<1> HIDE DEF us, t
<1>3. ~ SystemWasDown(t)
  BY <1>1 DEF SystemWasDown, Times
<1>4. ASSUME NEW d \in Nat, d <= MaxTime PROVE Day(d) = 0
  BY <1>2, <1>4 DEF Day
<1>5. ASSUME NEW u \in UserNames, us[u] # Missing
      PROVE  RemoveOldSessions(us[u].sessions, now) = us[u].sessions
  <2>1. \A s \in us[u].sessions : s.start \in Nat /\ s.start <= t
    BY <1>1, <1>5 DEF GoodUsers, GoodSet, Good, StampedBy, Session, Times
  <2>2. \A s \in us[u].sessions : s.start <= MaxTime
    BY <1>1, <1>2, <2>1 DEF Times
  <2>3. \A s \in us[u].sessions : Day(s.start) = Day(now)
    BY <1>1, <1>4, <2>1, <2>2 DEF Times
  <2> QED BY <2>3 DEF RemoveOldSessions
<1>6. ASSUME NEW u \in UserNames, us[u] # Missing
      PROVE  [us[u] EXCEPT !.sessions = us[u].sessions] = us[u]
  BY <1>1, <1>6, UserMapElement DEF User
<1>7. StartUpChecks(us, t) = [u \in UserNames |-> us[u]]
  BY <1>3, <1>5, <1>6 DEF StartUpChecks
<1> QED BY <1>1, <1>7 DEF UserMap, us, t

\* Saves that succeed keep the file and memory equal.
LEMMA SavedIsMemory ==
    ASSUME OneDay, DayInv, Inv', [Next]_vars
    PROVE  /\ running' => users' = SavedUsers'
           /\ ~ running' => UNCHANGED SavedUsers
<1>1. CASE \/ \E u \in UserNames, id \in Ids :
                HandleLogin(u, id) \/ HandleLock(u, id) \/ HandleUnlock(u, id)
           \/ \E id \in Ids : HandleLogout(id)
           \/ HandleSleep
  <2>1. running /\ running' /\ (Save(users') \/ NoEffect)
    BY <1>1, HandlersSave
  <2>2. CASE disk' = [users |-> users', mtime |-> now]
    <3>1. disk' \in File
      BY <2>2 DEF File, DayInv, Inv, TypeOK
    <3> QED BY <2>1, <2>2, <3>1, MissingFileAssumption DEF SavedUsers
  <2>3. CASE NoEffect
    BY <2>1, <2>3 DEF NoEffect, SavedUsers, DayInv
  <2> QED BY <2>1, <2>2, <2>3 DEF Save, OneDay
<1>2. CASE Heartbeat
  <2>1. UNCHANGED <<running, users>> /\ running
    BY <1>2 DEF Heartbeat
  <2>2. CASE disk # Missing /\ disk' = [disk EXCEPT !.mtime = now]
    <3>1. disk' \in File /\ disk'.users = disk.users
      BY <2>2 DEF File, DayInv, Inv, TypeOK
    <3> QED BY <2>1, <2>2, <3>1, MissingFileAssumption DEF SavedUsers, DayInv
  <2> QED BY <1>2, <2>1, <2>2 DEF Heartbeat, SavedUsers, DayInv
<1>3. CASE NewManager
  <2>1. running'
    BY <1>3 DEF NewManager
  <2>2. CASE disk = Missing /\ users' = NoUsers /\ disk' = [users |-> NoUsers, mtime |-> now]
    <3>1. disk' \in File
      BY <2>2, NoUsersGood DEF File, DayInv, Inv, TypeOK
    <3> QED BY <2>1, <2>2, <3>1, MissingFileAssumption DEF SavedUsers
  <2>3. CASE disk # Missing /\ users' = StartUpChecks(disk.users, disk.mtime) /\ UNCHANGED disk
    BY <2>1, <2>3, StartFindsAll DEF SavedUsers
  <2> QED BY <1>3, <2>2, <2>3 DEF NewManager
<1>4. CASE DaemonStop \/ PowerOff \/ Boot \/ Tick \/ UNCHANGED vars
  <2>1. UNCHANGED disk /\ (~ running' \/ UNCHANGED <<running, users>>)
    BY <1>4 DEF DaemonStop, PowerOff, Forget, Boot, Tick, vars, machineVars
  <2> QED BY <2>1 DEF SavedUsers, DayInv, NoUsers
<1> QED BY <1>1, <1>2, <1>3, <1>4 DEF Next

LEMMA DayInvStep ==
    ASSUME OneDay, DayInv, Inv', [Next]_vars
    PROVE  DayInv'
<1>1. running' => users' = SavedUsers'
  BY SavedIsMemory
<1>2. powered' /\ since' = Zero /\ now' <= MaxTime
  <2>1. ~ PowerOff /\ ~ Boot
    BY DEF PowerOff, Boot, OneDay, DayInv, Inv, TypeOK
  <2>2. CASE Tick
    BY <2>2 DEF Tick, DayInv, OneDay, Inv, TypeOK, Times
  <2>3. CASE UNCHANGED <<now, powered, since>>
    BY <2>3 DEF DayInv
  <2>4. CASE ~ Tick
    BY <2>1, <2>3, <2>4 DEF Next, vars, machineVars, HandleLogin, HandleLock, HandleUnlock,
       HandleLogout, HandleSleep, Handler, Heartbeat, NewManager, DaemonStop, Forget
  <2> QED BY <2>2, <2>4
<1> QED BY <1>1, <1>2 DEF DayInv

\* Records found open by the next start are those open when the daemon ended.
LEMMA RememberedPrimed ==
    /\ \A u \in UserNames, id \in Ids :
         Remembered(u, id)' <=> StatusIn(SavedUsers', u, id) # "closed"
    /\ UNCHANGED SavedUsers =>
         \A u \in UserNames, id \in Ids : Remembered(u, id)' <=> Remembered(u, id)
    /\ users = SavedUsers =>
         \A u \in UserNames, id \in Ids : Remembered(u, id) <=> Open(u, id)
    /\ users' = SavedUsers' =>
         \A u \in UserNames, id \in Ids : Open(u, id)' <=> StatusIn(SavedUsers', u, id) # "closed"
BY DEF Remembered, Open, StatusIn, Active, WithId, IsActive, IsIdle, SegIsActive

\* What is remembered agrees with logind if nothing is on its way.
LEMMA RememberedAgrees ==
    (/\ Quiet /\ TrackTypes
     /\ \A u \in UserNames, id \in Ids :
          Open(u, id) <=> (logind[id] # Missing /\ logind[id].user = u)) => Agrees
BY DEF Quiet, Agrees, UserOf, Pending, Range, TrackTypes, LogindSession

\* What logind tells while no daemon listens is missed, on a day without outage.
LEMMA UnheardDay ==
    ASSUME OneDay, DayInv, ~ running, ~ running', ~ missed', [TrackingNext]_allVars
    PROVE  UNCHANGED <<logind, missed>> /\ (Quiet => Quiet')
<1>1. ~ PowerFails
  BY DEF PowerFails, PowerOff, OneDay, DayInv, Inv, TypeOK
<1>2. \A sig : ~ Emit(sig)
  BY DEF Emit
<1>3. CASE DeferredDeliver
  BY <1>3 DEF DeferredDeliver, Quiet, logindVars
<1>4. CASE ~ DeferredDeliver
  <2>1. UNCHANGED <<logind, chan, waiting, missed>>
    BY <1>1, <1>2, <1>4 DEF TrackingNext, SessionNew, SessionRemoved, LockSession,
       UnlockSession, ReEmitSessionNew, PrepareForSleep, FallAsleep, WakeUp, Watch, Heartbeat,
       TimePasses, DaemonStarts, NewManager, DaemonDies, DaemonStop, allVars, trackVars,
       signalVars, logindVars
  <2> QED BY <2>1 DEF Quiet
<1> QED BY <1>3, <1>4

\* A daemon that starts finds what was saved, one that ends has saved all, and
\* one that does not run changes nothing.
LEMMA SavedKept ==
    ASSUME OneDay, DayInv, Inv', TrackTypes, ~ (running /\ running'), [TrackingNext]_allVars
    PROVE  \A u \in UserNames, id \in Ids :
               StatusIn(SavedUsers', u, id) = StatusIn(SavedUsers, u, id)
<1>1. CASE ~ running'
  BY <1>1, SavedIsMemory, TrackingSimulates
<1>2. CASE ~ running /\ running'
  <2>1. CASE disk = Missing /\ users' = NoUsers
    BY <1>2, <2>1, SavedIsMemory, TrackingSimulates DEF SavedUsers, StatusIn, NoUsers
  <2>2. CASE disk # Missing /\ UNCHANGED disk
    BY <2>2 DEF SavedUsers
  <2> QED BY <1>2, <2>1, <2>2, StartsOrEnds DEF DaemonStarts, NewManager
<1> QED BY <1>1, <1>2

\* A daemon's start and its end with no signal on its way leave logind and the
\* signals alone, if the machine stays on.
LEMMA StartOrEndKeeps ==
    ASSUME OneDay, DayInv, TrackTypes, running # running', running \in BOOLEAN,
           running' \in BOOLEAN, ~ missed', [TrackingNext]_allVars
    PROVE  UNCHANGED <<logind, missed>> /\ (Quiet => Quiet') /\ (running => Quiet)
<1>1. ~ PowerFails
  BY DEF PowerFails, PowerOff, OneDay, DayInv, Inv, TypeOK
<1>2. (DaemonStarts /\ ~ running) \/ DaemonDies
  BY <1>1, StartsOrEnds DEF DaemonDies
<1> QED BY <1>2 DEF DaemonStarts, DaemonDies, trackVars, signalVars, logindVars, Quiet, TrackTypes

\* The steps that keep logind, the signals, the records and the file in step.
LEMMA SyncOneDayStep ==
    ASSUME OneDay, DayInv, DayInv', TrackTypes, TrackTypes', SyncOneDay,
           [TrackingNext]_allVars
    PROVE  SyncOneDay'
<1>1. /\ Inv /\ Inv' /\ (running => users = SavedUsers) /\ (running' => users' = SavedUsers')
      /\ running \in BOOLEAN /\ running' \in BOOLEAN
  BY DEF DayInv, Inv, TypeOK
<1>2. CASE running /\ running'
  BY <1>1, <1>2, NoneMissed, AgreesStep DEF SyncOneDay
<1>3. CASE ~ (running /\ running')
  <2> SUFFICES ASSUME ~ missed' PROVE IF running' THEN Agrees' ELSE SyncOneDay'
    BY DEF SyncOneDay
  <2>1. \A u \in UserNames, id \in Ids : Remembered(u, id)' <=> Remembered(u, id)
    BY <1>1, <1>3, SavedKept, RememberedPrimed DEF Remembered
  <2>2. UNCHANGED <<logind, missed>> /\ Quiet /\ Quiet'
    <3>1. CASE ~ running /\ ~ running'
      BY <3>1, UnheardDay DEF SyncOneDay
    <3>2. CASE running # running'
      BY <1>1, <3>2, StartOrEndKeeps DEF SyncOneDay
    <3> QED BY <1>1, <1>3, <3>1, <3>2
  <2>3. \A u \in UserNames, id \in Ids :
            Remembered(u, id) <=> (logind[id] # Missing /\ logind[id].user = u)
    BY <1>1, <2>2, AgreesInStep, RememberedPrimed DEF SyncOneDay
  <2>4. CASE running'
    <3>1. (/\ Quiet /\ TrackTypes
           /\ \A u \in UserNames, id \in Ids :
                Open(u, id) <=> (logind[id] # Missing /\ logind[id].user = u))'
      BY <1>1, <2>1, <2>2, <2>3, <2>4, RememberedPrimed
    <3>2. Agrees'
      BY <3>1, RememberedAgrees, PTL
    <3> QED BY <2>4, <3>2
  <2>5. CASE ~ running'
    BY <2>1, <2>2, <2>3, <2>5 DEF SyncOneDay
  <2> QED BY <2>4, <2>5
<1> QED BY <1>2, <1>3

LEMMA DayInvAlways ==
    ASSUME MaxOutages = 0, ~ SaveMayFail, MaxTime \in 1 .. DayLength - 1
    PROVE  Spec => []DayInv
<1>1. OneDay
  BY DEF OneDay
<1>2. Init => DayInv
  <2>1. 1 <= MaxTime
    BY <1>1, DayLengthAssumption DEF OneDay
  <2> QED BY <2>1, InitInv DEF Init, DayInv, SavedUsers
<1>3. DayInv /\ Inv' /\ [Next]_vars => DayInv'
  BY <1>1, DayInvStep
<1> QED BY <1>2, <1>3, Invariance, PTL DEF Spec

LEMMA SyncOneDayAlways ==
    ASSUME MaxOutages = 0, ~ SaveMayFail, MaxTime \in 1 .. DayLength - 1
    PROVE  TrackingSpec => []SyncOneDay
<1>1. OneDay
  BY DEF OneDay
<1>2. TrackingInit => SyncOneDay
  BY DEF TrackingInit, Init, SyncOneDay, Quiet, NoSessions, Remembered, SavedUsers, StatusIn,
     NoUsers
<1>3. /\ DayInv /\ DayInv' /\ TrackTypes /\ TrackTypes' /\ SyncOneDay /\ [TrackingNext]_allVars
      => SyncOneDay'
  BY <1>1, SyncOneDayStep
<1> QED BY <1>2, <1>3, DayInvAlways, TrackingTypes, TrackingIsManager, PTL DEF TrackingSpec

\* A daemon that stops and starts again with no signal on its way or missed
\* finds the records as it left them, so the same holds across its restarts
\* as long as its saves succeed and the day lasts.
THEOREM InSyncOneDay ==
    ASSUME MaxOutages = 0, ~ SaveMayFail, MaxTime \in 1 .. DayLength - 1
    PROVE  TrackingSpec => []InSync
<1>1. SyncOneDay /\ TrackTypes => InSync
  BY AgreesInStep, OpenIsActive DEF SyncOneDay, InSync, CaughtUp
<1> QED BY <1>1, SyncOneDayAlways, TrackingTypes, PTL

-----------------------------------------------------------------------------
(* Locked sessions, if signals are neither reordered nor repeated.         *)

InOrder == MaxWaiting = 0 /\ ~ ReEmits

\* The signal is in the channel, and none that undoes it comes after.
Sent(sig, undo) ==
    \E i \in DOMAIN chan :
        chan[i] = sig /\ \A j \in DOMAIN chan : j > i => chan[j] \notin undo
Unsent(undo) == Range(chan) \intersect undo = {}

\* The session's lock is on its way, or nothing that undoes one.
Undoing(id) == {New(id), UnlockOf(id)}
LockPending(id) == Sent(LockOf(id), Undoing(id))
NoUndo(id) == Unsent(Undoing(id))

\* The records a daemon has, or will find when it starts.
KnownUsers == IF running THEN users ELSE SavedUsers

IsLocked(id) == logind[id] # Missing /\ logind[id].locked

\* A locked session is not charged, or its lock is still to be handled.
Suspended ==
    \A id \in Ids : IsLocked(id) =>
        \/ LockPending(id)
        \/ NoUndo(id) /\ StatusIn(KnownUsers, UserOf(id), id) # "running"

\* Without room to wait a signal is sent to the channel.
LEMMA EmitInOrder ==
    ASSUME InOrder, TrackTypes, running, NEW sig, Emit(sig)
    PROVE  chan' = Append(chan, sig) /\ UNCHANGED waiting
BY TrackingAssumption DEF InOrder, TrackTypes, Emit

\* A signal that undoes nothing leaves what is in the channel in force.
LEMMA AppendSent ==
    ASSUME TrackTypes, NEW undo, NEW sig, sig \notin undo, chan' = Append(chan, sig)
    PROVE  /\ \A x : Sent(x, undo) => Sent(x, undo)'
           /\ Sent(sig, undo)'
           /\ Unsent(undo) => Unsent(undo)'
<1> DEFINE n == Len(chan)
<1>1. /\ n \in Nat /\ DOMAIN chan = 1 .. n /\ DOMAIN chan' = 1 .. n + 1
      /\ \A i \in 1 .. n : chan'[i] = chan[i]
      /\ chan'[n + 1] = sig
  BY DEF TrackTypes
<1>2. Range(chan') = Range(chan) \union {sig}
  BY RangeAppend DEF TrackTypes
<1> HIDE DEF n
<1>3. ASSUME NEW x, Sent(x, undo) PROVE Sent(x, undo)'
  <2>1. PICK i \in 1 .. n : chan[i] = x /\ \A j \in 1 .. n : j > i => chan[j] \notin undo
    BY <1>1, <1>3 DEF Sent
  <2>2. \A j \in 1 .. n + 1 : j \in 1 .. n \/ j = n + 1
    BY <1>1
  <2>3. i \in DOMAIN chan' /\ chan'[i] = x
    BY <1>1, <2>1
  <2>4. \A j \in DOMAIN chan' : j > i => chan'[j] \notin undo
    BY <1>1, <2>1, <2>2
  <2> QED BY <2>3, <2>4 DEF Sent
<1>4. Sent(sig, undo)'
  <2>1. n + 1 \in DOMAIN chan' /\ chan'[n + 1] = sig
    BY <1>1
  <2>2. \A j \in DOMAIN chan' : ~ j > n + 1
    BY <1>1
  <2> QED BY <2>1, <2>2 DEF Sent
<1>5. Unsent(undo) => Unsent(undo)'
  BY <1>2 DEF Unsent
<1> QED BY <1>3, <1>4, <1>5

\* Handling the first signal leaves the others in force, or was the last that counts.
LEMMA TailSent ==
    ASSUME TrackTypes, NEW undo, chan # <<>>, chan' = Tail(chan)
    PROVE  /\ \A x : Sent(x, undo) => Sent(x, undo)' \/ (Head(chan) = x /\ Unsent(undo)')
           /\ Unsent(undo) => Unsent(undo)' /\ Head(chan) \notin undo
<1> DEFINE n == Len(chan)
<1>1. /\ n \in Nat /\ n >= 1 /\ DOMAIN chan = 1 .. n /\ DOMAIN chan' = 1 .. n - 1
      /\ \A j \in 1 .. n - 1 : chan'[j] = chan[j + 1]
      /\ Head(chan) = chan[1]
  BY DEF TrackTypes
<1>2. Range(chan) = Range(chan') \union {Head(chan)}
  BY RangeTail DEF TrackTypes
<1> HIDE DEF n
<1>3. Unsent(undo) => Unsent(undo)' /\ Head(chan) \notin undo
  BY <1>2 DEF Unsent
<1>4. ASSUME NEW x, Sent(x, undo)
      PROVE  Sent(x, undo)' \/ (Head(chan) = x /\ Unsent(undo)')
  <2>1. PICK i \in 1 .. n : chan[i] = x /\ \A j \in 1 .. n : j > i => chan[j] \notin undo
    BY <1>1, <1>4 DEF Sent
  <2>2. CASE i = 1
    <3>1. \A j \in 1 .. n - 1 : j + 1 \in 1 .. n /\ j + 1 > 1
      BY <1>1
    <3>2. \A j \in DOMAIN chan' : chan'[j] \notin undo
      BY <1>1, <2>1, <2>2, <3>1
    <3> QED BY <1>1, <2>1, <2>2, <3>2 DEF Unsent, Range
  <2>3. CASE i # 1
    <3>1. PICK k \in 1 .. n - 1 : i = k + 1
      BY <1>1, <2>3
    <3>2. \A j \in 1 .. n - 1 : j > k => j + 1 \in 1 .. n /\ j + 1 > i
      BY <1>1, <3>1
    <3>3. k \in DOMAIN chan' /\ chan'[k] = x
      BY <1>1, <2>1, <3>1
    <3>4. \A j \in DOMAIN chan' : j > k => chan'[j] \notin undo
      BY <1>1, <2>1, <3>2
    <3> QED BY <3>3, <3>4 DEF Sent
  <2> QED BY <2>2, <2>3
<1> QED BY <1>3, <1>4

\* A signal that is sent undoes no lock but that of its own session.
LEMMA AppendSuspends ==
    ASSUME TrackTypes, NEW sig, chan' = Append(chan, sig), NEW id \in Ids
    PROVE  /\ sig \notin {New(id), UnlockOf(id)} =>
                (LockPending(id) => LockPending(id)') /\ (NoUndo(id) => NoUndo(id)')
           /\ sig = LockOf(id) => LockPending(id)'
<1> DEFINE undo == {New(id), UnlockOf(id)}
           lock == LockOf(id)
<1>1. /\ LockPending(id) <=> Sent(lock, undo)
      /\ LockPending(id)' <=> Sent(lock, undo)'
      /\ NoUndo(id) <=> Unsent(undo)
      /\ NoUndo(id)' <=> Unsent(undo)'
  BY DEF LockPending, NoUndo, Undoing, New, UnlockOf, LockOf
<1>2. lock \notin undo
  BY DEF New, UnlockOf, LockOf
<1> HIDE DEF undo, lock
<1>3. sig \notin undo =>
          (Sent(lock, undo) => Sent(lock, undo)') /\ (Unsent(undo) => Unsent(undo)')
  BY AppendSent
<1>4. sig = lock => Sent(lock, undo)'
  BY <1>2, AppendSent
<1> QED BY <1>1, <1>3, <1>4 DEF undo, lock

\* Handling a signal leaves a pending lock pending, or handles it as the last
\* signal that could charge or suspend its session.
LEMMA TailSuspends ==
    ASSUME TrackTypes, chan # <<>>, chan' = Tail(chan), NEW id \in Ids
    PROVE  /\ LockPending(id) => LockPending(id)' \/ (Head(chan) = LockOf(id) /\ NoUndo(id)')
           /\ NoUndo(id) => NoUndo(id)' /\ Head(chan) \notin {New(id), UnlockOf(id)}
<1> DEFINE undo == {New(id), UnlockOf(id)}
           lock == LockOf(id)
<1>1. /\ LockPending(id) <=> Sent(lock, undo)
      /\ LockPending(id)' <=> Sent(lock, undo)'
      /\ NoUndo(id) <=> Unsent(undo)
      /\ NoUndo(id)' <=> Unsent(undo)'
  BY DEF LockPending, NoUndo, Undoing, New, UnlockOf, LockOf
<1> HIDE DEF undo, lock
<1>2. /\ Sent(lock, undo) => Sent(lock, undo)' \/ (Head(chan) = lock /\ Unsent(undo)')
      /\ Unsent(undo) => Unsent(undo)' /\ Head(chan) \notin undo
  BY TailSent
<1> QED BY <1>1, <1>2 DEF undo, lock

\* What the watcher does to the charging of a session that is locked.
LEMMA WatchSuspends ==
    ASSUME Inv, TrackTypes, Suspended, Watch
    PROVE  Suspended'
<1>1. /\ running /\ running' /\ chan # <<>> /\ chan' = Tail(chan)
      /\ UNCHANGED <<logind, waiting>>
  BY WatchKeeps DEF Watch, logindVars
<1> SUFFICES ASSUME NEW id \in Ids, IsLocked(id)
             PROVE  \/ LockPending(id)'
                    \/ NoUndo(id)' /\ StatusIn(users', UserOf(id), id) # "running"
  BY <1>1 DEF Suspended, IsLocked, KnownUsers, UserOf
<1> DEFINE u == UserOf(id)
           charged == StatusIn(users, u, id) = "running"
<1>2. u \in UserNames /\ logind[id] # Missing
  BY DEF TrackTypes, LogindSession, IsLocked, UserOf
<1>3. ASSUME \/ Head(chan) = LockOf(id)
             \/ ~ charged /\ Head(chan) \notin {New(id), UnlockOf(id)}
      PROVE  StatusIn(users', u, id) # "running"
  <2>1. CASE Head(chan) = [name |-> "Sleep"] /\ HandleSleep
    BY <1>2, <2>1, SleepEffect
  <2>2. CASE Head(chan) = [name |-> "Wake"] /\ UNCHANGED managerVars
    BY <1>3, <2>2 DEF managerVars, vars, LockOf
  <2>3. ASSUME NEW k \in Ids, Head(chan) = Gone(k), HandleLogout(k)
        PROVE  StatusIn(users', u, id) # "running"
    <3>1. ~ charged
      BY <1>3, <2>3 DEF LockOf, Gone
    <3> QED BY <1>2, <2>3, <3>1, LogoutEffect
  <2>4. ASSUME NEW k \in Ids, logind[k] = Missing, UNCHANGED managerVars,
               Head(chan) \in {New(k), LockOf(k), UnlockOf(k)}
        PROVE  StatusIn(users', u, id) # "running"
    BY <1>2, <1>3, <2>4 DEF managerVars, vars, LockOf, New, UnlockOf
  <2>5. ASSUME NEW k \in Ids, UserOf(k) \in UserNames, Head(chan) = New(k),
               HandleLogin(UserOf(k), k)
        PROVE  StatusIn(users', u, id) # "running"
    <3>1. ~ charged /\ k # id
      BY <1>3, <2>5 DEF LockOf, New
    <3> QED BY <1>2, <2>5, <3>1, LoginEffect
  <2>6. ASSUME NEW k \in Ids, UserOf(k) \in UserNames, Head(chan) = LockOf(k),
               HandleLock(UserOf(k), k)
        PROVE  StatusIn(users', u, id) # "running"
    <3>1. \A v \in UserNames, j \in Ids : StatusIn(users', v, j) =
              IF v = UserOf(k) /\ j = k /\ StatusIn(users, UserOf(k), k) # "closed" THEN "idle"
              ELSE StatusIn(users, v, j)
      BY <2>6, LockEffect
    <3>2. CASE k = id
      BY <1>2, <3>1, <3>2
    <3>3. CASE k # id
      <4>1. ~ charged
        BY <1>3, <2>6, <3>3 DEF LockOf
      <4> QED BY <1>2, <3>1, <3>3, <4>1
    <3> QED BY <3>2, <3>3
  <2>7. ASSUME NEW k \in Ids, UserOf(k) \in UserNames, Head(chan) = UnlockOf(k),
               HandleUnlock(UserOf(k), k)
        PROVE  StatusIn(users', u, id) # "running"
    <3>1. ~ charged /\ k # id
      BY <1>3, <2>7 DEF LockOf, UnlockOf
    <3> QED BY <1>2, <2>7, <3>1, LockEffect
  <2> QED BY <2>1, <2>2, <2>3, <2>4, <2>5, <2>6, <2>7, WatchHandles
<1>4. CASE LockPending(id)
  BY <1>1, <1>3, <1>4, TailSuspends
<1>5. CASE NoUndo(id) /\ ~ charged
  BY <1>1, <1>3, <1>5, TailSuspends
<1> QED BY <1>1, <1>4, <1>5 DEF Suspended, KnownUsers

\* A step that sends a signal and locks no session but perhaps its own.
LEMMA SendSuspends ==
    ASSUME InOrder, TrackTypes, Suspended, running, running', UNCHANGED users,
           NEW sig, Emit(sig),
           \A id \in Ids : IsLocked(id)' =>
               \/ sig = LockOf(id)
               \/ IsLocked(id) /\ UserOf(id)' = UserOf(id) /\ sig \notin {New(id), UnlockOf(id)}
    PROVE  Suspended'
<1>1. chan' = Append(chan, sig)
  BY EmitInOrder
<1> SUFFICES ASSUME NEW id \in Ids, IsLocked(id)'
             PROVE  \/ LockPending(id)'
                    \/ NoUndo(id)' /\ StatusIn(users', UserOf(id)', id) # "running"
  BY DEF Suspended, KnownUsers
<1>2. CASE sig = LockOf(id)
  BY <1>1, <1>2, AppendSuspends
<1>3. CASE IsLocked(id) /\ UserOf(id)' = UserOf(id) /\ sig \notin {New(id), UnlockOf(id)}
  <2>1. /\ LockPending(id) => LockPending(id)'
        /\ NoUndo(id) => NoUndo(id)'
    BY <1>1, <1>3, AppendSuspends
  <2>2. UserOf(id)' = UserOf(id) /\ users' = users
    BY <1>3
  <2>3. StatusIn(users', UserOf(id)', id) = StatusIn(users, UserOf(id), id)
    BY <2>2 DEF StatusIn
  <2> QED BY <1>3, <2>1, <2>3 DEF Suspended, KnownUsers
<1> QED BY <1>2, <1>3

\* No step of logind or of a daemon that goes on breaks it.
LEMMA SuspendedStep ==
    ASSUME InOrder, Inv, TrackTypes, Suspended, running, running', [TrackingNext]_allVars
    PROVE  Suspended'
<1>1. ASSUME NEW id \in Ids, NEW u \in UserNames, SessionNew(id, u) PROVE Suspended'
  <2>1. UNCHANGED users /\ Emit(New(id))
    BY <1>1 DEF SessionNew, New, managerVars, vars
  <2>2. logind' = [logind EXCEPT ![id] = [user |-> u, locked |-> FALSE]]
    BY <1>1 DEF SessionNew
  <2>3. \A j \in Ids : IsLocked(j)' => j # id /\ IsLocked(j) /\ UserOf(j)' = UserOf(j)
    BY <2>2 DEF IsLocked, UserOf, TrackTypes
  <2>4. \A j \in Ids : j # id => New(id) \notin {New(j), UnlockOf(j)}
    BY DEF New, UnlockOf
  <2> QED BY <2>1, <2>3, <2>4, SendSuspends
<1>2. ASSUME NEW id \in Ids, SessionRemoved(id) PROVE Suspended'
  <2>1. UNCHANGED users /\ Emit(Gone(id))
    BY <1>2 DEF SessionRemoved, Gone, managerVars, vars
  <2>2. \A j \in Ids : IsLocked(j)' => IsLocked(j) /\ UserOf(j)' = UserOf(j)
    BY <1>2 DEF SessionRemoved, IsLocked, UserOf, TrackTypes
  <2>3. \A j \in Ids : Gone(id) \notin {New(j), UnlockOf(j)}
    BY DEF Gone, New, UnlockOf
  <2> QED BY <2>1, <2>2, <2>3, SendSuspends
<1>3. ASSUME NEW id \in Ids, LockSession(id) PROVE Suspended'
  <2>1. UNCHANGED users /\ Emit(LockOf(id))
    BY <1>3 DEF LockSession, LockOf, managerVars, vars
  <2>2. \A j \in Ids : IsLocked(j)' => j = id \/ (IsLocked(j) /\ UserOf(j)' = UserOf(j))
    BY <1>3 DEF LockSession, IsLocked, UserOf, TrackTypes
  <2>3. \A j \in Ids : LockOf(id) \notin {New(j), UnlockOf(j)}
    BY DEF LockOf, New, UnlockOf
  <2> QED BY <2>1, <2>2, <2>3, SendSuspends
<1>4. ASSUME NEW id \in Ids, UnlockSession(id) PROVE Suspended'
  <2>1. UNCHANGED users /\ Emit(UnlockOf(id))
    BY <1>4 DEF UnlockSession, UnlockOf, managerVars, vars
  <2>2. \A j \in Ids : IsLocked(j)' => j # id /\ IsLocked(j) /\ UserOf(j)' = UserOf(j)
    BY <1>4 DEF UnlockSession, IsLocked, UserOf, TrackTypes, LogindSession
  <2>3. \A j \in Ids : j # id => UnlockOf(id) \notin {New(j), UnlockOf(j)}
    BY DEF New, UnlockOf
  <2> QED BY <2>1, <2>2, <2>3, SendSuspends
<1>5. CASE PrepareForSleep \/ WakeUp
  <2>1. /\ UNCHANGED <<users, logind>>
        /\ \E sig \in {[name |-> "Sleep"], [name |-> "Wake"]} : Emit(sig)
    BY <1>5 DEF PrepareForSleep, WakeUp, managerVars, vars
  <2>2. \A j \in Ids : IsLocked(j)' => IsLocked(j) /\ UserOf(j)' = UserOf(j)
    BY <2>1 DEF IsLocked, UserOf
  <2>3. \A j \in Ids, sig \in {[name |-> "Sleep"], [name |-> "Wake"]} :
            sig \notin {New(j), UnlockOf(j)}
    BY DEF New, UnlockOf
  <2> QED BY <2>1, <2>2, <2>3, SendSuspends
<1>6. CASE Watch
  BY <1>6, WatchSuspends
<1>7. CASE FallAsleep \/ (Heartbeat /\ UNCHANGED trackVars) \/ TimePasses \/ UNCHANGED allVars
  <2>1. UNCHANGED <<users, logind, chan, waiting>>
    BY <1>7 DEF FallAsleep, Heartbeat, TimePasses, Tick, allVars, managerVars, vars, machineVars,
       trackVars, logindVars, signalVars
  <2>2. \A id : /\ IsLocked(id)' = IsLocked(id) /\ UserOf(id)' = UserOf(id)
                /\ LockPending(id)' = LockPending(id) /\ NoUndo(id)' = NoUndo(id)
    BY <2>1 DEF IsLocked, UserOf, LockPending, NoUndo, Sent, Unsent, Undoing, Range, New,
       LockOf, UnlockOf
  <2>3. \A id : StatusIn(users', UserOf(id)', id) = StatusIn(users, UserOf(id), id)
    BY <2>1, <2>2 DEF StatusIn
  <2> QED BY <2>2, <2>3 DEF Suspended, KnownUsers
<1>8. CASE DeferredDeliver \/ \E id \in Ids : ReEmitSessionNew(id)
  <2>1. waiting = <<>>
    BY DEF InOrder, TrackTypes
  <2>2. \A i : i \notin DOMAIN waiting
    BY <2>1
  <2> QED BY <1>8, <2>2 DEF DeferredDeliver, ReEmitSessionNew, InOrder
<1>9. CASE DaemonStarts \/ DaemonDies \/ PowerFails \/ Boot
  BY <1>9 DEF DaemonStarts, NewManager, DaemonDies, DaemonStop, PowerFails, PowerOff, Forget,
     Boot, Inv, TypeOK
<1> QED BY <1>1, <1>2, <1>3, <1>4, <1>5, <1>6, <1>7, <1>8, <1>9 DEF TrackingNext

\* A machine without sessions has none that is locked.
LEMMA EmptySuspended == logind = NoSessions => Suspended
BY DEF NoSessions, Suspended, IsLocked

\* With no signal on its way all depends on the records.
LEMMA QuietSuspended ==
    Quiet => (Suspended <=> \A id \in Ids : IsLocked(id) =>
                                StatusIn(KnownUsers, UserOf(id), id) # "running")
BY DEF Quiet, Suspended, LockPending, NoUndo, Sent, Unsent, Range

\* A session is charged exactly when its status is running.
LEMMA SuspendedNotCharged ==
    ASSUME Inv, TrackTypes, Suspended, CaughtUp
    PROVE  LockedNotCharged
<1> SUFFICES ASSUME NEW id \in Ids, IsLocked(id), users[UserOf(id)] # Missing,
                    NEW s \in Active(WithId(SessionsOf(UserOf(id)), id))
             PROVE  IsIdle(s)
  BY DEF LockedNotCharged, IsLocked
<1>1. StatusIn(users, UserOf(id), id) # "running"
  BY QuietSuspended DEF CaughtUp, KnownUsers
<1>2. UserOf(id) \in UserNames
  BY DEF IsLocked, TrackTypes, LogindSession, UserOf
<1>3. s \in SessionsOf(UserOf(id)) /\ s.id = id /\ IsActive(s)
  BY DEF Active, WithId
<1>4. Active(WithId(SessionsOf(UserOf(id)), id)) = {s}
  BY <1>2, <1>3, OneActive DEF Inv, GoodUsers, SessionsOf
<1> QED BY <1>1, <1>4 DEF StatusIn, SessionsOf

\* One run of the daemon for each boot.
LEMMA SuspendedOneRun ==
    ASSUME MaxStops = 0, MaxWaiting = 0, ~ ReEmits
    PROVE  TrackingSpec => [](Announced => Suspended)
<1>1. TrackingInit => Suspended
  BY EmptySuspended DEF TrackingInit
<1>2. ASSUME BootInv, BootInv', TrackTypes, SyncOneRun, SyncOneRun', Announced => Suspended,
             [TrackingNext]_allVars, Announced'
      PROVE  Suspended'
  <2>1. (logind = NoSessions)' => Suspended'
    BY EmptySuspended, PTL
  <2>2. /\ Inv /\ running \in BOOLEAN /\ running' \in BOOLEAN
        /\ missed \in BOOLEAN /\ missed' \in BOOLEAN
    BY <1>2, TrackTypesStep DEF BootInv, Inv, TypeOK, TrackTypes
  <2>3. CASE running /\ running'
    <3>1. Announced
      BY <1>2, <2>3, NoneMissed DEF Announced
    <3> QED BY <1>2, <2>2, <2>3, <3>1, SuspendedStep DEF InOrder
  <2>4. CASE ~ running'
    BY <1>2, <2>1, <2>4 DEF SyncOneRun, Empty
  <2>5. CASE ~ running /\ running'
    <3>1. DaemonStarts
      BY <1>2, <2>5, StartsOrEnds
    <3> QED BY <1>2, <2>1, <2>5, <3>1 DEF DaemonStarts, trackVars, signalVars, logindVars,
               SyncOneRun, Announced, Empty, NoSessions
  <2> QED BY <2>2, <2>3, <2>4, <2>5
<1> QED BY <1>1, <1>2, SyncOneRunAlways, BootInvariance, TrackingTypes, TrackingIsManager, PTL
        DEF TrackingSpec

\* One day on which the daemon may restart.
LEMMA SuspendedOneDay ==
    ASSUME MaxOutages = 0, ~ SaveMayFail, MaxTime \in 1 .. DayLength - 1, MaxWaiting = 0,
           ~ ReEmits
    PROVE  TrackingSpec => [](~ missed => Suspended)
<1>1. TrackingInit => Suspended
  BY EmptySuspended DEF TrackingInit
<1>2. ASSUME DayInv, DayInv', TrackTypes, TrackTypes', SyncOneDay, ~ missed => Suspended,
             [TrackingNext]_allVars, ~ missed'
      PROVE  Suspended'
  <2>1. /\ Inv /\ Inv' /\ OneDay
        /\ running \in BOOLEAN /\ running' \in BOOLEAN
        /\ running => users = SavedUsers
        /\ running' => users' = SavedUsers'
    BY <1>2 DEF DayInv, Inv, TypeOK, OneDay
  <2>2. CASE running /\ running'
    BY <1>2, <2>1, <2>2, NoneMissed, SuspendedStep DEF InOrder
  <2>3. CASE ~ (running /\ running')
    <3>1. UNCHANGED <<logind, missed>> /\ Quiet /\ Quiet'
      <4>1. CASE ~ running /\ ~ running'
        BY <1>2, <2>1, <4>1, UnheardDay DEF SyncOneDay
      <4>2. CASE running # running'
        BY <1>2, <2>1, <4>2, StartOrEndKeeps DEF SyncOneDay
      <4> QED BY <2>1, <2>3, <4>1, <4>2
    <3>2. \A u \in UserNames, id \in Ids :
              StatusIn(KnownUsers', u, id) = StatusIn(KnownUsers, u, id)
      BY <1>2, <2>1, <2>3, SavedKept DEF KnownUsers
    <3>3. Quiet' => (Suspended' <=> \A id \in Ids : IsLocked(id)' =>
                         StatusIn(KnownUsers', UserOf(id)', id) # "running")
      BY DEF Quiet, Suspended, LockPending, NoUndo, Sent, Unsent, Range, KnownUsers
    <3>4. \A id \in Ids : IsLocked(id)' => /\ IsLocked(id) /\ UserOf(id)' = UserOf(id)
                                           /\ UserOf(id) \in UserNames
      BY <1>2, <3>1 DEF IsLocked, UserOf, TrackTypes, LogindSession
    <3>5. \A id \in Ids : IsLocked(id) => StatusIn(KnownUsers, UserOf(id), id) # "running"
      BY <1>2, <3>1, QuietSuspended
    <3> QED BY <3>1, <3>2, <3>3, <3>4, <3>5
  <2> QED BY <2>2, <2>3
<1> QED BY <1>1, <1>2, SyncOneDayAlways, DayInvAlways, TrackingTypes, TrackingIsManager, PTL
        DEF TrackingSpec

\* If signals reach the watcher in the order logind sent them, and none twice,
\* a session locked when all are handled is not charged, under what keeps the
\* records in step.
THEOREM LockedNeverCharged ==
    ASSUME MaxWaiting = 0, ~ ReEmits,
           \/ MaxStops = 0
           \/ MaxOutages = 0 /\ ~ SaveMayFail /\ MaxTime \in 1 .. DayLength - 1
    PROVE  TrackingSpec => []LockedNotCharged
<1>1. Inv /\ TrackTypes /\ (~ missed => Suspended) => LockedNotCharged
  <2>1. ~ CaughtUp => LockedNotCharged
    BY DEF LockedNotCharged
  <2> QED BY <2>1, SuspendedNotCharged DEF CaughtUp
<1>2. TrackingSpec => [](~ missed => Suspended)
  <2>1. CASE MaxStops = 0
    <3>1. ~ missed => Announced
      BY DEF Announced
    <3>2. TrackingSpec => [](Announced => Suspended)
      BY <2>1, SuspendedOneRun
    <3> QED BY <3>1, <3>2, PTL
  <2>2. CASE MaxOutages = 0 /\ ~ SaveMayFail /\ MaxTime \in 1 .. DayLength - 1
    BY <2>2, SuspendedOneDay
  <2> QED BY <2>1, <2>2
<1> QED BY <1>1, <1>2, TrackingTypes, TrackingIsManager, Invariance, PTL

-----------------------------------------------------------------------------
(* Ended sessions, if every login asks a daemon that runs until power off. *)

\* A session that is over has no open segment.
ClosedSet(S) == \A s \in S : ~ IsActive(s) => ~ SegIsActive(Last(s.segs))
Closed(us) == \A u \in UserNames : us[u] # Missing => ClosedSet(us[u].sessions)

\* Ending a segment closes the last one; so does ending a session.
LEMMA EndingCloses ==
    ASSUME NEW s \in Session, NEW t \in Times, Chained(s)
    PROVE  ~ SegIsActive(Last(EndSegment(s, t).segs)) /\ ~ SegIsActive(Last(End(s, t).segs))
<1>1. IsIdle(EndSegment(s, t)) /\ EndSegment(s, t) \in Session
  BY SegmentStatus, EndSegmentType
<1>2. End(s, t).segs = EndSegment(s, t).segs
  BY <1>1 DEF End, Session
<1> QED BY <1>1, <1>2 DEF IsIdle

\* Exchanging one user's sessions for sessions that are closed if over.
LEMMA StoreClosed ==
    ASSUME users \in UserMap, Closed(users), NEW u \in UserNames, NEW usr \in User,
           Store(u, usr), ClosedSet(usr.sessions)
    PROVE  Closed(users')
<1>1. users' = [users EXCEPT ![u] = usr]
  BY DEF Store
<1>2. users'[u] = usr /\ \A v \in UserNames : v # u => users'[v] = users[v]
  BY <1>1 DEF UserMap
<1> QED BY <1>2 DEF Closed

LEMMA StoreSessionsClosed ==
    ASSUME users \in UserMap, Closed(users), NEW u \in UserNames, users[u] # Missing,
           NEW R \in SUBSET Session, StoreSessions(u, R), ClosedSet(R)
    PROVE  Closed(users')
<1> DEFINE usr == [users[u] EXCEPT !.sessions = R]
<1>1. users[u] \in User
  BY UserMapElement
<1>2. usr \in User /\ usr.sessions = R
  BY <1>1 DEF User
<1>3. Store(u, usr)
  BY DEF StoreSessions
<1> HIDE DEF usr
<1> QED BY <1>2, <1>3, StoreClosed

\* Exchanging a record for one that is active, or closed.
LEMMA ReplaceClosed ==
    ASSUME Inv, Closed(users), NEW u \in UserNames, users[u] # Missing,
           NEW s \in SessionsOf(u), NEW r \in Session,
           IsActive(r) \/ ~ SegIsActive(Last(r.segs)),
           StoreSessions(u, Replace(SessionsOf(u), s, r))
    PROVE  Closed(users')
<1>1. users \in UserMap /\ SessionsOf(u) \in SUBSET Session
  BY UserMapElement DEF Inv, TypeOK, SessionsOf, User
<1>2. Replace(SessionsOf(u), s, r) \in SUBSET Session
  BY <1>1 DEF Replace
<1>3. ClosedSet(Replace(SessionsOf(u), s, r))
  BY DEF ClosedSet, Closed, Replace, SessionsOf
<1> QED BY <1>1, <1>2, <1>3, StoreSessionsClosed

\* A login opens a segment of a new record or an active one.
LEMMA LoginCloses ==
    ASSUME Inv, Closed(users), NEW u \in UserNames, NEW id \in Ids, HandleLogin(u, id)
    PROVE  Closed(users')
<1> DEFINE usr == IF users[u] = Missing THEN FreshUser ELSE users[u]
<1>1. /\ usr \in User /\ GoodSet(usr.sessions, now) /\ ClosedSet(usr.sessions)
      /\ now \in Times /\ users \in UserMap
  <2>1. FreshUser \in User /\ GoodSet(FreshUser.sessions, now) /\ ClosedSet(FreshUser.sessions)
    BY DEF FreshUser, User, GoodSet, Active, Times, Zero, ClosedSet
  <2>2. users \in UserMap /\ GoodUsers(users, now) /\ now \in Times
    BY DEF Inv, TypeOK
  <2> QED BY <2>1, <2>2, UserMapElement DEF GoodUsers, Closed
<1>2. CASE ~ IsSessionActive(usr.sessions, id) /\ Store(u, AddSession(usr, id, now))
  <2> DEFINE n == NewSession(usr.next, id, now)
  <2>1. AddSession(usr, id, now) \in User
    <3> HIDE DEF usr
    <3> QED BY <1>1, <1>2, AddSessionGood
  <2>2. AddSession(usr, id, now).sessions = usr.sessions \union {n}
    <3> HIDE DEF usr
    <3> QED BY <1>1 DEF AddSession, User
  <2>3. IsActive(n)
    BY DEF NewSession, AddSegment, IsActive
  <2> HIDE DEF usr, n
  <2>4. ClosedSet(AddSession(usr, id, now).sessions)
    BY <1>1, <2>2, <2>3 DEF ClosedSet
  <2> QED BY <1>1, <1>2, <2>1, <2>4, StoreClosed
<1>3. ASSUME IsSessionActive(usr.sessions, id), NEW s \in GetSessionByID(usr.sessions, id),
             StoreSessions(u, Replace(usr.sessions, s, AddSegment(s, now)))
      PROVE  Closed(users')
  <2>1. s \in usr.sessions /\ s \in Session /\ IsActive(s)
    <3> HIDE DEF usr
    <3> QED BY <1>1, <1>3, FoundActive DEF GoodSet
  <2>2. users[u] # Missing /\ usr.sessions = SessionsOf(u)
    BY <2>1 DEF FreshUser, SessionsOf
  <2> HIDE DEF usr
  <2>3. AddSegment(s, now) \in Session /\ IsActive(AddSegment(s, now))
    BY <1>1, <2>1, AddSegmentType DEF AddSegment, Session, IsActive
  <2> QED BY <1>3, <2>1, <2>2, <2>3, ReplaceClosed
<1> QED BY <1>2, <1>3 DEF HandleLogin, NoEffect, Closed

\* A lock closes a segment; an unlock opens one of an active record, if there
\* is an active one to find.
LEMMA LockCloses ==
    ASSUME Inv, Closed(users), NEW u \in UserNames, NEW id \in Ids,
           HandleLock(u, id) \/ (HandleUnlock(u, id) /\ Open(u, id))
    PROVE  Closed(users')
<1>1. ASSUME NEW s \in Found(u, id)
      PROVE  /\ users[u] # Missing /\ now \in Times /\ s \in SessionsOf(u)
             /\ s \in Session /\ Chained(s)
             /\ Open(u, id) => IsActive(s)
  <2>1. /\ users[u] # Missing /\ now \in Times /\ s \in SessionsOf(u)
        /\ s \in Session /\ Good(s, now) /\ GoodSet(SessionsOf(u), now)
    BY FoundGood
  <2>2. Open(u, id) => IsActive(s)
    BY <2>1, FoundActive, StatusActive DEF Found, Open
  <2> QED BY <2>1, <2>2 DEF Good
<1>2. ASSUME NEW s \in Found(u, id),
             StoreSessions(u, Replace(SessionsOf(u), s, EndSegment(s, now)))
      PROVE  Closed(users')
  BY <1>1, <1>2, EndSegmentType, EndingCloses, ReplaceClosed
<1>3. ASSUME Open(u, id), NEW s \in Found(u, id),
             StoreSessions(u, Replace(SessionsOf(u), s, AddSegment(s, now)))
      PROVE  Closed(users')
  <2>1. AddSegment(s, now) \in Session /\ IsActive(AddSegment(s, now))
    BY <1>1, <1>3, AddSegmentType DEF AddSegment, Session, IsActive
  <2> QED BY <1>1, <1>3, <2>1, ReplaceClosed
<1> QED BY <1>2, <1>3 DEF HandleLock, HandleUnlock, NoEffect, Closed

\* A logout closes what it ends.
LEMMA LogoutCloses ==
    ASSUME Inv, Closed(users), NEW id \in Ids, HandleLogout(id)
    PROVE  Closed(users')
<1>1. ASSUME NEW u \in GetUserBySession(id),
             StoreSessions(u, EndSession(SessionsOf(u), id, now))
      PROVE  Closed(users')
  <2> DEFINE S == SessionsOf(u)
             F == Oldest(Active(WithId(S, id)))
  <2>1. u \in UserNames /\ users[u] # Missing
    BY DEF GetUserBySession, ActiveOwners, Owners
  <2>2. GoodSet(S, now) /\ now \in Times /\ users \in UserMap /\ ClosedSet(S)
    BY <2>1 DEF Inv, TypeOK, GoodUsers, SessionsOf, Closed
  <2>3. EndSession(S, id, now) \in SUBSET Session
    BY <2>2, EndSessionGood DEF GoodSet
  <2>4. F \subseteq S
    BY LookupsReturnRecords DEF Active
  <2>5. \A s \in F : ~ SegIsActive(Last(End(s, now).segs))
    BY <2>2, <2>4, EndingCloses DEF GoodSet, Good
  <2>6. EndSession(S, id, now) = (S \ F) \union {End(s, now) : s \in F}
    BY DEF EndSession
  <2> HIDE DEF F, S
  <2>7. ClosedSet(EndSession(S, id, now))
    BY <2>2, <2>5, <2>6 DEF ClosedSet
  <2> QED BY <1>1, <2>1, <2>2, <2>3, <2>7, StoreSessionsClosed DEF S
<1> QED BY <1>1 DEF HandleLogout, NoEffect, Closed

\* Sleep closes segments and ends no session.
LEMMA SleepCloses ==
    ASSUME Inv, Closed(users), HandleSleep
    PROVE  Closed(users')
<1> SUFFICES ASSUME NEW u \in UserNames, users'[u] # Missing
             PROVE  ClosedSet(users'[u].sessions)
  BY DEF Closed
<1>1. users[u] # Missing /\ users'[u] = [users[u] EXCEPT !.sessions = EndAllSegments(@, now)]
  BY DEF HandleSleep
<1>2. /\ users[u] \in User /\ GoodSet(users[u].sessions, now) /\ now \in Times
      /\ ClosedSet(users[u].sessions)
  BY <1>1, UserMapElement DEF GoodUsers, Inv, TypeOK, Closed
<1>3. users'[u].sessions = EndAllSegments(users[u].sessions, now)
  BY <1>1, <1>2 DEF User
<1>4. \A s \in users[u].sessions : ~ SegIsActive(Last(EndSegment(s, now).segs))
  BY <1>2, EndingCloses DEF GoodSet, Good
<1> QED BY <1>2, <1>3, <1>4 DEF EndAllSegments, ClosedSet

\* A start closes what it ends.
LEMMA StartCloses ==
    ASSUME Inv, NewManager, Closed(SavedUsers)
    PROVE  Closed(users')
<1>1. CASE users' = NoUsers
  BY <1>1 DEF Closed, NoUsers
<1>2. CASE disk # Missing /\ users' = StartUpChecks(disk.users, disk.mtime)
  <2> DEFINE us == disk.users
             t == disk.mtime
             E(S) == IF SystemWasDown(t) THEN EndActive(S, t) ELSE S
  <2>1. us \in UserMap /\ t \in Times /\ GoodUsers(us, t) /\ Closed(us)
    BY <1>2, FileElement DEF Inv, SavedUsers
  <2> SUFFICES ASSUME NEW u \in UserNames, users'[u] # Missing
               PROVE  ClosedSet(users'[u].sessions)
    BY DEF Closed
  <2>2. us[u] # Missing /\ users'[u] = [us[u] EXCEPT !.sessions = RemoveOldSessions(E(@), now)]
    BY <1>2 DEF StartUpChecks
  <2> HIDE DEF us, t
  <2>3. us[u] \in User /\ GoodSet(us[u].sessions, t) /\ ClosedSet(us[u].sessions)
    BY <2>1, <2>2, UserMapElement DEF GoodUsers, Closed
  <2>4. users'[u].sessions = RemoveOldSessions(E(us[u].sessions), now)
    BY <2>2, <2>3 DEF User
  <2>5. \A s \in us[u].sessions : ~ SegIsActive(Last(End(s, t).segs))
    BY <2>1, <2>3, EndingCloses DEF GoodSet, Good
  <2>6. ClosedSet(E(us[u].sessions))
    BY <2>3, <2>5 DEF EndActive, ClosedSet
  <2> HIDE DEF E
  <2> QED BY <2>4, <2>6 DEF RemoveOldSessions, ClosedSet
<1> QED BY <1>1, <1>2 DEF NewManager

\* The signals that resume a session reach a record that is active: an unlock
\* on its way is of a session that is over, or has an active record, or was
\* announced by a signal before it.
UnlockAfterNew ==
    \A i \in DOMAIN chan, id \in Ids : chan[i] = UnlockOf(id) =>
        /\ id \in used
        /\ logind[id] # Missing =>
             \/ Open(UserOf(id), id)
             \/ \E j \in DOMAIN chan : j < i /\ chan[j] = New(id)

\* Of a session that logind has, the watcher ends no record, and a login makes
\* one active.
LEMMA WatchOpens ==
    ASSUME Inv, TrackTypes, Agrees, Watch, NEW id \in Ids, logind[id] # Missing,
           Open(UserOf(id), id) \/ Head(chan) = New(id)
    PROVE  Open(UserOf(id), id)'
<1>1. UserOf(id) \in UserNames /\ UserOf(id)' = UserOf(id)
  BY DEF TrackTypes, LogindSession, UserOf, Watch, logindVars
<1>2. Open(UserOf(id), id)' <=> StatusIn(users', UserOf(id), id) # "closed"
  BY <1>1 DEF Open, StatusIn, Active, WithId, IsActive, IsIdle, SegIsActive
<1>3. CASE Head(chan) = [name |-> "Sleep"] /\ HandleSleep
  BY <1>1, <1>2, <1>3, SleepEffect DEF Open, New
<1>4. ASSUME UNCHANGED managerVars, Head(chan) # New(id)
      PROVE  Open(UserOf(id), id)'
  BY <1>2, <1>4 DEF Open, managerVars, vars
<1>5. ASSUME NEW k \in Ids, Head(chan) = Gone(k), HandleLogout(k)
      PROVE  Open(UserOf(id), id)'
  <2>1. Gone(k) \in Pending
    <3>1. Head(chan) \in Range(chan)
      BY RangeTail DEF Watch, TrackTypes
    <3> QED BY <1>5, <3>1 DEF Pending
  <2>2. logind[k] = Missing
    BY <2>1 DEF Agrees
  <2>3. Head(chan) # New(id)
    BY <1>5 DEF Gone, New
  <2> QED BY <1>1, <1>2, <1>5, <2>2, <2>3, LogoutEffect DEF Open
<1>6. ASSUME NEW k \in Ids, UserOf(k) \in UserNames, Head(chan) = New(k),
             HandleLogin(UserOf(k), k)
      PROVE  Open(UserOf(id), id)'
  <2>1. k = id \/ Open(UserOf(id), id)
    BY <1>6 DEF New
  <2> QED BY <1>1, <1>2, <1>6, <2>1, LoginEffect DEF Open
<1>7. ASSUME NEW k \in Ids, UserOf(k) \in UserNames,
             \/ Head(chan) = LockOf(k) /\ HandleLock(UserOf(k), k)
             \/ Head(chan) = UnlockOf(k) /\ HandleUnlock(UserOf(k), k)
      PROVE  Open(UserOf(id), id)'
  BY <1>1, <1>2, <1>7, LockEffect DEF Open, New, LockOf, UnlockOf
<1>8. ASSUME NEW k \in Ids, logind[k] = Missing,
             Head(chan) \in {New(k), LockOf(k), UnlockOf(k)}
      PROVE  Head(chan) # New(id)
  BY <1>8 DEF New, LockOf, UnlockOf
<1>9. Head(chan) = [name |-> "Wake"] => Head(chan) # New(id)
  BY DEF New
<1> QED BY <1>3, <1>4, <1>5, <1>6, <1>7, <1>8, <1>9, WatchHandles

\* An unlock that reaches the head of the channel finds an active record.
LEMMA WatchCloses ==
    ASSUME Inv, TrackTypes, UnlockAfterNew, Closed(users), Watch
    PROVE  Closed(users')
<1>1. ASSUME NEW id \in Ids, Head(chan) = UnlockOf(id), logind[id] # Missing
      PROVE  Open(UserOf(id), id)
  <2>1. 1 \in DOMAIN chan /\ chan[1] = UnlockOf(id)
    BY <1>1 DEF Watch, TrackTypes
  <2>2. ~ \E j \in DOMAIN chan : j < 1
    BY DEF TrackTypes
  <2> QED BY <1>1, <2>1, <2>2 DEF UnlockAfterNew
<1> QED BY <1>1, WatchHandles, SleepCloses, LogoutCloses, LoginCloses, LockCloses
        DEF managerVars, vars, Closed

\* The watcher keeps the order of what is left in the channel.
LEMMA WatchKeepsOrder ==
    ASSUME Inv, TrackTypes, Agrees, UnlockAfterNew, Watch
    PROVE  UnlockAfterNew'
<1> DEFINE n == Len(chan)
<1>1. /\ n \in Nat /\ n >= 1 /\ DOMAIN chan = 1 .. n /\ DOMAIN chan' = 1 .. n - 1
      /\ \A j \in 1 .. n - 1 : chan'[j] = chan[j + 1]
      /\ Head(chan) = chan[1]
      /\ UNCHANGED <<logind, used>>
  BY DEF TrackTypes, Watch, logindVars
<1> HIDE DEF n
<1> SUFFICES ASSUME NEW i \in DOMAIN chan', NEW id \in Ids, chan'[i] = UnlockOf(id)
             PROVE  /\ id \in used'
                    /\ logind'[id] # Missing =>
                         \/ Open(UserOf(id), id)'
                         \/ \E j \in DOMAIN chan' : j < i /\ chan'[j] = New(id)
  BY DEF UnlockAfterNew, New, UnlockOf
<1>2. i + 1 \in 1 .. n /\ chan[i + 1] = UnlockOf(id)
  BY <1>1
<1>3. /\ id \in used
      /\ logind[id] # Missing =>
           \/ Open(UserOf(id), id)
           \/ \E j \in 1 .. n : j < i + 1 /\ chan[j] = New(id)
  BY <1>1, <1>2 DEF UnlockAfterNew
<1>4. ASSUME logind[id] # Missing, NEW j \in 1 .. n, j < i + 1, chan[j] = New(id)
      PROVE  Head(chan) = New(id) \/ \E k \in 1 .. n - 1 : k < i /\ chan'[k] = New(id)
  <2>1. CASE j = 1
    BY <1>1, <1>4, <2>1
  <2>2. CASE j # 1
    <3>1. PICK k \in 1 .. n - 1 : j = k + 1 /\ k < i
      BY <1>1, <1>4, <2>2
    <3> QED BY <1>1, <1>4, <3>1
  <2> QED BY <2>1, <2>2
<1> QED BY <1>1, <1>3, <1>4, WatchOpens

\* A signal that is sent keeps the order, if an unlock is sent for a session
\* whose announcement is in the channel or was handled.
LEMMA SendKeepsOrder ==
    ASSUME InOrder, TrackTypes, UnlockAfterNew, running, UNCHANGED users, NEW sig, Emit(sig),
           used \subseteq used',
           \A id \in used : logind'[id] # Missing => /\ logind[id] # Missing
                                                    /\ UserOf(id)' = UserOf(id),
           \A id \in Ids : sig = UnlockOf(id) =>
               id \in used /\ (Open(UserOf(id), id) \/ New(id) \in Range(chan))
    PROVE  UnlockAfterNew'
<1> DEFINE n == Len(chan)
<1>1. /\ n \in Nat /\ DOMAIN chan = 1 .. n /\ DOMAIN chan' = 1 .. n + 1
      /\ \A i \in 1 .. n : chan'[i] = chan[i]
      /\ chan'[n + 1] = sig
  BY EmitInOrder DEF TrackTypes
<1>2. \A u, id : Open(u, id)' <=> Open(u, id)
  BY DEF Open, StatusIn, Active, WithId, IsActive, IsIdle, SegIsActive
<1> HIDE DEF n
<1> SUFFICES ASSUME NEW i \in DOMAIN chan', NEW id \in Ids, chan'[i] = UnlockOf(id)
             PROVE  /\ id \in used'
                    /\ logind'[id] # Missing =>
                         \/ Open(UserOf(id), id)'
                         \/ \E j \in DOMAIN chan' : j < i /\ chan'[j] = New(id)
  BY DEF UnlockAfterNew, New, UnlockOf
<1>3. ASSUME UserOf(id)' = UserOf(id) PROVE Open(UserOf(id), id)' <=> Open(UserOf(id), id)
  BY <1>3 DEF Open, StatusIn, Active, WithId, IsActive, IsIdle, SegIsActive
<1>4. CASE i \in 1 .. n
  <2>1. /\ id \in used
        /\ logind[id] # Missing =>
             \/ Open(UserOf(id), id)
             \/ \E j \in 1 .. n : j < i /\ chan[j] = New(id)
    BY <1>1, <1>4 DEF UnlockAfterNew
  <2>2. ASSUME NEW j \in 1 .. n, j < i, chan[j] = New(id)
        PROVE  \E k \in DOMAIN chan' : k < i /\ chan'[k] = New(id)
    <3>1. j \in 1 .. n + 1
      BY <1>1
    <3> QED BY <1>1, <2>2, <3>1
  <2>3. id \in used' /\ (logind'[id] # Missing => /\ logind[id] # Missing
                                                 /\ UserOf(id)' = UserOf(id))
    BY <2>1
  <2> QED BY <1>3, <2>1, <2>2, <2>3
<1>5. CASE i = n + 1
  <2>1. id \in used /\ (Open(UserOf(id), id) \/ New(id) \in Range(chan))
    BY <1>1, <1>5
  <2>2. \A j \in 1 .. n : j \in 1 .. n + 1 /\ j < i
    BY <1>1, <1>5
  <2>3. ASSUME New(id) \in Range(chan) PROVE \E j \in DOMAIN chan' : j < i /\ chan'[j] = New(id)
    BY <1>1, <2>2, <2>3 DEF Range
  <2>4. id \in used' /\ (logind'[id] # Missing => UserOf(id)' = UserOf(id))
    BY <2>1
  <2> QED BY <1>3, <2>1, <2>3, <2>4
<1> QED BY <1>1, <1>4, <1>5

\* Logins that ask a running daemon, whose signals it gets in order and once.
OrderInv == UnlockAfterNew /\ Closed(users) /\ Closed(SavedUsers)

LEMMA OrderStep ==
    ASSUME InOrder, Inv, TrackTypes, TrackTypes', Agrees, UnlockAfterNew, running, running',
           [TrackingNext]_allVars
    PROVE  UnlockAfterNew'
<1>1. \A id \in Ids : logind[id] # Missing => id \in used
  BY DEF TrackTypes
<1>2. ASSUME NEW id \in Ids, NEW u \in UserNames, SessionNew(id, u) PROVE UnlockAfterNew'
  <2>1. UNCHANGED users /\ Emit(New(id)) /\ used \subseteq used' /\ id \notin used
    BY <1>2 DEF SessionNew, New, managerVars, vars
  <2>2. \A j \in used : logind'[j] = logind[j] /\ UserOf(j)' = UserOf(j)
    BY <1>2, <2>1 DEF SessionNew, UserOf, TrackTypes
  <2>3. \A j \in Ids : New(id) # UnlockOf(j)
    BY DEF New, UnlockOf
  <2> QED BY <2>1, <2>2, <2>3, SendKeepsOrder
<1>3. ASSUME NEW id \in Ids, SessionRemoved(id) PROVE UnlockAfterNew'
  <2>1. UNCHANGED <<users, used>> /\ Emit(Gone(id))
    BY <1>3 DEF SessionRemoved, Gone, managerVars, vars
  <2>2. \A j \in used : logind'[j] # Missing => logind[j] # Missing /\ UserOf(j)' = UserOf(j)
    BY <1>3 DEF SessionRemoved, UserOf, TrackTypes
  <2>3. \A j \in Ids : Gone(id) # UnlockOf(j)
    BY DEF Gone, UnlockOf
  <2> QED BY <2>1, <2>2, <2>3, SendKeepsOrder
<1>4. ASSUME NEW id \in Ids, LockSession(id) \/ UnlockSession(id) PROVE UnlockAfterNew'
  <2>1. /\ UNCHANGED <<users, used>> /\ logind[id] # Missing
        /\ \E b \in BOOLEAN : logind' = [logind EXCEPT ![id].locked = b]
        /\ \E sig \in {LockOf(id), UnlockOf(id)} : Emit(sig)
    BY <1>4 DEF LockSession, UnlockSession, LockOf, UnlockOf, managerVars, vars
  <2>2. \A j \in used : logind'[j] # Missing => logind[j] # Missing /\ UserOf(j)' = UserOf(j)
    BY <2>1 DEF UserOf, TrackTypes, LogindSession
  <2>3. Open(UserOf(id), id) \/ New(id) \in Range(chan)
    <3>1. waiting = <<>>
      BY DEF InOrder, TrackTypes
    <3> QED BY <2>1, <3>1 DEF Agrees, Pending, Range
  <2>4. \A j \in Ids, sig \in {LockOf(id), UnlockOf(id)} : sig = UnlockOf(j) => j = id
    BY DEF LockOf, UnlockOf
  <2> QED BY <1>1, <2>1, <2>2, <2>3, <2>4, SendKeepsOrder
<1>5. CASE PrepareForSleep \/ WakeUp
  <2>1. /\ UNCHANGED <<users, used, logind>>
        /\ \E sig \in {[name |-> "Sleep"], [name |-> "Wake"]} : Emit(sig)
    BY <1>5 DEF PrepareForSleep, WakeUp, managerVars, vars
  <2>2. \A j \in Ids, sig \in {[name |-> "Sleep"], [name |-> "Wake"]} : sig # UnlockOf(j)
    BY DEF UnlockOf
  <2> QED BY <2>1, <2>2, SendKeepsOrder DEF UserOf
<1>6. CASE Watch
  BY <1>6, WatchKeepsOrder
<1>7. CASE FallAsleep \/ (Heartbeat /\ UNCHANGED trackVars) \/ TimePasses \/ UNCHANGED allVars
  <2>1. UNCHANGED <<users, used, logind, chan>>
    BY <1>7 DEF FallAsleep, Heartbeat, TimePasses, Tick, allVars, managerVars, vars, machineVars,
       trackVars, logindVars, signalVars
  <2>2. \A id : Open(UserOf(id), id)' <=> Open(UserOf(id), id)
    BY <2>1 DEF Open, UserOf, StatusIn, Active, WithId, IsActive, IsIdle, SegIsActive
  <2> QED BY <2>1, <2>2 DEF UnlockAfterNew, New, UnlockOf
<1>8. CASE DeferredDeliver \/ \E id \in Ids : ReEmitSessionNew(id)
  <2>1. waiting = <<>>
    BY DEF InOrder, TrackTypes
  <2>2. \A i : i \notin DOMAIN waiting
    BY <2>1
  <2> QED BY <1>8, <2>2 DEF DeferredDeliver, ReEmitSessionNew, InOrder
<1>9. CASE DaemonStarts \/ DaemonDies \/ PowerFails \/ Boot
  BY <1>9 DEF DaemonStarts, NewManager, DaemonDies, DaemonStop, PowerFails, PowerOff, Forget,
     Boot, Inv, TypeOK
<1> QED BY <1>2, <1>3, <1>4, <1>5, <1>6, <1>7, <1>8, <1>9 DEF TrackingNext

\* No step opens a segment of a session that is over, in memory or in the file.
LEMMA ClosedStep ==
    ASSUME Inv, Inv', TrackTypes, UnlockAfterNew, Closed(users), Closed(SavedUsers),
           [TrackingNext]_allVars
    PROVE  Closed(users') /\ Closed(SavedUsers')
<1>1. CASE Watch
  <2>1. Closed(users')
    BY <1>1, WatchCloses
  <2>2. SavedUsers' \in {users', SavedUsers}
    <3>1. Save(users') \/ UNCHANGED disk
      BY <1>1, WatchHandles, HandlersSave DEF NoEffect, managerVars, vars
    <3>2. ASSUME disk' = [users |-> users', mtime |-> now] PROVE SavedUsers' = users'
      <4>1. disk' \in File
        BY <3>2 DEF File, Inv, TypeOK
      <4> QED BY <3>2, <4>1, MissingFileAssumption DEF SavedUsers
    <3> QED BY <3>1, <3>2 DEF Save, SavedUsers
  <2> QED BY <2>1, <2>2
<1>2. CASE Heartbeat
  <2>1. SavedUsers' = SavedUsers
    <3>1. CASE disk # Missing /\ disk' = [disk EXCEPT !.mtime = now]
      <4>1. disk' \in File /\ disk'.users = disk.users
        BY <3>1 DEF File, Inv, TypeOK
      <4> QED BY <3>1, <4>1, MissingFileAssumption DEF SavedUsers
    <3> QED BY <1>2, <3>1 DEF Heartbeat, SavedUsers
  <2> QED BY <1>2, <2>1 DEF Heartbeat
<1>3. CASE DaemonStarts
  <2>1. Closed(users')
    BY <1>3, StartCloses DEF DaemonStarts
  <2>2. CASE disk' = [users |-> NoUsers, mtime |-> now]
    <3>1. disk' \in File
      BY <2>2, NoUsersGood DEF File, Inv, TypeOK
    <3>2. SavedUsers' = NoUsers
      BY <2>2, <3>1, MissingFileAssumption DEF SavedUsers
    <3> QED BY <2>1, <3>2 DEF Closed, NoUsers
  <2> QED BY <1>3, <2>1, <2>2 DEF DaemonStarts, NewManager, SavedUsers
<1>4. CASE DaemonDies \/ PowerFails
  BY <1>4 DEF DaemonDies, DaemonStop, PowerFails, PowerOff, Forget, Closed, NoUsers, SavedUsers
<1>5. CASE ~ (Watch \/ Heartbeat \/ DaemonStarts \/ DaemonDies \/ PowerFails)
  <2>1. UNCHANGED <<users, disk>>
    BY <1>5 DEF TrackingNext, SessionNew, SessionRemoved, LockSession, UnlockSession,
       ReEmitSessionNew, PrepareForSleep, FallAsleep, WakeUp, DeferredDeliver, TimePasses, Tick,
       Boot, allVars, managerVars, vars
  <2> QED BY <2>1 DEF SavedUsers
<1> QED BY <1>1, <1>2, <1>3, <1>4, <1>5

\* Every step keeps the order, and all that is over closed.
LEMMA OrderAlways ==
    ASSUME MaxStops = 0, PamGuards, MaxWaiting = 0, ~ ReEmits
    PROVE  TrackingSpec => []OrderInv
<1>1. TrackingInit => OrderInv
  BY DEF TrackingInit, Init, OrderInv, UnlockAfterNew, Closed, SavedUsers, NoUsers
<1>2. ASSUME BootInv, BootInv', TrackTypes, TrackTypes', SyncOneRun, SyncOneRun', OrderInv,
             [TrackingNext]_allVars
      PROVE  OrderInv'
  <2>1. Inv /\ Inv' /\ InOrder /\ Announced /\ Announced' /\ Agrees
    BY <1>2 DEF BootInv, InOrder, Announced, OneRun, SyncOneRun
  <2>2. Closed(users') /\ Closed(SavedUsers')
    BY <1>2, <2>1, ClosedStep DEF OrderInv
  <2>3. UnlockAfterNew'
    <3>1. CASE running /\ running'
      BY <1>2, <2>1, <3>1, OrderStep DEF OrderInv
    <3>2. CASE ~ running'
      <4>1. chan' = <<>>
        BY <1>2, <2>1, <3>2 DEF SyncOneRun, Empty, Quiet
      <4> QED BY <4>1 DEF UnlockAfterNew
    <3>3. CASE ~ running /\ running'
      <4>1. chan = <<>> /\ DaemonStarts
        BY <1>2, <2>1, <3>3, StartsOrEnds DEF SyncOneRun, Empty, Quiet
      <4>2. chan' = <<>>
        BY <4>1 DEF DaemonStarts, trackVars, signalVars
      <4> QED BY <4>2 DEF UnlockAfterNew
    <3> QED BY <2>1, <3>1, <3>2, <3>3 DEF Inv, TypeOK
  <2>4. Closed(users)' /\ Closed(SavedUsers)'
    BY <2>2 DEF Closed, ClosedSet, IsActive, SegIsActive
  <2> QED BY <2>3, <2>4 DEF OrderInv
<1> QED BY <1>1, <1>2, BootInvariance, SyncOneRunAlways, TrackingTypes, TrackingIsManager,
        PTL DEF TrackingSpec

\* A session that has ended is never charged again, whatever late signal names
\* it and whoever uses its ID next, if every login asks the daemon, which runs
\* until the power goes, and signals arrive in order and once.  (HandleUnlock
\* opens a segment of the latest record of the ID even if that one is over.)
THEOREM EndedNeverCharged ==
    ASSUME MaxStops = 0, PamGuards, MaxWaiting = 0, ~ ReEmits
    PROVE  TrackingSpec => []EndedStopsCharging
<1>1. OrderInv => EndedStopsCharging
  BY DEF OrderInv, Closed, ClosedSet, EndedStopsCharging, Records
<1> QED BY <1>1, OrderAlways, PTL

-----------------------------------------------------------------------------
(* The type invariant, with the time that is counted.                      *)

\* Every reachable state is well typed, the time counted for each user included.
THEOREM TrackingTypeCorrect ==
    ASSUME IsFiniteSet(Ids)
    PROVE  TrackingSpec => []TrackingTypeOK
<1> DEFINE Counted == truth \in [UserNames -> Nat]
<1>1. TrackingInit => Counted
  BY DEF TrackingInit
<1>2. Counted /\ [TrackingNext]_allVars => Counted'
  <2> SUFFICES ASSUME Counted, [TrackingNext]_allVars PROVE Counted'
    OBVIOUS
  <2>1. CASE TimePasses
    <3>1. \A u \in UserNames : Cardinality(Unlocked(u)) \in Nat
      BY FS_Subset, FS_CardinalityType DEF Unlocked
    <3> QED BY <2>1, <3>1 DEF TimePasses
  <2>2. CASE ~ TimePasses
    <3>1. UNCHANGED truth
      BY <2>2 DEF TrackingNext, SessionNew, SessionRemoved, LockSession, UnlockSession,
         ReEmitSessionNew, PrepareForSleep, FallAsleep, WakeUp, DeferredDeliver, Watch,
         DaemonStarts, DaemonDies, PowerFails, allVars, trackVars
    <3> QED BY <3>1
  <2> QED BY <2>1, <2>2
<1>3. TypeOK /\ TrackTypes /\ Counted => TrackingTypeOK
  BY DEF TrackTypes, TrackingTypeOK
<1> QED BY <1>1, <1>2, <1>3, TypeCorrect, TrackingTypes, TrackingIsManager, PTL DEF TrackingSpec

\* What logind's signals make of the records over outages: none outlives one.
THEOREM TrackedNoneOutlivesBoot ==
    ASSUME MaxStops = 0 PROVE TrackingSpec => []NoSessionOutlivesBoot
BY TrackingIsManager, NoneOutlivesBoot, PTL

-----------------------------------------------------------------------------
(* What the records of a user add up to, and what operations do to it.    *)

\* What a user's records add up to at t.
Spent(S, t) == SumOf(Used(t), S)

\* The sum NeverOvercharged takes.
LEMMA ChargedIsSpent ==
    ASSUME NEW u, SessionsOf(u) \in SUBSET Session, IsFiniteSet(SessionsOf(u)), now \in Nat
    PROVE  Charged(u) = Spent(SessionsOf(u), now)
<1> DEFINE D == SessionsOf(u)
           f == Used(now)
<1>1. \A s \in D : f[s] = Duration(s, now) /\ f[s] \in Int
  BY DurationType DEF Used
<1>2. PICK it : IsFold(it, f, D)
  <2> HIDE DEF D, f
  <2> QED BY <1>1, FoldExists DEF D
<1>3. \A r \in SUBSET D : r # {} => f[Chosen(r)] = Duration(Chosen(r), now)
  BY <1>1, ChosenIn
<1>4. it = [r \in SUBSET D |-> IF r = {} THEN 0
                ELSE Duration(Chosen(r), now) + it[r \ {Chosen(r)}]]
  <2> HIDE DEF D, f
  <2> QED BY <1>2, <1>3 DEF IsFold
<1>5. PICK jt : /\ jt = [r \in SUBSET D |-> IF r = {} THEN 0
                           ELSE Duration(Chosen(r), now) + jt[r \ {Chosen(r)}]]
                /\ Charged(u) = jt[D]
  BY <1>4, Zenon DEF Chosen, Charged, MapThenSumSet, MapThenFoldSet
<1>6. IsFold(jt, f, D)
  <2> HIDE DEF D, f
  <2> QED BY <1>3, <1>5 DEF IsFold
<1>7. SumOf(f, D) = jt[D]
  <2> HIDE DEF D, f
  <2> QED BY <1>1, <1>6, FoldIsSum DEF D
<1> QED BY <1>5, <1>7 DEF Spent

\* A record whose times are in order and in the past has not used less than nothing.
LEMMA DurationNat ==
    ASSUME NEW s \in Session, NEW t \in Nat, Good(s, t)
    PROVE  Duration(s, t) \in Nat
<1> DEFINE D == DOMAIN s.segs
           f == SegTimes(s, t)
<1>1. Duration(s, t) = SumOf(f, D) /\ IsFiniteSet(D)
  BY DurationIsSum
<1>2. ASSUME NEW i \in D PROVE f[i] \in Nat
  <2>1. s.segs[i] \in Segment
    BY DEF Session
  <2>2. s.segs[i].start \in Nat /\ s.segs[i].stop \in Nat /\ s.segs[i].start <= t
        /\ (SegIsActive(s.segs[i]) \/ s.segs[i].start <= s.segs[i].stop)
    BY <2>1 DEF Segment, Times, Good, StampedBy, Chained
  <2> QED BY <2>2 DEF SegTimes, SegDuration
<1> HIDE DEF D, f
<1> QED BY <1>1, <1>2, SumNat

\* A record without an open segment uses no more time.
LEMMA IdleTime ==
    ASSUME NEW s \in Session, Chained(s), IsIdle(s), NEW t \in Nat, NEW t2 \in Nat
    PROVE  Duration(s, t) = Duration(s, t2)
<1> DEFINE D == DOMAIN s.segs
           f == SegTimes(s, t)
           h == SegTimes(s, t2)
<1>1. /\ Duration(s, t) = SumOf(f, D) /\ Duration(s, t2) = SumOf(h, D)
      /\ IsFiniteSet(D) /\ \A i \in D : f[i] \in Int
  BY DurationIsSum
<1>2. ASSUME NEW i \in D PROVE ~ SegIsActive(s.segs[i])
  BY DEF Chained, IsIdle, Last
<1>3. \A i \in D : h[i] = f[i]
  BY <1>2 DEF SegTimes, SegDuration
<1> HIDE DEF D, f, h
<1> QED BY <1>1, <1>3, SumSame

\* Sets of good records have used a natural number of ticks, each of them too.
LEMMA SpentType ==
    ASSUME NEW t \in Nat, NEW S, GoodSet(S, t), IsFiniteSet(S)
    PROVE  Spent(S, t) \in Nat /\ \A s \in S : Used(t)[s] = Duration(s, t) /\ Used(t)[s] \in Nat
<1>1. \A s \in S : Used(t)[s] = Duration(s, t) /\ Used(t)[s] \in Nat
  BY DurationNat DEF GoodSet, Used
<1> QED BY <1>1, SumNat DEF Spent

\* Rewriting records without changing what they used adds nothing.
LEMMA RewriteSpent ==
    ASSUME NEW t \in Nat, NEW S, GoodSet(S, t), IsFiniteSet(S), NEW f \in [S -> Session],
           \A s \in S : Duration(f[s], t) = Duration(s, t)
    PROVE  IsFiniteSet({f[s] : s \in S}) /\ Spent({f[s] : s \in S}, t) <= Spent(S, t)
<1>1. \A s \in S : Used(t)[s] \in Nat /\ Used(t)[f[s]] = Used(t)[s]
  BY SpentType DEF Used, GoodSet
<1> QED BY <1>1, SumImage DEF Spent

\* Fewer records have used no more.
LEMMA SubsetSpent ==
    ASSUME NEW t \in Nat, NEW S, GoodSet(S, t), IsFiniteSet(S), NEW R \in SUBSET S
    PROVE  IsFiniteSet(R) /\ Spent(R, t) <= Spent(S, t)
<1>1. \A s \in S : Used(t)[s] \in Nat
  BY SpentType
<1> DEFINE f == Used(t)
<1>2. (\A s \in S : f[s] \in Int /\ f[s] <= f[s]) /\ \A s \in S \ R : f[s] >= 0
  BY <1>1
<1> HIDE DEF f
<1>3. SumOf(f, R) <= SumOf(f, S)
  BY <1>2, SumMonotone
<1> QED BY <1>3, FS_Subset DEF Spent, f

\* What the operations of a user's record make of it, by the clock's time:
\* ending one session, all segments or all sessions, or exchanging a record.
LEMMA OperationsSpent ==
    ASSUME NEW t \in Times, NEW S, GoodSet(S, t), IsFiniteSet(S)
    PROVE  /\ \A id : LET R == EndSession(S, id, t)
                      IN  IsFiniteSet(R) /\ Spent(R, t) <= Spent(S, t)
           /\ LET R == EndAllSegments(S, t) IN IsFiniteSet(R) /\ Spent(R, t) <= Spent(S, t)
           /\ LET R == EndActive(S, t) IN IsFiniteSet(R) /\ Spent(R, t) <= Spent(S, t)
           /\ \A s \in S, r \in Session : Duration(r, t) = Duration(s, t) =>
                LET R == Replace(S, s, r) IN IsFiniteSet(R) /\ Spent(R, t) <= Spent(S, t)
<1>1. t \in Nat /\ S \subseteq Session /\ \A s \in S : Good(s, t)
  BY DEF Times, GoodSet
<1>2. ASSUME NEW id
      PROVE  /\ IsFiniteSet(EndSession(S, id, t))
             /\ Spent(EndSession(S, id, t), t) <= Spent(S, t)
  <2> DEFINE F == Oldest(Active(WithId(S, id)))
             f == [s \in S |-> IF s \in F THEN End(s, t) ELSE s]
  <2>1. F \subseteq S
    BY LookupsReturnRecords DEF Active
  <2>2. f \in [S -> Session] /\ \A s \in S : Duration(f[s], t) = Duration(s, t)
    BY <1>1, EndType, EndTime
  <2>3. EndSession(S, id, t) = {f[s] : s \in S}
    <3> HIDE DEF F
    <3>1. EndSession(S, id, t) = (S \ F) \union {End(s, t) : s \in F}
      BY DEF EndSession, F
    <3> QED BY <2>1, <3>1
  <2> HIDE DEF f
  <2> QED BY <1>1, <2>2, <2>3, RewriteSpent
<1>3. /\ IsFiniteSet(EndAllSegments(S, t))
      /\ Spent(EndAllSegments(S, t), t) <= Spent(S, t)
  <2> DEFINE f == [s \in S |-> IF IsActive(s) THEN EndSegment(s, t) ELSE s]
  <2>1. f \in [S -> Session] /\ \A s \in S : Duration(f[s], t) = Duration(s, t)
    BY <1>1, EndSegmentType, EndSegmentTime
  <2>2. EndAllSegments(S, t) = {f[s] : s \in S}
    BY DEF EndAllSegments
  <2> HIDE DEF f
  <2> QED BY <1>1, <2>1, <2>2, RewriteSpent
<1>4. IsFiniteSet(EndActive(S, t)) /\ Spent(EndActive(S, t), t) <= Spent(S, t)
  <2> DEFINE f == [s \in S |-> IF IsActive(s) THEN End(s, t) ELSE s]
  <2>1. f \in [S -> Session] /\ \A s \in S : Duration(f[s], t) = Duration(s, t)
    BY <1>1, EndType, EndTime
  <2>2. EndActive(S, t) = {f[s] : s \in S}
    BY DEF EndActive
  <2> HIDE DEF f
  <2> QED BY <1>1, <2>1, <2>2, RewriteSpent
<1>5. ASSUME NEW s \in S, NEW r \in Session, Duration(r, t) = Duration(s, t)
      PROVE  /\ IsFiniteSet(Replace(S, s, r))
             /\ Spent(Replace(S, s, r), t) <= Spent(S, t)
  <2> DEFINE f == [q \in S |-> IF q = s THEN r ELSE q]
  <2>1. f \in [S -> Session] /\ \A q \in S : Duration(f[q], t) = Duration(q, t)
    BY <1>1, <1>5
  <2>2. Replace(S, s, r) = {f[q] : q \in S}
    BY DEF Replace
  <2> HIDE DEF f
  <2> QED BY <1>1, <2>1, <2>2, RewriteSpent
<1> QED BY <1>2, <1>3, <1>4, <1>5

\* A session that begins has used nothing.
LEMMA AddSessionSpent ==
    ASSUME NEW usr \in User, NEW id \in Ids, NEW t \in Times,
           GoodSet(usr.sessions, t), IsFiniteSet(usr.sessions)
    PROVE  /\ IsFiniteSet(AddSession(usr, id, t).sessions)
           /\ Spent(AddSession(usr, id, t).sessions, t) <= Spent(usr.sessions, t)
<1> DEFINE n == NewSession(usr.next, id, t)
           S == usr.sessions
           f == Used(t)
<1>1. t \in Nat /\ usr.next \in Times /\ AddSession(usr, id, t).sessions = S \union {n}
  BY DEF Times, User, AddSession
<1>2. n \in Session /\ f[n] = 0
  BY <1>1, NewSessionType, NewSessionTime DEF Used
<1>3. Spent(S, t) \in Nat /\ \A s \in S : f[s] \in Int
  BY <1>1, SpentType
<1> HIDE DEF n, f, S
<1>4. IsFiniteSet(S) /\ IsFiniteSet(S \union {n})
  BY FS_AddElement DEF S
<1>5. Spent(S \union {n}, t) = Spent(S, t)
  <2>1. CASE n \in S
    <3>1. S \union {n} = S
      BY <2>1
    <3> QED BY <3>1
  <2>2. CASE n \notin S
    <3>1. SumOf(f, S \union {n}) = f[n] + SumOf(f, S)
      BY <1>2, <1>3, <1>4, <2>2, SumAdd
    <3> QED BY <1>2, <1>3, <3>1 DEF Spent, f
  <2> QED BY <2>1, <2>2
<1> QED BY <1>1, <1>3, <1>4, <1>5 DEF S

\* A tick adds one for each record with an open segment.
LEMMA TickSpent ==
    ASSUME NEW t \in Nat, NEW S, GoodSet(S, t), IsFiniteSet(S)
    PROVE  Spent(S, t + 1) = Spent(S, t) + Cardinality({s \in S : ~ IsIdle(s)})
<1> DEFINE A == {s \in S : ~ IsIdle(s)}
           f == Used(t)
           g == Used(t + 1)
<1>1. S \subseteq Session /\ \A s \in S : Chained(s)
  BY DEF GoodSet, Good
<1>2. ASSUME NEW s \in S
      PROVE  f[s] \in Int /\ g[s] = f[s] + (IF s \in A THEN 1 ELSE 0)
  <2>1. f[s] = Duration(s, t) /\ f[s] \in Int
    BY SpentType
  <2>2. g[s] = Duration(s, t + 1)
    BY <1>1 DEF Used
  <2> HIDE DEF f, g
  <2>3. Duration(s, t + 1) = Duration(s, t) + (IF IsIdle(s) THEN 0 ELSE 1)
    BY <1>1, TickTime
  <2> QED BY <2>1, <2>2, <2>3
<1>3. A = S \intersect A
  OBVIOUS
<1> HIDE DEF A, f, g
<1>4. SumOf(g, S) = SumOf(f, S) + Cardinality(S \intersect A)
  BY <1>2, SumCount
<1> QED BY <1>3, <1>4 DEF Spent, A, f, g

\* Records without an open segment have used as much at any time.
LEMMA IdleSpent ==
    ASSUME NEW t \in Nat, NEW t2 \in Nat, NEW S, GoodSet(S, t), IsFiniteSet(S),
           \A s \in S : IsIdle(s)
    PROVE  Spent(S, t2) = Spent(S, t)
<1> DEFINE f == Used(t)
           g == Used(t2)
<1>1. \A s \in S : f[s] \in Int /\ g[s] = f[s]
  BY SpentType, IdleTime DEF GoodSet, Good, Used
<1> HIDE DEF f, g
<1> QED BY <1>1, SumSame DEF Spent, f, g

-----------------------------------------------------------------------------
(* What handlers and start-up do to it, within a given time.               *)

\* By the records us, no user has used more by t than the time tr.
Within(us, t, tr) ==
    \A u \in UserNames : us[u] # Missing =>
        IsFiniteSet(us[u].sessions) /\ Spent(us[u].sessions, t) <= tr[u]

\* Exchanging one user's record for one that has used no more.
LEMMA StoreWithin ==
    ASSUME users \in UserMap, NEW t, NEW tr, Within(users, t, tr), NEW u \in UserNames,
           NEW usr \in User, Store(u, usr),
           IsFiniteSet(usr.sessions) /\ Spent(usr.sessions, t) <= tr[u]
    PROVE  Within(users', t, tr)
<1>1. users' = [users EXCEPT ![u] = usr]
  BY DEF Store
<1>2. users'[u] = usr /\ \A v \in UserNames : v # u => users'[v] = users[v]
  BY <1>1 DEF UserMap
<1> QED BY <1>2 DEF Within

\* The same for a known user of whom only the sessions change.
LEMMA StoreSessionsWithin ==
    ASSUME Inv, NEW tr \in [UserNames -> Nat], Within(users, now, tr), NEW u \in UserNames,
           users[u] # Missing, NEW R, GoodSet(R, now), StoreSessions(u, R),
           IsFiniteSet(R), Spent(R, now) <= Spent(SessionsOf(u), now)
    PROVE  Within(users', now, tr)
<1> DEFINE usr == [users[u] EXCEPT !.sessions = R]
<1>1. users \in UserMap /\ users[u] \in User /\ now \in Nat
  BY UserMapElement DEF Inv, TypeOK, Times
<1>2. usr \in User /\ usr.sessions = R
  BY <1>1 DEF User, GoodSet
<1>3. Store(u, usr)
  BY DEF StoreSessions
<1> HIDE DEF usr
<1>4. /\ IsFiniteSet(SessionsOf(u)) /\ GoodSet(SessionsOf(u), now)
      /\ Spent(SessionsOf(u), now) <= tr[u] /\ tr[u] \in Nat
  BY DEF Within, SessionsOf, Inv, GoodUsers
<1>5. Spent(R, now) \in Nat /\ Spent(SessionsOf(u), now) \in Nat
  BY <1>1, <1>4, SpentType
<1>6. Spent(R, now) <= tr[u]
  BY <1>4, <1>5
<1> QED BY <1>1, <1>2, <1>3, <1>6, StoreWithin

\* A login begins a session or opens a segment now.
LEMMA LoginWithin ==
    ASSUME Inv, NEW tr \in [UserNames -> Nat], Within(users, now, tr),
           NEW u \in UserNames, NEW id \in Ids, HandleLogin(u, id)
    PROVE  Within(users', now, tr)
<1> DEFINE usr == IF users[u] = Missing THEN FreshUser ELSE users[u]
<1>1. users \in UserMap /\ now \in Times /\ now \in Nat /\ GoodUsers(users, now)
  BY DEF Inv, TypeOK, Times
<1>2. /\ usr \in User /\ GoodSet(usr.sessions, now) /\ IsFiniteSet(usr.sessions)
      /\ Spent(usr.sessions, now) <= tr[u]
  <2>1. CASE users[u] = Missing
    <3>1. usr = FreshUser /\ FreshUser \in User /\ FreshUser.sessions = {}
      BY <2>1 DEF FreshUser, User, Times, Zero
    <3>2. GoodSet({}, now) /\ IsFiniteSet({}) /\ Spent({}, now) = 0
      BY SumEmpty, FS_EmptySet DEF GoodSet, Active, Spent
    <3> HIDE DEF usr
    <3> QED BY <3>1, <3>2
  <2>2. CASE users[u] # Missing
    BY <1>1, <2>2, UserMapElement DEF GoodUsers, Within
  <2> QED BY <2>1, <2>2
<1>3. CASE ~ IsSessionActive(usr.sessions, id) /\ Store(u, AddSession(usr, id, now))
  <2> HIDE DEF usr
  <2> DEFINE new == AddSession(usr, id, now)
  <2>1. new \in User /\ GoodSet(new.sessions, now)
    BY <1>1, <1>2, <1>3, AddSessionGood
  <2>2. IsFiniteSet(new.sessions) /\ Spent(new.sessions, now) <= Spent(usr.sessions, now)
    BY <1>1, <1>2, AddSessionSpent
  <2>3. Spent(new.sessions, now) \in Nat /\ Spent(usr.sessions, now) \in Nat /\ tr[u] \in Nat
    BY <1>1, <1>2, <2>1, <2>2, SpentType
  <2>4. Store(u, new)
    BY <1>3
  <2> HIDE DEF new
  <2>5. Spent(new.sessions, now) <= tr[u]
    BY <1>2, <2>2, <2>3
  <2> QED BY <1>1, <2>1, <2>2, <2>4, <2>5, StoreWithin
<1>4. ASSUME IsSessionActive(usr.sessions, id), NEW s \in GetSessionByID(usr.sessions, id),
             StoreSessions(u, Replace(usr.sessions, s, AddSegment(s, now)))
      PROVE  Within(users', now, tr)
  <2>1. s \in usr.sessions /\ s \in Session /\ Good(s, now)
    <3> HIDE DEF usr
    <3> QED BY <1>2, <1>4, LookupsReturnRecords DEF GoodSet, WithId
  <2>2. users[u] # Missing /\ usr.sessions = SessionsOf(u)
    BY <2>1 DEF FreshUser, SessionsOf
  <2> HIDE DEF usr
  <2> DEFINE r == AddSegment(s, now)
             R == Replace(SessionsOf(u), s, r)
  <2>3. /\ r \in Session /\ Good(r, now) /\ Duration(r, now) = Duration(s, now)
        /\ r.id = s.id /\ r.end = s.end
    BY <1>1, <2>1, AddSegmentType, AddSegmentGood, AddSegmentTime DEF AddSegment, Session
  <2>4. GoodSet(R, now)
    <3> HIDE DEF r
    <3> QED BY <1>2, <2>1, <2>2, <2>3, ReplaceGood
  <2>5. IsFiniteSet(R) /\ Spent(R, now) <= Spent(SessionsOf(u), now)
    <3> HIDE DEF r
    <3> QED BY <1>1, <1>2, <2>1, <2>2, <2>3, OperationsSpent
  <2>6. StoreSessions(u, R)
    BY <1>4, <2>2
  <2> HIDE DEF R
  <2> QED BY <2>2, <2>4, <2>5, <2>6, StoreSessionsWithin
<1> QED BY <1>3, <1>4 DEF HandleLogin, NoEffect

\* A lock closes a segment now, an unlock opens one.
LEMMA LockWithin ==
    ASSUME Inv, NEW tr \in [UserNames -> Nat], Within(users, now, tr),
           NEW u \in UserNames, NEW id \in Ids, HandleLock(u, id) \/ HandleUnlock(u, id)
    PROVE  Within(users', now, tr)
<1>1. ASSUME NEW s \in Found(u, id), NEW r \in {AddSegment(s, now), EndSegment(s, now)},
             StoreSessions(u, Replace(SessionsOf(u), s, r))
      PROVE  Within(users', now, tr)
  <2> DEFINE R == Replace(SessionsOf(u), s, r)
  <2>1. /\ users[u] # Missing /\ GoodSet(SessionsOf(u), now) /\ now \in Times
        /\ s \in SessionsOf(u) /\ s \in Session /\ Good(s, now)
    BY FoundGood
  <2>2. IsFiniteSet(SessionsOf(u))
    BY <2>1 DEF Within, SessionsOf
  <2>3. /\ r \in Session /\ Good(r, now) /\ Duration(r, now) = Duration(s, now)
        /\ r.id = s.id /\ r.end = s.end
    <3>1. CASE r = AddSegment(s, now)
      BY <2>1, <3>1, AddSegmentType, AddSegmentGood, AddSegmentTime DEF AddSegment, Session
    <3>2. CASE r = EndSegment(s, now)
      BY <2>1, <3>2, EndSegmentType, EndSegmentGood, EndSegmentTime
    <3> QED BY <3>1, <3>2
  <2>4. GoodSet(R, now)
    BY <2>1, <2>3, ReplaceGood
  <2>5. IsFiniteSet(R) /\ Spent(R, now) <= Spent(SessionsOf(u), now)
    BY <2>1, <2>2, <2>3, OperationsSpent
  <2> HIDE DEF R
  <2> QED BY <1>1, <2>1, <2>4, <2>5, StoreSessionsWithin DEF R
<1> QED BY <1>1 DEF HandleLock, HandleUnlock, NoEffect

\* A logout ends a session now.
LEMMA LogoutWithin ==
    ASSUME Inv, NEW tr \in [UserNames -> Nat], Within(users, now, tr),
           NEW id \in Ids, HandleLogout(id)
    PROVE  Within(users', now, tr)
<1>1. ASSUME NEW u \in GetUserBySession(id),
             StoreSessions(u, EndSession(SessionsOf(u), id, now))
      PROVE  Within(users', now, tr)
  <2> DEFINE R == EndSession(SessionsOf(u), id, now)
  <2>1. u \in UserNames /\ users[u] # Missing
    BY DEF GetUserBySession, ActiveOwners, Owners
  <2>2. GoodSet(SessionsOf(u), now) /\ now \in Times /\ IsFiniteSet(SessionsOf(u))
    BY <2>1 DEF Inv, TypeOK, GoodUsers, SessionsOf, Within
  <2>3. GoodSet(R, now) /\ IsFiniteSet(R) /\ Spent(R, now) <= Spent(SessionsOf(u), now)
    BY <2>2, EndSessionGood, OperationsSpent
  <2> HIDE DEF R
  <2> QED BY <1>1, <2>1, <2>3, StoreSessionsWithin DEF R
<1> QED BY <1>1 DEF HandleLogout, NoEffect

\* A sleep closes segments now.
LEMMA SleepWithin ==
    ASSUME Inv, NEW tr \in [UserNames -> Nat], Within(users, now, tr), HandleSleep
    PROVE  Within(users', now, tr)
<1> SUFFICES ASSUME NEW u \in UserNames, users'[u] # Missing
             PROVE  /\ IsFiniteSet(users'[u].sessions)
                    /\ Spent(users'[u].sessions, now) <= tr[u]
  BY DEF Within
<1>1. users[u] # Missing /\ users'[u] = [users[u] EXCEPT !.sessions = EndAllSegments(@, now)]
  BY DEF HandleSleep
<1> DEFINE S == users[u].sessions
           R == EndAllSegments(S, now)
<1>2. /\ users[u] \in User /\ GoodSet(S, now) /\ now \in Times /\ now \in Nat
      /\ IsFiniteSet(S) /\ Spent(S, now) <= tr[u] /\ tr[u] \in Nat
  BY <1>1, UserMapElement DEF GoodUsers, Inv, TypeOK, Within, Times
<1>3. users'[u].sessions = R
  BY <1>1, <1>2 DEF User
<1> HIDE DEF S
<1>4. GoodSet(R, now) /\ IsFiniteSet(R) /\ Spent(R, now) <= Spent(S, now)
  BY <1>2, EndAllSegmentsGood, OperationsSpent
<1> HIDE DEF R
<1>5. Spent(R, now) \in Nat /\ Spent(S, now) \in Nat
  BY <1>2, <1>4, SpentType
<1> QED BY <1>2, <1>3, <1>4, <1>5

\* A start after the machine was down ends what the file has open, at a time
\* the file vouches for, and keeps what began today.
LEMMA StartWithin ==
    ASSUME BootInv, NewManager, Closed(SavedUsers), NEW tr \in [UserNames -> Nat],
           disk # Missing => Within(disk.users, disk.mtime, tr)
    PROVE  Within(users', now, tr)
<1>1. CASE users' = NoUsers
  BY <1>1 DEF Within, NoUsers
<1>2. CASE disk # Missing /\ users' = StartUpChecks(disk.users, disk.mtime)
  <2> DEFINE us == disk.users
             t == disk.mtime
  <2>1. /\ us \in UserMap /\ t \in Times /\ GoodUsers(us, t) /\ t < since
        /\ now \in Nat /\ since \in Nat /\ Closed(us) /\ Within(us, t, tr)
    BY <1>2, FileElement DEF BootInv, Inv, TypeOK, NewManager, Times, SavedUsers
  <2>2. SystemWasDown(t)
    BY <2>1 DEF SystemWasDown, Times
  <2>3. users' = [u \in UserNames |->
            IF us[u] = Missing THEN Missing
            ELSE [us[u] EXCEPT !.sessions = RemoveOldSessions(EndActive(@, t), now)]]
    BY <1>2, <2>2 DEF StartUpChecks
  <2> HIDE DEF us, t
  <2> SUFFICES ASSUME NEW u \in UserNames, users'[u] # Missing
               PROVE  /\ IsFiniteSet(users'[u].sessions)
                      /\ Spent(users'[u].sessions, now) <= tr[u]
    BY DEF Within
  <2> DEFINE S == us[u].sessions
             E == EndActive(S, t)
             R == RemoveOldSessions(E, now)
  <2>4. us[u] # Missing /\ us[u] \in User
    BY <2>1, <2>3, UserMapElement
  <2>5. /\ GoodSet(S, t) /\ ClosedSet(S) /\ IsFiniteSet(S) /\ Spent(S, t) <= tr[u]
        /\ tr[u] \in Nat /\ t \in Nat
    BY <2>1, <2>4 DEF GoodUsers, Closed, Within, Times
  <2>6. users'[u].sessions = R
    BY <2>3, <2>4 DEF User
  <2> HIDE DEF S
  <2>7. GoodSet(E, t) /\ IsFiniteSet(E) /\ Spent(E, t) <= Spent(S, t)
    BY <2>1, <2>5, EndActiveGood, OperationsSpent
  <2>8. \A s \in E : IsIdle(s)
    <3>1. ASSUME NEW s \in S, IsActive(s) PROVE IsIdle(End(s, t))
      <4>1. s \in Session /\ Good(s, t)
        BY <2>5 DEF GoodSet
      <4>2. Good(End(s, t), t) /\ ~ SegIsActive(Last(End(s, t).segs))
        BY <2>1, <4>1, EndGood, EndingCloses DEF Good
      <4> QED BY <4>2 DEF IsIdle, Good, Chained
    <3>2. ASSUME NEW s \in S, ~ IsActive(s) PROVE IsIdle(s)
      BY <2>5, <3>2 DEF ClosedSet, GoodSet, Good, Chained, IsIdle
    <3> QED BY <3>1, <3>2 DEF EndActive
  <2>9. R \in SUBSET E
    BY DEF RemoveOldSessions
  <2> HIDE DEF R, E
  <2>10. GoodSet(R, t) /\ IsFiniteSet(R) /\ Spent(R, t) <= Spent(E, t)
    BY <2>5, <2>7, <2>9, GoodSubset, SubsetSpent
  <2>11. Spent(R, now) = Spent(R, t)
    BY <2>1, <2>5, <2>8, <2>9, <2>10, IdleSpent
  <2>12. Spent(R, t) \in Nat /\ Spent(E, t) \in Nat /\ Spent(S, t) \in Nat
    BY <2>5, <2>7, <2>10, SpentType
  <2> QED BY <2>5, <2>6, <2>7, <2>10, <2>11, <2>12
<1> QED BY <1>1, <1>2 DEF NewManager

-----------------------------------------------------------------------------
(* No session is charged while the machine sleeps, if the sleep waits for  *)
(* its signal to be handled and no one resumes a session before it.        *)

SleepSig == [name |-> "Sleep"]
Resuming == {New(id) : id \in Ids} \union {UnlockOf(id) : id \in Ids}

NoneCharged == \A u \in UserNames, id \in Ids : StatusIn(users, u, id) # "running"

\* An announced sleep is still to be handled, or has suspended every session.
AtRest ==
    running =>
        /\ sleep = "preparing" =>
             Sent(SleepSig, Resuming) \/ (Unsent(Resuming) /\ NoneCharged)
        /\ sleep = "asleep" => NoneCharged

\* What is charged after a step, by the records after it.
LEMMA ChargedPrimed ==
    /\ NoneCharged' <=> \A u \in UserNames, id \in Ids : StatusIn(users', u, id) # "running"
    /\ UNCHANGED users => (NoneCharged' <=> NoneCharged)
BY DEF NoneCharged

\* The watcher charges no session that it is not told to resume.
LEMMA WatchRests ==
    ASSUME Inv, TrackTypes, Watch,
           Head(chan) = SleepSig \/ (NoneCharged /\ Head(chan) \notin Resuming)
    PROVE  NoneCharged'
<1> SUFFICES ASSUME NEW u \in UserNames, NEW id \in Ids
             PROVE  StatusIn(users', u, id) # "running"
  BY ChargedPrimed
<1>1. CASE Head(chan) = SleepSig
  <2>1. \A k \in Ids : SleepSig \notin {New(k), Gone(k), LockOf(k), UnlockOf(k)}
    BY DEF SleepSig, New, Gone, LockOf, UnlockOf
  <2>2. SleepSig # [name |-> "Wake"]
    BY DEF SleepSig
  <2>3. HandleSleep
    BY <1>1, <2>1, <2>2, WatchHandles
  <2> QED BY <2>3, SleepEffect
<1>2. CASE NoneCharged /\ Head(chan) \notin Resuming
  <2>1. StatusIn(users, u, id) # "running"
    BY <1>2 DEF NoneCharged
  <2>2. CASE HandleSleep
    BY <2>2, SleepEffect
  <2>3. CASE UNCHANGED managerVars
    BY <2>1, <2>3 DEF managerVars, vars
  <2>4. ASSUME NEW k \in Ids, HandleLogout(k) PROVE StatusIn(users', u, id) # "running"
    BY <2>1, <2>4, LogoutEffect
  <2>5. ASSUME NEW k \in Ids, UserOf(k) \in UserNames, HandleLock(UserOf(k), k)
        PROVE  StatusIn(users', u, id) # "running"
    <3>1. \A v \in UserNames, j \in Ids : StatusIn(users', v, j) =
              IF v = UserOf(k) /\ j = k /\ StatusIn(users, UserOf(k), k) # "closed" THEN "idle"
              ELSE StatusIn(users, v, j)
      BY <2>5, LockEffect
    <3> QED BY <2>1, <3>1
  <2>6. \A k \in Ids : Head(chan) \notin {New(k), UnlockOf(k)}
    BY <1>2 DEF Resuming
  <2> QED BY <2>2, <2>3, <2>4, <2>5, <2>6, WatchHandles
<1> QED BY <1>1, <1>2

\* Neither logind nor the watcher charges a session after the sleep's signal.
LEMMA RestStep ==
    ASSUME InOrder, QuietSleep, SleepWaits, Inv, TrackTypes, AtRest, running, running',
           [TrackingNext]_allVars
    PROVE  AtRest'
<1> DEFINE calm == Sent(SleepSig, Resuming)
           quit == Unsent(Resuming)
<1>1. AtRest' <=> /\ sleep' = "preparing" => calm' \/ (quit' /\ NoneCharged')
                  /\ sleep' = "asleep" => NoneCharged'
  BY DEF AtRest
<1>2. /\ sleep = "preparing" => calm \/ (quit /\ NoneCharged)
      /\ sleep = "asleep" => NoneCharged
  BY DEF AtRest
<1>3. ASSUME UNCHANGED users, UNCHANGED sleep, sleep # "asleep",
             NEW sig, sig \notin Resuming, Emit(sig)
      PROVE  AtRest'
  <2>1. (calm => calm') /\ (quit => quit')
    BY <1>3, EmitInOrder, AppendSent
  <2> QED BY <1>1, <1>2, <1>3, <2>1, ChargedPrimed
<1>4. CASE \E id \in Ids : UnlockSession(id) \/ \E u \in UserNames : SessionNew(id, u)
  BY <1>1, <1>4 DEF UnlockSession, SessionNew, Welcome, Awake
<1>5. ASSUME NEW id \in Ids, SessionRemoved(id) PROVE AtRest'
  <2>1. UNCHANGED users /\ UNCHANGED sleep /\ sleep # "asleep" /\ Emit(Gone(id))
    BY <1>5 DEF SessionRemoved, Awake, Gone, managerVars, vars
  <2>2. Gone(id) \notin Resuming
    BY DEF Gone, Resuming, New, UnlockOf
  <2> QED BY <1>3, <2>1, <2>2
<1>6. ASSUME NEW id \in Ids, LockSession(id) PROVE AtRest'
  <2>1. UNCHANGED users /\ UNCHANGED sleep /\ sleep # "asleep" /\ Emit(LockOf(id))
    BY <1>6 DEF LockSession, Awake, LockOf, managerVars, vars
  <2>2. LockOf(id) \notin Resuming
    BY DEF LockOf, Resuming, New, UnlockOf
  <2> QED BY <1>3, <2>1, <2>2
<1>7. CASE PrepareForSleep
  <2>1. sleep' = "preparing" /\ Emit(SleepSig)
    BY <1>7 DEF PrepareForSleep, SleepSig
  <2>2. SleepSig \notin Resuming
    BY DEF SleepSig, Resuming, New, UnlockOf
  <2>3. calm'
    BY <2>1, <2>2, EmitInOrder, AppendSent
  <2> QED BY <1>1, <2>1, <2>3
<1>8. CASE FallAsleep
  <2>1. sleep = "preparing" /\ chan = <<>> /\ UNCHANGED users
    BY <1>8 DEF FallAsleep, Quiet, managerVars, vars
  <2>2. ~ calm
    BY <2>1 DEF Sent
  <2> QED BY <1>1, <1>2, <1>8, <2>1, <2>2, ChargedPrimed DEF FallAsleep
<1>9. CASE WakeUp
  BY <1>1, <1>9 DEF WakeUp
<1>10. CASE Watch
  <2>1. chan # <<>> /\ chan' = Tail(chan) /\ UNCHANGED sleep /\ sleep # "asleep"
    BY <1>10 DEF Watch, Awake, logindVars
  <2>2. /\ calm => calm' \/ (Head(chan) = SleepSig /\ quit')
        /\ quit => quit' /\ Head(chan) \notin Resuming
    BY <2>1, TailSent
  <2> QED BY <1>1, <1>2, <1>10, <2>1, <2>2, WatchRests
<1>11. CASE (Heartbeat /\ UNCHANGED trackVars) \/ TimePasses \/ UNCHANGED allVars
  <2>1. UNCHANGED <<users, chan, sleep>>
    BY <1>11 DEF Heartbeat, TimePasses, Tick, allVars, managerVars, vars, machineVars,
       trackVars, logindVars, signalVars
  <2>2. calm' = calm /\ quit' = quit
    BY <2>1 DEF Sent, Unsent, Range
  <2> QED BY <1>1, <1>2, <2>1, <2>2, ChargedPrimed
<1>12. CASE DeferredDeliver \/ \E id \in Ids : ReEmitSessionNew(id)
  <2>1. waiting = <<>>
    BY DEF InOrder, TrackTypes
  <2>2. \A i : i \notin DOMAIN waiting
    BY <2>1
  <2> QED BY <1>12, <2>2 DEF DeferredDeliver, ReEmitSessionNew, InOrder
<1>13. CASE DaemonStarts \/ DaemonDies \/ PowerFails \/ Boot
  BY <1>13 DEF DaemonStarts, NewManager, DaemonDies, DaemonStop, PowerFails, PowerOff, Forget,
     Boot, Inv, TypeOK
<1> QED BY <1>4, <1>5, <1>6, <1>7, <1>8, <1>9, <1>10, <1>11, <1>12, <1>13 DEF TrackingNext

\* A daemon that starts finds no session and no signal, on any boot.
LEMMA RestAlways ==
    ASSUME MaxStops = 0, PamGuards, MaxWaiting = 0, ~ ReEmits, QuietSleep, SleepWaits
    PROVE  TrackingSpec => []AtRest
<1>1. TrackingInit => AtRest
  BY DEF TrackingInit, Init, AtRest
<1>2. ASSUME BootInv, TrackTypes, SyncOneRun, AtRest, [TrackingNext]_allVars
      PROVE  AtRest'
  <2>1. Inv /\ InOrder /\ Announced /\ running \in BOOLEAN
    BY <1>2 DEF BootInv, InOrder, Announced, OneRun, Inv, TypeOK
  <2>2. CASE running /\ running'
    BY <1>2, <2>1, <2>2, RestStep
  <2>3. CASE ~ running'
    BY <2>3 DEF AtRest
  <2>4. CASE ~ running /\ running'
    <3>1. DaemonStarts /\ chan = <<>>
      BY <1>2, <2>1, <2>4, StartsOrEnds DEF SyncOneRun, Empty, Quiet
    <3>2. Unsent(Resuming)'
      BY <3>1 DEF DaemonStarts, trackVars, signalVars, Unsent, Range
    <3>3. \A u \in UserNames, id \in Ids : StatusIn(users', u, id) = "closed"
      BY <1>2, <3>1, StartBegun DEF DaemonStarts, StatusIn, Active, WithId
    <3>4. NoneCharged'
      BY <3>3, ChargedPrimed
    <3> QED BY <3>2, <3>4 DEF AtRest
  <2> QED BY <2>1, <2>2, <2>3, <2>4
<1> QED BY <1>1, <1>2, BootInvariance, SyncOneRunAlways, TrackingTypes, TrackingIsManager, PTL
        DEF TrackingSpec

-----------------------------------------------------------------------------
(* No user is charged for more than the time counted.                      *)

\* The records with an open segment are of the sessions that are charged.
LEMMA ChargedRecords ==
    ASSUME Inv, Closed(users), NEW u \in UserNames, users[u] # Missing,
           NEW s \in SessionsOf(u), ~ IsIdle(s)
    PROVE  s.id \in Ids /\ IsActive(s) /\ StatusIn(users, u, s.id) = "running"
<1>1. s \in Session /\ Chained(s) /\ GoodSet(SessionsOf(u), now) /\ ClosedSet(SessionsOf(u))
  BY DEF Inv, GoodUsers, GoodSet, Good, SessionsOf, Closed
<1>2. IsActive(s)
  BY <1>1 DEF ClosedSet, IsIdle, Chained
<1>3. Active(WithId(SessionsOf(u), s.id)) = {s}
  BY <1>1, <1>2, OneActive
<1> QED BY <1>1, <1>2, <1>3 DEF StatusIn, SessionsOf, Session

\* They are no more than the user has unlocked sessions, with every signal handled.
LEMMA ChargedUnlocked ==
    ASSUME Inv, TrackTypes, Closed(users), IsFiniteSet(Ids), running, Quiet, Agrees, Suspended,
           NEW u \in UserNames, users[u] # Missing
    PROVE  Cardinality({s \in SessionsOf(u) : ~ IsIdle(s)}) <= Cardinality(Unlocked(u))
<1> DEFINE C == {s \in SessionsOf(u) : ~ IsIdle(s)}
           f == [s \in C |-> s.id]
           U == Unlocked(u)
<1>1. ASSUME NEW s \in C PROVE s.id \in U
  <2>1. s.id \in Ids /\ StatusIn(users, u, s.id) = "running"
    BY ChargedRecords
  <2>2. logind[s.id] # Missing /\ logind[s.id].user = u
    BY <2>1, AgreesInStep DEF Open
  <2>3. ~ IsLocked(s.id)
    BY <2>1, <2>2, QuietSuspended DEF KnownUsers, UserOf
  <2> QED BY <2>1, <2>2, <2>3 DEF Unlocked, IsLocked
<1>2. ASSUME NEW s \in C, NEW r \in C, s.id = r.id PROVE s = r
  <2>1. IsActive(s) /\ IsActive(r)
    BY ChargedRecords
  <2> QED BY <1>2, <2>1 DEF Inv, GoodUsers, GoodSet, SessionsOf, Active
<1>3. f \in Injection(C, U)
  BY <1>1, <1>2 DEF Injection, IsInjective
<1>4. IsFiniteSet(U)
  BY FS_Subset DEF Unlocked
<1> HIDE DEF C, f, U
<1> QED BY <1>3, <1>4, FS_Injection DEF C, U

\* More time counted, and no record changed.
LEMMA WithinLater ==
    ASSUME NEW us, NEW t \in Nat, GoodUsers(us, t), NEW tr \in [UserNames -> Nat],
           NEW tr2 \in [UserNames -> Nat], \A u \in UserNames : tr[u] <= tr2[u],
           Within(us, t, tr)
    PROVE  Within(us, t, tr2)
<1> SUFFICES ASSUME NEW u \in UserNames, us[u] # Missing
             PROVE  IsFiniteSet(us[u].sessions) /\ Spent(us[u].sessions, t) <= tr2[u]
  BY DEF Within
<1>1. IsFiniteSet(us[u].sessions) /\ Spent(us[u].sessions, t) <= tr[u]
  BY DEF Within
<1>2. Spent(us[u].sessions, t) \in Nat
  BY <1>1, SpentType DEF GoodUsers
<1> QED BY <1>1, <1>2

\* As time passes, what is charged grows by no more than what is counted.
LEMMA TickWithin ==
    ASSUME Inv, TrackTypes, Closed(users), IsFiniteSet(Ids), Prompt, Agrees, Suspended, AtRest,
           running, truth \in [UserNames -> Nat], Within(users, now, truth), TimePasses
    PROVE  Within(users', now', truth')
<1>1. /\ users' = users /\ now' = now + 1 /\ now \in Nat /\ powered
      /\ truth' = [u \in UserNames |->
                     truth[u] + (IF Awake THEN Cardinality(Unlocked(u)) ELSE 0)]
  BY DEF TimePasses, Tick, Inv, TypeOK, Times
<1> SUFFICES ASSUME NEW u \in UserNames, users[u] # Missing
             PROVE  /\ IsFiniteSet(users[u].sessions)
                    /\ Spent(users[u].sessions, now + 1) <= truth'[u]
  BY <1>1 DEF Within
<1> DEFINE S == SessionsOf(u)
           C == {s \in S : ~ IsIdle(s)}
           n == IF Awake THEN Cardinality(Unlocked(u)) ELSE 0
<1>2. /\ GoodSet(S, now) /\ IsFiniteSet(S) /\ Spent(S, now) <= truth[u]
      /\ S = users[u].sessions
  BY DEF Inv, GoodUsers, Within, SessionsOf
<1>3. Cardinality(C) \in Nat /\ Cardinality(C) <= n /\ n \in Nat
  <2>1. IsFiniteSet(C)
    BY <1>2, FS_Subset
  <2>2. Cardinality(C) \in Nat
    BY <2>1, FS_CardinalityType
  <2>3. CASE Awake
    <3>1. Quiet
      BY <2>3 DEF TimePasses
    <3>2. Cardinality(C) <= Cardinality(Unlocked(u))
      BY <3>1, ChargedUnlocked
    <3>3. Cardinality(Unlocked(u)) \in Nat
      BY FS_Subset, FS_CardinalityType DEF Unlocked
    <3> QED BY <2>2, <2>3, <3>2, <3>3
  <2>4. CASE ~ Awake
    <3>1. NoneCharged
      BY <1>1, <2>4 DEF AtRest, Awake
    <3>2. C = {}
      BY <3>1, ChargedRecords DEF NoneCharged
    <3>3. Cardinality(C) = 0
      BY <3>2, FS_EmptySet
    <3> QED BY <2>4, <3>3
  <2> QED BY <2>3, <2>4
<1>4. Spent(S, now + 1) = Spent(S, now) + Cardinality(C) /\ Spent(S, now) \in Nat
  BY <1>1, <1>2, TickSpent, SpentType
<1>5. truth'[u] = truth[u] + n /\ truth[u] \in Nat
  BY <1>1
<1> HIDE DEF S, C, n
<1>6. Spent(S, now + 1) <= truth'[u]
  BY <1>2, <1>3, <1>4, <1>5
<1> QED BY <1>2, <1>6

\* The time counted covers what memory charges now, and what the file will
\* charge after the first outage.  Before it the file has what memory has, so
\* the time it vouches for is in what memory was charged for; after the start
\* that follows, heartbeats touch a file that still has the records open.
SpendInv ==
    /\ truth \in [UserNames -> Nat]
    /\ Within(users, now, truth)
    /\ outages <= 1
    /\ (outages = 0 \/ ~ running) /\ disk # Missing => Within(disk.users, disk.mtime, truth)
    /\ outages = 0 => IF running THEN users = SavedUsers ELSE disk = Missing

\* No charge is taken for granted that a handler's save does not keep.
LEMMA WatchSpends ==
    ASSUME Inv, Inv', TrackTypes, ~ SaveMayFail, SpendInv, Watch
    PROVE  SpendInv'
<1>1. /\ UNCHANGED <<now, outages, running, truth>> /\ running
      /\ now \in Times
  BY WatchKeeps DEF Watch, machineVars, Inv, TypeOK
<1>2. Within(users', now, truth)
  BY WatchHandles, LoginWithin, LogoutWithin, LockWithin, SleepWithin
     DEF SpendInv, managerVars, vars
<1>3. \/ disk' = [users |-> users', mtime |-> now]
      \/ UNCHANGED <<users, disk>>
  BY WatchHandles, HandlersSave DEF Save, NoEffect, managerVars, vars
<1>4. CASE disk' = [users |-> users', mtime |-> now]
  <2>1. disk' \in File /\ disk'.users = users' /\ disk'.mtime = now
    BY <1>1, <1>4 DEF File, Inv, TypeOK
  <2>2. disk' # Missing
    BY <2>1, MissingFileAssumption
  <2>3. Within(disk.users, disk.mtime, truth)'
    BY <1>1, <1>2, <2>1
  <2>4. users' = SavedUsers'
    BY <2>1, <2>2 DEF SavedUsers
  <2> QED BY <1>1, <1>2, <2>3, <2>4 DEF SpendInv
<1>5. CASE UNCHANGED <<users, disk>>
  BY <1>1, <1>2, <1>5 DEF SpendInv, SavedUsers
<1> QED BY <1>3, <1>4, <1>5

\* A heartbeat vouches for the time up to now.
LEMMA HeartbeatSpends ==
    ASSUME Inv, SpendInv, Heartbeat, UNCHANGED truth
    PROVE  SpendInv'
<1>1. UNCHANGED <<now, outages, running, users, truth>> /\ running /\ now \in Times
  BY DEF Heartbeat, machineVars, Inv, TypeOK
<1>2. Within(users, now, truth)'
  BY <1>1 DEF SpendInv
<1>3. CASE disk # Missing /\ disk' = [disk EXCEPT !.mtime = now]
  <2>1. disk' \in File /\ disk'.users = disk.users /\ disk'.mtime = now
    BY <1>1, <1>3, FileElement DEF File, Inv
  <2>2. disk' # Missing
    BY <2>1, MissingFileAssumption
  <2>3. SavedUsers' = SavedUsers
    BY <1>3, <2>1, <2>2 DEF SavedUsers
  <2>4. outages = 0 => Within(disk.users, disk.mtime, truth)'
    BY <1>1, <1>2, <1>3, <2>1 DEF SpendInv, SavedUsers
  <2> QED BY <1>1, <1>2, <2>3, <2>4 DEF SpendInv
<1>4. CASE UNCHANGED disk
  BY <1>1, <1>2, <1>4 DEF SpendInv, SavedUsers
<1> QED BY <1>3, <1>4 DEF Heartbeat

\* A start without a file makes an empty one; a start with a file follows an
\* outage.
LEMMA StartSpends ==
    ASSUME BootInv, Closed(SavedUsers), SpendInv, DaemonStarts
    PROVE  SpendInv'
<1>1. /\ UNCHANGED <<now, outages, truth>> /\ NewManager /\ running' /\ ~ running
      /\ now \in Times
  BY DEF DaemonStarts, NewManager, machineVars, trackVars, BootInv, Inv, TypeOK
<1>2. Within(users', now, truth)
  BY <1>1, StartWithin DEF SpendInv
<1>3. CASE disk = Missing /\ users' = NoUsers /\ disk' = [users |-> NoUsers, mtime |-> now]
  <2>1. disk' \in File /\ disk'.users = users' /\ disk'.mtime = now
    BY <1>1, <1>3, NoUsersGood DEF File
  <2>2. disk' # Missing
    BY <2>1, MissingFileAssumption
  <2>3. Within(disk.users, disk.mtime, truth)'
    BY <1>1, <1>2, <2>1
  <2>4. users' = SavedUsers'
    BY <2>1, <2>2 DEF SavedUsers
  <2> QED BY <1>1, <1>2, <2>3, <2>4 DEF SpendInv
<1>4. CASE disk # Missing
  BY <1>1, <1>2, <1>4 DEF SpendInv
<1> QED BY <1>1, <1>3, <1>4 DEF NewManager

\* What the file has when the power fails was charged for before.
LEMMA OutageSpends ==
    ASSUME MaxOutages <= 1, Inv, SpendInv, PowerFails
    PROVE  SpendInv'
<1>1. /\ outages = 0 /\ outages' = 1 /\ users' = NoUsers /\ ~ running'
      /\ UNCHANGED <<disk, truth>>
  BY BoundsAssumption DEF PowerFails, PowerOff, Forget, Inv, TypeOK
<1>2. Within(users', now', truth')
  BY <1>1 DEF Within, NoUsers
<1> QED BY <1>1, <1>2 DEF SpendInv

\* Time that passes is counted as far as it is charged.
LEMMA TimeSpends ==
    ASSUME BootInv, TrackTypes, Closed(users), IsFiniteSet(Ids), Prompt,
           running => Agrees /\ Suspended /\ AtRest, SpendInv, TimePasses
    PROVE  SpendInv'
<1>1. UNCHANGED <<outages, running, users, disk>> /\ Inv
  BY DEF TimePasses, Tick, BootInv
<1>2. truth' \in [UserNames -> Nat] /\ \A u \in UserNames : truth[u] <= truth'[u]
  <2>1. \A u \in UserNames : Cardinality(Unlocked(u)) \in Nat
    BY FS_Subset, FS_CardinalityType DEF Unlocked
  <2> QED BY <2>1 DEF TimePasses, SpendInv
<1>3. Within(users', now', truth')
  <2>1. CASE running
    BY <1>1, <2>1, TickWithin DEF SpendInv
  <2>2. CASE ~ running
    BY <1>1, <2>2 DEF BootInv, Within, NoUsers
  <2> QED BY <2>1, <2>2
<1>4. ASSUME disk # Missing, Within(disk.users, disk.mtime, truth)
      PROVE  Within(disk.users, disk.mtime, truth')
  <2>1. disk.mtime \in Nat /\ GoodUsers(disk.users, disk.mtime)
    BY <1>1, <1>4, FileElement DEF Inv, Times
  <2> QED BY <1>2, <1>4, <2>1, WithinLater DEF SpendInv
<1> QED BY <1>1, <1>2, <1>3, <1>4 DEF SpendInv, SavedUsers

\* No step charges a user for time that is not counted.
LEMMA SpendStep ==
    ASSUME OneRun, MaxOutages <= 1, ~ SaveMayFail, Prompt, IsFiniteSet(Ids),
           BootInv, BootInv', TrackTypes, Closed(users), Closed(SavedUsers),
           running => Agrees /\ Suspended /\ AtRest, SpendInv, [TrackingNext]_allVars
    PROVE  SpendInv'
<1>1. Inv /\ Inv'
  BY DEF BootInv
<1>2. CASE Watch
  BY <1>1, <1>2, WatchSpends
<1>3. CASE Heartbeat /\ UNCHANGED trackVars
  BY <1>1, <1>3, HeartbeatSpends DEF trackVars
<1>4. CASE DaemonStarts
  BY <1>4, StartSpends
<1>5. ~ DaemonDies
  BY <1>1 DEF DaemonDies, DaemonStop, OneRun, Inv, TypeOK
<1>6. CASE PowerFails
  BY <1>1, <1>6, OutageSpends
<1>7. CASE TimePasses
  BY <1>7, TimeSpends
<1>8. ASSUME UNCHANGED <<now, outages, running, users, disk, truth>> PROVE SpendInv'
  BY <1>8 DEF SpendInv, SavedUsers
<1>9. CASE \/ \E id \in Ids :
                \/ \E u \in UserNames : SessionNew(id, u)
                \/ SessionRemoved(id) \/ LockSession(id) \/ UnlockSession(id)
                \/ ReEmitSessionNew(id)
           \/ PrepareForSleep \/ FallAsleep \/ WakeUp \/ DeferredDeliver
           \/ Boot /\ UNCHANGED trackVars
           \/ UNCHANGED allVars
  BY <1>8, <1>9 DEF SessionNew, SessionRemoved, LockSession, UnlockSession, ReEmitSessionNew,
     PrepareForSleep, FallAsleep, WakeUp, DeferredDeliver, Boot, allVars, managerVars, vars,
     machineVars, trackVars
<1> QED BY <1>2, <1>3, <1>4, <1>5, <1>6, <1>7, <1>9 DEF TrackingNext

\* A user is charged for no more than the time there were unlocked sessions on
\* a machine on and awake, over sleep, locks, an outage and session IDs that
\* come back, for any number of users and sessions.
THEOREM NeverOverchargedAlways ==
    ASSUME MaxStops = 0, PamGuards, MaxWaiting = 0, ~ ReEmits, Prompt, SleepWaits, QuietSleep,
           ~ SaveMayFail, MaxOutages <= 1, IsFiniteSet(Ids)
    PROVE  TrackingSpec => []NeverOvercharged
<1>1. TrackingInit => SpendInv
  BY DEF TrackingInit, Init, SpendInv, Within, NoUsers
<1>2. ASSUME BootInv, BootInv', TrackTypes, SyncOneRun, Announced => Suspended, OrderInv, AtRest,
             SpendInv, [TrackingNext]_allVars
      PROVE  SpendInv'
  <2>1. OneRun /\ Announced
    BY DEF Announced, OneRun
  <2> QED BY <1>2, <2>1, SpendStep DEF SyncOneRun, OrderInv
<1>3. Inv /\ SpendInv => NeverOvercharged
  <2> SUFFICES ASSUME Inv, SpendInv, NEW u \in UserNames, users[u] # Missing
               PROVE  Charged(u) <= truth[u]
    BY DEF NeverOvercharged
  <2>1. SessionsOf(u) \in SUBSET Session /\ now \in Nat /\ IsFiniteSet(SessionsOf(u))
        /\ Spent(SessionsOf(u), now) <= truth[u]
    BY UserMapElement DEF Inv, TypeOK, SessionsOf, Times, SpendInv, Within
  <2> QED BY <2>1, ChargedIsSpent
<1> QED BY <1>1, <1>2, <1>3, BootInvariance, SyncOneRunAlways, SuspendedOneRun, OrderAlways,
        RestAlways, Invariance, TrackingTypes, TrackingIsManager, PTL DEF TrackingSpec
=============================================================================
