-------------------------- MODULE DailyLimit_proofs --------------------------
(***************************************************************************)
(* Proofs about DailyLimit, for every finite set of session IDs, any       *)
(* configuration, any overrides, any day length and any bounds.            *)
(***************************************************************************)
EXTENDS DailyLimit, StateManager_proofs, FiniteSetTheorems

-----------------------------------------------------------------------------
(* The records.  An override is the one step here that StateManager does   *)
(* not have; the others keep its invariant by its own lemmas.              *)

\* An override is added to a record that is well typed, or to a fresh one.
LEMMA AddOverrideInv ==
    ASSUME Inv, NEW u \in UserNames, NEW o \in Overrides, AddOverride(u, o)
    PROVE  Inv'
<1> DEFINE usr == IF Known(u) THEN users[u] ELSE FreshUser
           new == [usr EXCEPT !.overrides = Append(usr.overrides, o)]
<1>1. usr \in User /\ GoodSet(usr.sessions, now)
  <2>1. FreshUser \in User /\ GoodSet(FreshUser.sessions, now)
    BY DEF FreshUser, User, GoodSet, Active, Times, Zero
  <2>2. users[u] # Missing => users[u] \in User /\ GoodSet(users[u].sessions, now)
    BY UserMapElement DEF Inv, TypeOK, GoodUsers
  <2> QED BY <2>1, <2>2 DEF Known
<1>2. new \in User /\ new.sessions = usr.sessions
  <2>1. Append(usr.overrides, o) \in Seq(Overrides)
    BY <1>1 DEF User
  <2> QED BY <1>1, <2>1 DEF User
<1>3. Handler /\ Store(u, new)
  BY DEF AddOverride
<1> QED BY <1>1, <1>2, <1>3, StoreInv

\* What the engine locks is a session of the user's records.
LEMMA ToLockIsRecord ==
    ASSUME Inv, NEW u \in UserNames, NEW s \in ToLock(u)
    PROVE  s \in Session /\ s.id \in Ids /\ screens[s.id] # Missing
<1>1. users[u] # Missing /\ s \in SessionsOf(u) /\ screens[s.id] # Missing
  BY DEF ToLock, Watched, Known, GetActiveSession, Newest, Active
<1> QED BY <1>1, UserMapElement DEF Inv, TypeOK, SessionsOf, Session

-----------------------------------------------------------------------------
(* The screens, the order of the logins and the engine's round.            *)

\* The IDs that have logged in are kept in order and without repetition:
\* Login is offered only to an ID that has not.
LoginOrder ==
    /\ logins \in Seq(Ids) /\ IsInjective(logins)
    /\ \A id \in Ids : screens[id] # Missing => id \in Range(logins)

ScreenTypes ==
    /\ screens \in [Ids -> Screen \union {Missing}]
    /\ todo \subseteq UserNames /\ beaten \in BOOLEAN /\ twofold \subseteq UserNames

LimitInv == Inv /\ ScreenTypes /\ LoginOrder

\* A screen that is shown belongs to a known user.
LEMMA ScreenType ==
    ASSUME ScreenTypes, NEW id \in Ids, screens[id] # Missing
    PROVE  screens[id] \in Screen /\ screens[id].user \in UserNames
BY DEF ScreenTypes, Screen

\* Every step of the limit's model keeps what StateManager's steps keep.
LEMMA RecordsKept ==
    ASSUME Inv, ScreenTypes, [LimitNext]_allVars
    PROVE  Inv'
<1>1. CASE \E id \in Ids, u \in UserNames : Login(u, id)
  BY <1>1, LoginInv DEF Login
<1>2. CASE \E id \in Ids : Logout(id)
  BY <1>2, LogoutInv DEF Logout
<1>3. CASE \E id \in Ids : LockScreen(id)
  BY <1>3, ScreenType, LockInv DEF LockScreen
<1>4. CASE \E id \in Ids : Unlock(id)
  BY <1>4, ScreenType, UnlockInv DEF Unlock
<1>5. CASE \E u \in UserNames : CheckUser(u)
  <2>1. PICK u \in UserNames : CheckUser(u)
    BY <1>5
  <2>2. CASE UNCHANGED vars
    BY <2>2, StutterInv
  <2>3. CASE \E s \in ToLock(u) : HandleLock(u, s.id)
    BY <2>3, ToLockIsRecord, LockInv
  <2> QED BY <2>1, <2>2, <2>3 DEF CheckUser
<1>6. CASE \E u \in UserNames, o \in Overrides : AddOverride(u, o)
  BY <1>6, AddOverrideInv
<1>7. CASE EndRound
  BY <1>7, HeartbeatInv DEF EndRound
<1>8. CASE Start
  BY <1>8, NewManagerInv DEF Start
<1>9. CASE Stop
  BY <1>9, DaemonStopInv DEF Stop
<1>10. CASE Minute
  BY <1>10, TickInv DEF Minute
<1>11. CASE UNCHANGED allVars
  BY <1>11, StutterInv DEF allVars
<1> QED BY <1>1, <1>2, <1>3, <1>4, <1>5, <1>6, <1>7, <1>8, <1>9, <1>10, <1>11 DEF LimitNext

\* A login adds a screen and an ID at the end of the order.
LEMMA LoginOrdered ==
    ASSUME Inv, ScreenTypes, LoginOrder, NEW u \in UserNames, NEW id \in Ids, Login(u, id)
    PROVE  ScreenTypes' /\ LoginOrder'
<1> DEFINE new == [user |-> u, locked |-> FALSE, begun |-> now]
<1>1. new \in Screen
  BY DEF Inv, TypeOK, Screen
<1>2. ScreenTypes'
  BY <1>1 DEF Login, ScreenTypes
<1>3. /\ logins' = Append(logins, id) /\ logins' \in Seq(Ids)
      /\ Len(logins') = Len(logins) + 1 /\ Len(logins) \in Nat
      /\ \A i \in 1 .. Len(logins) : logins'[i] = logins[i]
      /\ logins'[Len(logins) + 1] = id
      /\ DOMAIN logins = 1 .. Len(logins) /\ DOMAIN logins' = 1 .. Len(logins')
  BY DEF Login, LoginOrder
<1>4. \A i \in 1 .. Len(logins) : logins[i] # id
  BY <1>3 DEF Login, Range
<1>5. IsInjective(logins')
  <2> SUFFICES ASSUME NEW i \in 1 .. Len(logins'), NEW j \in 1 .. Len(logins'),
                      logins'[i] = logins'[j]
               PROVE  i = j
    BY <1>3 DEF IsInjective
  <2>1. CASE i \in 1 .. Len(logins) /\ j \in 1 .. Len(logins)
    BY <2>1, <1>3 DEF LoginOrder, IsInjective
  <2>2. CASE i = Len(logins) + 1 \/ j = Len(logins) + 1
    BY <2>2, <1>3, <1>4
  <2> QED BY <2>1, <2>2, <1>3
<1>6. Range(logins) \subseteq Range(logins') /\ id \in Range(logins')
  <2>1. \A i \in DOMAIN logins : i \in DOMAIN logins' /\ logins'[i] = logins[i]
    BY <1>3
  <2>2. Len(logins) + 1 \in DOMAIN logins'
    BY <1>3
  <2> QED BY <2>1, <2>2, <1>3 DEF Range
<1>7. \A x \in Ids : screens'[x] # Missing => x \in Range(logins')
  <2>1. \A x \in Ids : x # id => screens'[x] = screens[x]
    BY DEF Login, ScreenTypes
  <2> QED BY <2>1, <1>6 DEF LoginOrder
<1> QED BY <1>2, <1>3, <1>5, <1>7 DEF LoginOrder

\* Steps that show no screen that was not shown keep the order.
LEMMA FewerScreens ==
    ASSUME LoginOrder, UNCHANGED logins,
           \A id \in Ids : screens'[id] # Missing => screens[id] # Missing
    PROVE  LoginOrder'
BY DEF LoginOrder

\* Locking and unlocking a screen.
LEMMA ScreenSet ==
    ASSUME ScreenTypes, LoginOrder, NEW id \in Ids, screens[id] # Missing, NEW b \in BOOLEAN,
           screens' = [screens EXCEPT ![id].locked = b], UNCHANGED <<logins, beaten, twofold>>,
           todo' \subseteq UserNames
    PROVE  ScreenTypes' /\ LoginOrder'
<1>1. [screens[id] EXCEPT !.locked = b] \in Screen
  BY ScreenType DEF Screen
<1>2. ScreenTypes'
  BY <1>1 DEF ScreenTypes
<1>3. \A x \in Ids : screens'[x] # Missing => screens[x] # Missing
  BY DEF ScreenTypes
<1> QED BY <1>2, <1>3, FewerScreens

LEMMA ScreensKept ==
    ASSUME LimitInv, [LimitNext]_allVars
    PROVE  ScreenTypes' /\ LoginOrder'
<1> USE DEF LimitInv
<1>1. CASE \E id \in Ids, u \in UserNames : Login(u, id)
  BY <1>1, LoginOrdered
<1>2. CASE \E id \in Ids : Logout(id)
  <2>1. ScreenTypes' /\ \A id \in Ids : screens'[id] # Missing => screens[id] # Missing
    BY <1>2 DEF Logout, ScreenTypes, watched
  <2> QED BY <1>2, <2>1, FewerScreens DEF Logout
<1>3. CASE \E id \in Ids : LockScreen(id)
  BY <1>3, ScreenSet DEF LockScreen, watched, ScreenTypes
<1>4. CASE \E id \in Ids : Unlock(id)
  BY <1>4, ScreenSet DEF Unlock, watched, ScreenTypes
<1>5. CASE \E u \in UserNames : CheckUser(u)
  <2>1. PICK u \in UserNames : CheckUser(u)
    BY <1>5
  <2>2. todo' \subseteq UserNames /\ UNCHANGED <<logins, beaten, twofold>>
    BY <2>1 DEF CheckUser, ScreenTypes, watched
  <2>3. CASE UNCHANGED screens
    <3>1. ScreenTypes'
      BY <2>2, <2>3 DEF ScreenTypes
    <3> QED BY <2>2, <2>3, <3>1, FewerScreens
  <2>4. CASE \E s \in ToLock(u) : screens' = [screens EXCEPT ![s.id].locked = TRUE]
    BY <2>2, <2>4, ToLockIsRecord, ScreenSet
  <2> QED BY <2>1, <2>3, <2>4 DEF CheckUser
<1>6. CASE UNCHANGED <<screens, logins>> /\ todo' \subseteq UserNames /\ beaten' \in BOOLEAN
           /\ twofold' \subseteq UserNames
  BY <1>6, FewerScreens DEF ScreenTypes
<1>7. CASE \E u \in UserNames, o \in Overrides : AddOverride(u, o)
  BY <1>6, <1>7 DEF AddOverride, limitVars, watched, ScreenTypes
<1>8. CASE EndRound \/ Start \/ Stop
  BY <1>6, <1>8 DEF EndRound, Start, Stop, watched, ScreenTypes
<1>9. CASE Minute
  BY <1>6, <1>9 DEF Minute, ScreenTypes
<1>10. CASE UNCHANGED allVars
  BY <1>6, <1>10 DEF allVars, limitVars, watched, ScreenTypes
<1> QED BY <1>1, <1>2, <1>3, <1>4, <1>5, <1>7, <1>8, <1>9, <1>10 DEF LimitNext

\* The records, the screens and the order of the logins stay as they should.
THEOREM LimitInvariance == LimitSpec => []LimitInv
<1>1. LimitInit => LimitInv
  <2> SUFFICES ASSUME LimitInit PROVE LimitInv
    OBVIOUS
  <2>1. Inv
    BY InitInv DEF LimitInit
  <2>2. ScreenTypes
    BY DEF LimitInit, ScreenTypes
  <2>3. logins \in Seq(Ids) /\ DOMAIN logins = {}
    BY DEF LimitInit
  <2>4. LoginOrder
    BY <2>3 DEF LimitInit, LoginOrder, IsInjective
  <2> QED BY <2>1, <2>2, <2>4 DEF LimitInv
<1>2. LimitInv /\ [LimitNext]_allVars => LimitInv'
  BY RecordsKept, ScreensKept DEF LimitInv
<1> QED BY <1>1, <1>2, PTL DEF LimitSpec

\* Every reachable state is well typed: no ID logs in twice, and every screen
\* belongs to an ID that has logged in.
THEOREM LimitTypeCorrect ==
    ASSUME IsFiniteSet(Ids)
    PROVE  LimitSpec => []LimitTypeOK
<1> DEFINE Counted == spent \in [UserNames -> Nat] /\ wall \in [UserNames -> Nat]
<1>1. LimitInit => Counted
  BY DEF LimitInit, NoTime
<1>2. Counted /\ [LimitNext]_allVars => Counted'
  <2> SUFFICES ASSUME Counted, [LimitNext]_allVars PROVE Counted'
    OBVIOUS
  <2>1. CASE Minute
    <3>1. \A u \in UserNames : Cardinality({id \in Unlocked(u) : BegunToday(id)}) \in Nat
      BY FS_Subset, FS_CardinalityType DEF Unlocked, ScreensOf
    <3> QED BY <2>1, <3>1 DEF Minute
  <2>2. CASE ~ Minute
    <3>1. UNCHANGED <<spent, wall>>
      BY <2>2 DEF LimitNext, Login, Logout, LockScreen, Unlock, AddOverride, CheckUser,
         EndRound, Start, Stop, allVars, limitVars, watched
    <3> QED BY <3>1
  <2> QED BY <2>1, <2>2
<1>3. LimitInv /\ Counted => LimitTypeOK
  BY DEF LimitInv, Inv, ScreenTypes, LoginOrder, LimitTypeOK, Range
<1> QED BY <1>1, <1>2, <1>3, LimitInvariance, PTL DEF LimitSpec

-----------------------------------------------------------------------------
(* What is charged is what was spent, as long as every save succeeds.  The *)
(* records in memory, or those a start would take from the file, are tied  *)
(* to the screens; a file that a save did not reach would not be.          *)

\* What a start at t makes of the users in the file, unless the machine was down.
Trim(us, t) ==
    [u \in UserNames |->
        IF us[u] = Missing THEN Missing
        ELSE [us[u] EXCEPT !.sessions = RemoveOldSessions(us[u].sessions, t)]]

\* The users in memory, or those the next start will have.
Kept ==
    IF running THEN users
    ELSE IF disk = Missing THEN NoUsers ELSE Trim(disk.users, now)

Recs(u) == IF Kept[u] = Missing THEN {} ELSE Kept[u].sessions
NextOf(u) == IF Kept[u] = Missing THEN 1 ELSE Kept[u].next
OverridesOf(u) == IF Kept[u] = Missing THEN <<>> ELSE Kept[u].overrides

\* A restart would find the same sessions of today.
Saved ==
    /\ since = Zero
    /\ running => disk # Missing /\ Trim(disk.users, now) = Trim(users, now)

\* A record is active exactly as long as its screen is there, and idle
\* exactly while that is locked.
Fits(s, scr, u) ==
    IF IsActive(s)
    THEN /\ scr # Missing /\ scr.user = u /\ scr.begun = s.start
         /\ scr.locked <=> IsIdle(s)
    ELSE IsIdle(s) /\ scr = Missing

Matches(s, u) == Fits(s, screens[s.id], u)

Shown == \A u \in UserNames : \A s \in Recs(u) : s.id \in Range(logins) /\ Matches(s, u)

OnePerId ==
    \A u, v \in UserNames : \A s \in Recs(u), r \in Recs(v) : s.id = r.id => u = v /\ s = r

Numbered ==
    \A u \in UserNames : IsFiniteSet(Recs(u)) /\ \A s \in Recs(u) : s.pos < NextOf(u)

\* The positions of a user's records follow the order of the logins.
Ordered ==
    \A u \in UserNames : \A s, r \in Recs(u) : \A i, j \in DOMAIN logins :
        logins[i] = s.id /\ logins[j] = r.id /\ i < j => s.pos < r.pos

\* So do their first minutes.
Aged == \A u \in UserNames : \A s, r \in Recs(u) : s.pos <= r.pos => s.start <= r.start

\* The screens begun today have their records, and none begins in the future.
Complete ==
    /\ \A u \in UserNames : \A id \in OpenedToday(u) : \E s \in Recs(u) : s.id = id
    /\ \A id \in Ids : screens[id] # Missing => screens[id].begun <= now

Linked == Shown /\ OnePerId /\ Numbered /\ Ordered /\ Aged /\ Complete

Charged == \A u \in UserNames : GetTimeUsed(Recs(u), now) = spent[u]

\* What a handler may do to the records kept: nothing, exchange one, add one.
OthersKept(u) ==
    \A v \in UserNames : v # u => Recs(v)' = Recs(v) /\ NextOf(v)' = NextOf(v)

RecsKept == \A v \in UserNames : Recs(v)' = Recs(v) /\ NextOf(v)' = NextOf(v)
OverridesKept == \A v \in UserNames : OverridesOf(v)' = OverridesOf(v)

Exchanged(u, s, r) ==
    Recs(u)' = Replace(Recs(u), s, r) /\ NextOf(u)' = NextOf(u) /\ OthersKept(u)

Added(u, n) ==
    Recs(u)' = Recs(u) \union {n} /\ NextOf(u)' = NextOf(u) + 1 /\ OthersKept(u)

\* The records kept are well typed, chained and in the past.
LEMMA RecsGood ==
    ASSUME Inv
    PROVE  /\ now \in Times /\ now \in Nat
           /\ \A u \in UserNames :
                /\ Recs(u) \in SUBSET Session /\ GoodSet(Recs(u), now)
                /\ NextOf(u) \in Times /\ OverridesOf(u) \in Seq(Overrides)
<1>1. now \in Times /\ now \in Nat
  BY DEF Inv, TypeOK, Times
<1>2. ASSUME NEW u \in UserNames
      PROVE  /\ Recs(u) \in SUBSET Session /\ GoodSet(Recs(u), now)
             /\ NextOf(u) \in Times /\ OverridesOf(u) \in Seq(Overrides)
  <2>1. CASE Kept[u] = Missing
    BY <2>1 DEF Recs, NextOf, OverridesOf, GoodSet, Active, Times, Zero
  <2>2. CASE Kept[u] # Missing /\ running
    <3>1. users[u] \in User /\ GoodSet(users[u].sessions, now) /\ Kept = users
      BY <2>2, UserMapElement DEF Kept, Inv, TypeOK, GoodUsers
    <3> QED BY <2>2, <3>1 DEF Recs, NextOf, OverridesOf, User
  <2>3. CASE Kept[u] # Missing /\ ~ running
    <3>1. disk # Missing /\ Kept = Trim(disk.users, now)
      BY <2>3 DEF Kept, NoUsers
    <3>2. disk.users \in UserMap /\ disk.mtime \in Nat /\ disk.mtime <= now
          /\ GoodUsers(disk.users, disk.mtime)
      BY <3>1, FileElement DEF Inv, Times
    <3>3. disk.users[u] # Missing
      BY <2>3, <3>1 DEF Trim
    <3>4. disk.users[u] \in User /\ GoodSet(disk.users[u].sessions, disk.mtime)
      BY <3>2, <3>3, UserMapElement DEF GoodUsers
    <3>5. GoodSet(disk.users[u].sessions, now)
      BY <1>1, <3>2, <3>4, GoodSetLater
    <3>6. /\ Kept[u].sessions = RemoveOldSessions(disk.users[u].sessions, now)
          /\ Kept[u].next = disk.users[u].next
          /\ Kept[u].overrides = disk.users[u].overrides
      BY <3>1, <3>3, <3>4 DEF Trim, User
    <3>7. Kept[u].sessions \in SUBSET disk.users[u].sessions
      BY <3>6 DEF RemoveOldSessions
    <3>8. GoodSet(Kept[u].sessions, now)
      BY <3>5, <3>7, GoodSubset
    <3> QED BY <2>3, <3>4, <3>6, <3>7, <3>8 DEF Recs, NextOf, OverridesOf, User
  <2> QED BY <2>1, <2>2, <2>3
<1> QED BY <1>1, <1>2

\* A handler that stores a user's record, and saves it.
LEMMA Stored ==
    ASSUME Inv, Saved, ~ SaveMayFail, Handler, NEW u \in UserNames, NEW usr \in User,
           Store(u, usr)
    PROVE  /\ running /\ running' /\ now' = now /\ Saved'
           /\ Recs(u)' = usr.sessions /\ NextOf(u)' = usr.next /\ OthersKept(u)
           /\ OverridesOf(u)' = usr.overrides
           /\ \A v \in UserNames : v # u => OverridesOf(v)' = OverridesOf(v)
<1>1. running /\ running' /\ now' = now /\ since' = since
  BY DEF Handler, machineVars
<1>2. Kept = users /\ Kept' = users'
  BY <1>1 DEF Kept
<1>3. users' = [users EXCEPT ![u] = usr] /\ users \in UserMap
  BY DEF Store, Inv, TypeOK
<1>4. users'[u] = usr /\ \A v \in UserNames : v # u => users'[v] = users[v]
  BY <1>3 DEF UserMap
<1>5. usr # Missing
  BY MissingAssumption
<1>6. disk' = [users |-> users', mtime |-> now]
  BY DEF Store, Save
<1>7. disk' # Missing
  <2>1. users' \in UserMap /\ now \in Times
    BY <1>3 DEF UserMap, Inv, TypeOK
  <2> QED BY <1>6, <2>1, MissingFileAssumption DEF File
<1>8. disk'.users = users'
  BY <1>6
<1>9. Saved'
  BY <1>1, <1>7, <1>8 DEF Saved
<1>10. Recs(u)' = usr.sessions /\ NextOf(u)' = usr.next /\ OverridesOf(u)' = usr.overrides
  BY <1>2, <1>4, <1>5 DEF Recs, NextOf, OverridesOf
<1>11. OthersKept(u) /\ \A v \in UserNames : v # u => OverridesOf(v)' = OverridesOf(v)
  BY <1>2, <1>4 DEF OthersKept, Recs, NextOf, OverridesOf
<1> QED BY <1>1, <1>9, <1>10, <1>11

\* A handler that stores a user's sessions.
LEMMA SessionsStored ==
    ASSUME Inv, Saved, ~ SaveMayFail, Handler, NEW u \in UserNames, users[u] # Missing,
           NEW S \in SUBSET Session, StoreSessions(u, S)
    PROVE  /\ running /\ running' /\ now' = now /\ Saved' /\ Recs(u) = SessionsOf(u)
           /\ Recs(u)' = S /\ NextOf(u)' = NextOf(u) /\ OthersKept(u) /\ OverridesKept
<1> DEFINE usr == [users[u] EXCEPT !.sessions = S]
<1>1. users[u] \in User
  BY UserMapElement DEF Inv, TypeOK
<1>2. usr \in User /\ usr.sessions = S /\ usr.next = users[u].next
      /\ usr.overrides = users[u].overrides
  BY <1>1 DEF User
<1>3. Store(u, usr)
  BY DEF StoreSessions
<1> HIDE DEF usr
<1>4. /\ running /\ running' /\ now' = now /\ Saved'
      /\ Recs(u)' = usr.sessions /\ NextOf(u)' = usr.next /\ OthersKept(u)
      /\ OverridesOf(u)' = usr.overrides
      /\ \A v \in UserNames : v # u => OverridesOf(v)' = OverridesOf(v)
  BY <1>2, <1>3, Stored
<1>5. Recs(u) = SessionsOf(u) /\ NextOf(u) = users[u].next /\ OverridesOf(u) = users[u].overrides
  BY <1>4 DEF Recs, NextOf, OverridesOf, Kept, SessionsOf
<1> QED BY <1>2, <1>4, <1>5 DEF OverridesKept

\* A handler that finds nothing to do.
LEMMA NothingStored ==
    ASSUME Inv, Saved, Handler, NoEffect
    PROVE  running /\ running' /\ now' = now /\ Saved' /\ RecsKept /\ OverridesKept
<1>1. running /\ running' /\ UNCHANGED <<now, since, users, disk>>
  BY DEF Handler, machineVars, NoEffect
<1>2. Kept' = Kept
  BY <1>1 DEF Kept
<1> QED BY <1>1, <1>2 DEF Saved, RecsKept, OverridesKept, Recs, NextOf, OverridesOf

\* With one record for an ID, every lookup of that ID returns it.
LEMMA LookupsFind ==
    ASSUME NEW S \in SUBSET Session, NEW s \in S, \A r \in S : r.id = s.id => r = s
    PROVE  /\ GetSessionByID(S, s.id) = {s}
           /\ IsActive(s) => /\ Oldest(Active(WithId(S, s.id))) = {s}
                             /\ IsSessionActive(S, s.id)
<1>1. WithId(S, s.id) = {s} /\ s.pos <= s.pos
  BY DEF WithId, Session, Times
<1>2. Newest({s}) = {s} /\ Oldest({s}) = {s}
  BY <1>1 DEF Newest, Oldest
<1>3. Active({s}) = IF IsActive(s) THEN {s} ELSE {}
  BY DEF Active
<1> QED BY <1>1, <1>2, <1>3 DEF GetSessionByID, IsSessionActive

\* Without one, none does.
LEMMA LookupsMiss ==
    ASSUME NEW S, NEW id, \A s \in S : s.id # id
    PROVE  GetSessionByID(S, id) = {} /\ ~ IsSessionActive(S, id) /\ WithId(S, id) = {}
BY DEF GetSessionByID, IsSessionActive, WithId, Active, Newest

\* What the handlers find of a user's sessions.
LEMMA FoundIs ==
    ASSUME Inv, OnePerId, running, NEW u \in UserNames, NEW id \in Ids
    PROVE  /\ (\A s \in Recs(u) : s.id # id) => Found(u, id) = {}
           /\ \A s \in Recs(u) : s.id = id =>
                Found(u, id) = {s} /\ users[u] # Missing /\ Recs(u) = SessionsOf(u)
<1>1. Recs(u) = IF users[u] = Missing THEN {} ELSE SessionsOf(u)
  BY DEF Recs, Kept, SessionsOf
<1>2. Recs(u) \in SUBSET Session
  BY RecsGood
<1>3. ASSUME \A s \in Recs(u) : s.id # id PROVE Found(u, id) = {}
  BY <1>1, <1>3, LookupsMiss DEF Found
<1>4. ASSUME NEW s \in Recs(u), s.id = id PROVE Found(u, id) = {s} /\ users[u] # Missing
  <2>1. \A r \in Recs(u) : r.id = s.id => r = s
    BY DEF OnePerId
  <2>2. GetSessionByID(Recs(u), id) = {s}
    BY <1>2, <1>4, <2>1, LookupsFind
  <2> QED BY <1>1, <1>4, <2>2 DEF Found
<1> QED BY <1>1, <1>3, <1>4

\* A lock closes the segment of the record with that ID, or does nothing.
LEMMA LockStores ==
    ASSUME Inv, Saved, OnePerId, ~ SaveMayFail, NEW u \in UserNames, NEW id \in Ids,
           HandleLock(u, id)
    PROVE  /\ running /\ running' /\ now' = now /\ Saved' /\ OverridesKept
           /\ \/ (\A s \in Recs(u) : s.id # id) /\ RecsKept
              \/ \E s \in Recs(u) : s.id = id /\ Exchanged(u, s, EndSegment(s, now))
<1>1. Handler /\ running
  BY DEF HandleLock, Handler
<1>2. CASE \A s \in Recs(u) : s.id # id
  <2>1. NoEffect
    BY <1>1, <1>2, FoundIs DEF HandleLock
  <2> QED BY <1>1, <1>2, <2>1, NothingStored
<1>3. CASE \E s \in Recs(u) : s.id = id
  <2>1. PICK s \in Recs(u) : s.id = id
    BY <1>3
  <2>2. Found(u, id) = {s} /\ users[u] # Missing /\ Recs(u) = SessionsOf(u)
    BY <1>1, <2>1, FoundIs
  <2> DEFINE S == Replace(SessionsOf(u), s, EndSegment(s, now))
  <2>3. StoreSessions(u, S)
    BY <2>2 DEF HandleLock
  <2>4. S \in SUBSET Session
    BY <2>1, <2>2, RecsGood, EndSegmentType DEF Replace
  <2> HIDE DEF S
  <2>5. /\ running /\ running' /\ now' = now /\ Saved'
        /\ Recs(u)' = S /\ NextOf(u)' = NextOf(u) /\ OthersKept(u) /\ OverridesKept
    BY <1>1, <2>2, <2>3, <2>4, SessionsStored
  <2> QED BY <2>1, <2>2, <2>5 DEF S, Exchanged
<1> QED BY <1>2, <1>3

\* An unlock opens one.
LEMMA UnlockStores ==
    ASSUME Inv, Saved, OnePerId, ~ SaveMayFail, NEW u \in UserNames, NEW id \in Ids,
           HandleUnlock(u, id)
    PROVE  /\ running /\ running' /\ now' = now /\ Saved' /\ OverridesKept
           /\ \/ (\A s \in Recs(u) : s.id # id) /\ RecsKept
              \/ \E s \in Recs(u) : s.id = id /\ Exchanged(u, s, AddSegment(s, now))
<1>1. Handler /\ running
  BY DEF HandleUnlock, Handler
<1>2. CASE \A s \in Recs(u) : s.id # id
  <2>1. NoEffect
    BY <1>1, <1>2, FoundIs DEF HandleUnlock
  <2> QED BY <1>1, <1>2, <2>1, NothingStored
<1>3. CASE \E s \in Recs(u) : s.id = id
  <2>1. PICK s \in Recs(u) : s.id = id
    BY <1>3
  <2>2. Found(u, id) = {s} /\ users[u] # Missing /\ Recs(u) = SessionsOf(u)
    BY <1>1, <2>1, FoundIs
  <2> DEFINE S == Replace(SessionsOf(u), s, AddSegment(s, now))
  <2>3. StoreSessions(u, S)
    BY <2>2 DEF HandleUnlock
  <2>4. S \in SUBSET Session
    BY <2>1, <2>2, RecsGood, AddSegmentType DEF Replace
  <2> HIDE DEF S
  <2>5. /\ running /\ running' /\ now' = now /\ Saved'
        /\ Recs(u)' = S /\ NextOf(u)' = NextOf(u) /\ OthersKept(u) /\ OverridesKept
    BY <1>1, <2>2, <2>3, <2>4, SessionsStored
  <2> QED BY <2>1, <2>2, <2>5 DEF S, Exchanged
<1> QED BY <1>2, <1>3

\* A logout of a screen ends its record: only the screen's user has one.
LEMMA LogoutStores ==
    ASSUME Inv, Saved, OnePerId, Shown, ~ SaveMayFail, NEW id \in Ids,
           screens[id] # Missing, HandleLogout(id)
    PROVE  /\ running /\ running' /\ now' = now /\ Saved' /\ OverridesKept
           /\ \/ (\A u \in UserNames : \A s \in Recs(u) : s.id # id) /\ RecsKept
              \/ \E u \in UserNames : \E s \in Recs(u) :
                    s.id = id /\ IsActive(s) /\ Exchanged(u, s, End(s, now))
<1>1. Handler /\ running
  BY DEF HandleLogout, Handler
<1>2. \A u \in UserNames : Recs(u) = IF users[u] = Missing THEN {} ELSE SessionsOf(u)
  BY <1>1 DEF Recs, Kept, SessionsOf
<1>3. \A u \in UserNames : \A s \in Recs(u) : s.id = id => IsActive(s)
  BY DEF Shown, Matches, Fits
<1>4. CASE NoEffect /\ Owners(id) = {}
  <2>1. \A u \in UserNames : \A s \in Recs(u) : s.id # id
    BY <1>2, <1>4 DEF Owners, WithId
  <2> QED BY <1>1, <1>4, <2>1, NothingStored
<1>5. ASSUME NEW u \in GetUserBySession(id),
             StoreSessions(u, EndSession(SessionsOf(u), id, now))
      PROVE  /\ running /\ running' /\ now' = now /\ Saved' /\ OverridesKept
             /\ \E s \in Recs(u) : s.id = id /\ IsActive(s) /\ Exchanged(u, s, End(s, now))
             /\ u \in UserNames
  <2>1. u \in Owners(id)
    BY DEF GetUserBySession, ActiveOwners
  <2>2. u \in UserNames /\ users[u] # Missing /\ \E s \in SessionsOf(u) : s.id = id
    BY <2>1 DEF Owners, WithId
  <2>3. PICK s \in SessionsOf(u) : s.id = id
    BY <2>2
  <2>4. s \in Recs(u) /\ Recs(u) = SessionsOf(u) /\ IsActive(s) /\ Recs(u) \in SUBSET Session
    BY <1>2, <1>3, <2>2, <2>3, RecsGood
  <2>5. \A r \in Recs(u) : r.id = s.id => r = s
    BY <2>2, <2>4 DEF OnePerId
  <2>6. Oldest(Active(WithId(Recs(u), id))) = {s}
    BY <2>3, <2>4, <2>5, LookupsFind
  <2> DEFINE S == EndSession(SessionsOf(u), id, now)
  <2>7. S = Replace(Recs(u), s, End(s, now))
    <3>1. {End(r, now) : r \in {s}} = {End(s, now)}
      OBVIOUS
    <3> QED BY <2>4, <2>6, <3>1 DEF EndSession, Replace
  <2>8. S \in SUBSET Session
    <3>1. End(s, now) \in Session
      BY <2>4, RecsGood, EndType
    <3> QED BY <2>4, <2>7, <3>1 DEF Replace
  <2>9. StoreSessions(u, S)
    BY <1>5
  <2> HIDE DEF S
  <2>10. /\ running /\ running' /\ now' = now /\ Saved'
         /\ Recs(u)' = S /\ NextOf(u)' = NextOf(u) /\ OthersKept(u) /\ OverridesKept
    BY <1>1, <2>2, <2>8, <2>9, SessionsStored
  <2> QED BY <2>2, <2>3, <2>4, <2>7, <2>10 DEF Exchanged
<1> QED BY <1>4, <1>5 DEF HandleLogout

\* A login of an ID that has not logged in adds a record.
LEMMA LoginStores ==
    ASSUME Inv, Saved, Shown, ~ SaveMayFail, NEW u \in UserNames, NEW id \in Ids,
           id \notin Range(logins), HandleLogin(u, id)
    PROVE  /\ running /\ running' /\ now' = now /\ Saved' /\ OverridesKept
           /\ Added(u, NewSession(NextOf(u), id, now))
<1> DEFINE usr == IF users[u] = Missing THEN FreshUser ELSE users[u]
           new == AddSession(usr, id, now)
<1>1. Handler /\ running
  BY DEF HandleLogin, Handler
<1>2. usr \in User /\ usr.sessions = Recs(u) /\ usr.next = NextOf(u)
      /\ GoodSet(usr.sessions, now) /\ usr.overrides = OverridesOf(u)
  <2>1. /\ FreshUser \in User /\ FreshUser.sessions = {} /\ FreshUser.next = 1
        /\ FreshUser.overrides = <<>>
    BY DEF FreshUser, User, Times, Zero
  <2>2. users[u] # Missing => users[u] \in User
    BY UserMapElement DEF Inv, TypeOK
  <2>3. usr.sessions = Recs(u) /\ usr.next = NextOf(u) /\ usr.overrides = OverridesOf(u)
    BY <1>1, <2>1 DEF Recs, NextOf, OverridesOf, Kept
  <2> QED BY <2>1, <2>2, <2>3, RecsGood
<1>3. \A s \in Recs(u) : s.id # id
  BY DEF Shown
<1>4. ~ IsSessionActive(usr.sessions, id)
  BY <1>2, <1>3, LookupsMiss
<1>5. Store(u, new)
  BY <1>4 DEF HandleLogin
<1>6. /\ new \in User /\ new.next = NextOf(u) + 1 /\ new.overrides = OverridesOf(u)
      /\ new.sessions = Recs(u) \union {NewSession(NextOf(u), id, now)}
  <2>1. new \in User
    BY <1>2, <1>4, RecsGood, AddSessionGood
  <2>2. /\ new.sessions = usr.sessions \union {NewSession(usr.next, id, now)}
        /\ new.next = usr.next + 1 /\ new.overrides = usr.overrides
    <3> HIDE DEF usr
    <3> QED BY <1>2 DEF AddSession, User
  <2> QED BY <1>2, <2>1, <2>2
<1> HIDE DEF new, usr
<1>7. /\ running /\ running' /\ now' = now /\ Saved'
      /\ Recs(u)' = new.sessions /\ NextOf(u)' = new.next /\ OthersKept(u)
      /\ OverridesOf(u)' = new.overrides
      /\ \A v \in UserNames : v # u => OverridesOf(v)' = OverridesOf(v)
  BY <1>1, <1>5, <1>6, Stored
<1> QED BY <1>6, <1>7 DEF Added, OverridesKept

-----------------------------------------------------------------------------
(* The ties between records and screens.                                   *)

\* Exchanging a record for one that goes with what its screen has become.
LEMMA ExchangeLinked ==
    ASSUME Inv, Linked, NEW u \in UserNames, NEW s \in Recs(u), NEW r \in Session,
           r.id = s.id, r.pos = s.pos, r.start = s.start, Exchanged(u, s, r),
           NEW scr, screens' = [screens EXCEPT ![s.id] = scr], s.id \in DOMAIN screens,
           UNCHANGED <<logins, now>>, screens[s.id] # Missing,
           Fits(r, scr, u)
    PROVE  Linked'
<1>1. screens'[s.id] = scr /\ \A id \in Ids : id # s.id => screens'[id] = screens[id]
  OBVIOUS
<1>2. /\ Recs(u)' = (Recs(u) \ {s}) \union {r} /\ NextOf(u)' = NextOf(u)
      /\ \A v \in UserNames : v # u => Recs(v)' = Recs(v) /\ NextOf(v)' = NextOf(v)
  BY DEF Exchanged, OthersKept, Replace
<1>3. \A v \in UserNames : \A q \in Recs(v) : q.id = s.id => v = u /\ q = s
  BY DEF Linked, OnePerId
<1>4. \A v \in UserNames : Recs(v) \in SUBSET Session
  BY RecsGood
<1>5. ASSUME NEW v \in UserNames, NEW q \in Recs(v)'
      PROVE  \/ q \in Recs(v) /\ q.id # s.id
             \/ v = u /\ q = r
  BY <1>2, <1>3
<1>6. IsActive(s) /\ screens[s.id].user = u /\ screens[s.id].begun = s.start
  BY DEF Linked, Shown, Matches, Fits
<1>7. Shown'
  <2> SUFFICES ASSUME NEW v \in UserNames, NEW q \in Recs(v)'
               PROVE  q.id \in Range(logins') /\ Matches(q, v)'
    BY DEF Shown
  <2>1. CASE q \in Recs(v) /\ q.id # s.id
    <3>1. q.id \in Range(logins) /\ Matches(q, v) /\ q.id \in Ids
      BY <2>1, <1>4 DEF Linked, Shown, Session
    <3> QED BY <2>1, <3>1, <1>1 DEF Matches, Fits
  <2>2. CASE v = u /\ q = r
    <3>1. r.id \in Range(logins)
      BY DEF Linked, Shown
    <3> QED BY <2>2, <3>1, <1>1 DEF Matches, Fits
  <2> QED BY <2>1, <2>2, <1>5
<1>8. OnePerId'
  <2> SUFFICES ASSUME NEW v \in UserNames, NEW w \in UserNames,
                      NEW p \in Recs(v)', NEW q \in Recs(w)', p.id = q.id
               PROVE  v = w /\ p = q
    BY DEF OnePerId
  <2> QED BY <1>5 DEF Linked, OnePerId
<1>9. Numbered'
  <2>1. IsFiniteSet(Recs(u)')
    <3>1. IsFiniteSet(Recs(u) \ {s})
      BY FS_RemoveElement DEF Linked, Numbered
    <3> QED BY <3>1, <1>2, FS_AddElement
  <2>2. \A v \in UserNames : IsFiniteSet(Recs(v)') /\ NextOf(v)' = NextOf(v)
    BY <2>1, <1>2 DEF Linked, Numbered
  <2>3. \A v \in UserNames : \A q \in Recs(v)' : q.pos < NextOf(v)
    BY <1>5 DEF Linked, Numbered
  <2> QED BY <2>2, <2>3 DEF Numbered
<1>10. Ordered' /\ Aged'
  <2>1. \A v \in UserNames : \A q \in Recs(v)' :
            \E p \in Recs(v) : p.id = q.id /\ p.pos = q.pos /\ p.start = q.start
    BY <1>5
  <2>2. Ordered'
    BY <2>1 DEF Linked, Ordered
  <2>3. Aged'
    BY <2>1 DEF Linked, Aged
  <2> QED BY <2>2, <2>3
<1>11. Complete'
  <2>1. ASSUME NEW v \in UserNames, NEW id \in OpenedToday(v)'
        PROVE  \E q \in Recs(v)' : q.id = id
    <3>1. /\ id \in Ids /\ screens'[id] # Missing /\ screens'[id].user = v
          /\ Day(screens'[id].begun) = Day(now)
      BY DEF OpenedToday, ScreensOf, BegunToday
    <3>2. CASE id = s.id
      <4>1. v = u
        BY <3>1, <3>2, <1>1 DEF Fits
      <4> QED BY <3>2, <4>1, <1>2
    <3>3. CASE id # s.id
      <4>1. id \in OpenedToday(v)
        BY <3>1, <3>3, <1>1 DEF OpenedToday, ScreensOf, BegunToday
      <4>2. PICK q \in Recs(v) : q.id = id
        BY <4>1 DEF Linked, Complete
      <4> QED BY <3>3, <4>2, <1>2
    <3> QED BY <3>2, <3>3
  <2>2. ASSUME NEW id \in Ids, screens'[id] # Missing PROVE screens'[id].begun <= now
    BY <2>2, <1>1, <1>6 DEF Linked, Complete, Fits
  <2> QED BY <2>1, <2>2 DEF Complete
<1> QED BY <1>7, <1>8, <1>9, <1>10, <1>11 DEF Linked

\* A screen that no record goes with, because it is older than the last start.
LEMMA UnrecordedLinked ==
    ASSUME Inv, Linked, RecsKept, NEW id \in Ids, \A u \in UserNames : \A s \in Recs(u) : s.id # id,
           NEW scr, screens' = [screens EXCEPT ![id] = scr], id \in DOMAIN screens,
           UNCHANGED <<logins, now>>, screens[id] # Missing, screens[id].user \in UserNames,
           scr # Missing => scr.user = screens[id].user /\ scr.begun = screens[id].begun
    PROVE  Linked'
<1>1. screens'[id] = scr /\ \A x \in Ids : x # id => screens'[x] = screens[x]
  OBVIOUS
<1>2. \A v \in UserNames : Recs(v)' = Recs(v) /\ NextOf(v)' = NextOf(v)
  BY DEF RecsKept
<1>3. Shown'
  <2> SUFFICES ASSUME NEW v \in UserNames, NEW q \in Recs(v)
               PROVE  q.id \in Range(logins) /\ Matches(q, v)'
    BY <1>2 DEF Shown
  <2>1. q.id \in Ids /\ q.id # id /\ q.id \in Range(logins) /\ Matches(q, v)
    BY RecsGood DEF Linked, Shown, Session
  <2> QED BY <2>1, <1>1 DEF Matches, Fits
<1>4. OnePerId' /\ Numbered' /\ Ordered' /\ Aged'
  BY <1>2 DEF Linked, OnePerId, Numbered, Ordered, Aged
<1>5. Complete'
  <2>1. ASSUME NEW v \in UserNames, NEW x \in OpenedToday(v)'
        PROVE  \E q \in Recs(v)' : q.id = x
    <3>1. x \in OpenedToday(v)
      BY <1>1 DEF OpenedToday, ScreensOf, BegunToday
    <3> QED BY <3>1, <1>2 DEF Linked, Complete
  <2>2. ASSUME NEW x \in Ids, screens'[x] # Missing PROVE screens'[x].begun <= now
    BY <2>2, <1>1 DEF Linked, Complete
  <2> QED BY <2>1, <2>2 DEF Complete
<1> QED BY <1>3, <1>4, <1>5 DEF Linked

\* Steps that change neither records nor screens, be it in a new day.
LEMMA SameLinked ==
    ASSUME Inv, Linked, RecsKept, UNCHANGED <<screens, logins>>, now' \in Nat, now <= now',
           \A u \in UserNames : OpenedToday(u)' \subseteq OpenedToday(u),
           \A id \in Ids : screens[id] # Missing => screens[id].begun \in Nat
    PROVE  Linked'
<1>1. \A v \in UserNames : Recs(v)' = Recs(v) /\ NextOf(v)' = NextOf(v)
  BY DEF RecsKept
<1>2. Shown'
  BY <1>1 DEF Linked, Shown, Matches, Fits
<1>3. OnePerId' /\ Numbered' /\ Ordered' /\ Aged'
  BY <1>1 DEF Linked, OnePerId, Numbered, Ordered, Aged
<1>4. Complete'
  <2>1. \A u \in UserNames : \A id \in OpenedToday(u)' : \E s \in Recs(u)' : s.id = id
    BY <1>1 DEF Linked, Complete
  <2>2. \A id \in Ids : screens'[id] # Missing => screens'[id].begun <= now'
    <3>1. now \in Nat
      BY RecsGood
    <3> QED BY <3>1 DEF Linked, Complete
  <2> QED BY <2>1, <2>2 DEF Complete
<1> QED BY <1>2, <1>3, <1>4 DEF Linked

\* A stop forgets the records that the next start would leave out.
LEMMA TrimmedLinked ==
    ASSUME Inv, Linked, UNCHANGED <<screens, logins, now>>,
           \A u \in UserNames : /\ Recs(u)' = RemoveOldSessions(Recs(u), now)
                                /\ NextOf(u)' = NextOf(u)
    PROVE  Linked'
<1>1. \A u \in UserNames : Recs(u)' \in SUBSET Recs(u)
  BY DEF RemoveOldSessions
<1>2. Shown'
  BY <1>1 DEF Linked, Shown, Matches, Fits
<1>3. OnePerId' /\ Ordered' /\ Aged'
  BY <1>1 DEF Linked, OnePerId, Ordered, Aged
<1>4. Numbered'
  <2>1. \A u \in UserNames : IsFiniteSet(Recs(u)')
    BY <1>1, FS_Subset DEF Linked, Numbered
  <2>2. \A u \in UserNames : \A s \in Recs(u)' : s.pos < NextOf(u)'
    BY <1>1 DEF Linked, Numbered
  <2> QED BY <2>1, <2>2 DEF Numbered
<1>5. Complete'
  <2> SUFFICES ASSUME NEW u \in UserNames, NEW id \in OpenedToday(u)'
               PROVE  \E s \in Recs(u)' : s.id = id
    BY DEF Linked, Complete
  <2>1. id \in OpenedToday(u) /\ screens[id] # Missing /\ Day(screens[id].begun) = Day(now)
    BY DEF OpenedToday, ScreensOf, BegunToday
  <2>2. PICK s \in Recs(u) : s.id = id
    BY <2>1 DEF Linked, Complete
  <2>3. s.start = screens[id].begun
    BY <2>1, <2>2 DEF Linked, Shown, Matches, Fits
  <2>4. s \in Recs(u)'
    BY <2>1, <2>2, <2>3 DEF RemoveOldSessions
  <2> QED BY <2>2, <2>4
<1> QED BY <1>2, <1>3, <1>4, <1>5 DEF Linked

\* A login adds a record and its screen, both later than the others.
LEMMA AddLinked ==
    ASSUME Inv, Linked, LoginOrder, NEW u \in UserNames, NEW id \in Ids, id \notin Range(logins),
           Added(u, NewSession(NextOf(u), id, now)), id \in DOMAIN screens,
           screens' = [screens EXCEPT ![id] = [user |-> u, locked |-> FALSE, begun |-> now]],
           logins' = Append(logins, id), UNCHANGED now
    PROVE  Linked'
<1> DEFINE n == NewSession(NextOf(u), id, now)
           scr == [user |-> u, locked |-> FALSE, begun |-> now]
<1>1. /\ n.id = id /\ n.pos = NextOf(u) /\ n.start = now /\ IsActive(n) /\ ~ IsIdle(n)
      /\ NextOf(u) \in Times /\ n \in Session
  <2>1. NextOf(u) \in Times /\ now \in Times
    BY RecsGood
  <2>2. n.segs = <<[start |-> now, stop |-> Zero]>>
    BY DEF NewSession, AddSegment
  <2>3. ~ IsIdle(n)
    BY <2>2 DEF IsIdle, Last, SegIsActive
  <2>4. n.id = id /\ n.pos = NextOf(u) /\ n.start = now /\ n.end = Zero
    BY DEF NewSession, AddSegment
  <2> QED BY <2>1, <2>3, <2>4, NewSessionType DEF IsActive
<1> HIDE DEF n
<1>2. screens'[id] = scr /\ \A x \in Ids : x # id => screens'[x] = screens[x]
  OBVIOUS
<1>3. /\ Recs(u)' = Recs(u) \union {n} /\ NextOf(u)' = NextOf(u) + 1
      /\ \A v \in UserNames : v # u => Recs(v)' = Recs(v) /\ NextOf(v)' = NextOf(v)
  BY DEF Added, OthersKept, n
<1>4. \A v \in UserNames : \A q \in Recs(v) :
          q.id # id /\ q.id \in Range(logins) /\ q \in Session /\ q.id \in Ids
  BY RecsGood DEF Linked, Shown, Session
<1>5. ASSUME NEW v \in UserNames, NEW q \in Recs(v)'
      PROVE  q \in Recs(v) \/ (v = u /\ q = n)
  BY <1>3
<1>6. /\ Len(logins) \in Nat /\ DOMAIN logins = 1 .. Len(logins)
      /\ DOMAIN logins' = 1 .. Len(logins) + 1 /\ logins'[Len(logins) + 1] = id
      /\ \A i \in 1 .. Len(logins) : logins'[i] = logins[i] /\ logins[i] # id
  BY DEF LoginOrder, Range
<1>7. Range(logins) \subseteq Range(logins') /\ id \in Range(logins')
  <2>1. \A i \in DOMAIN logins : i \in DOMAIN logins' /\ logins'[i] = logins[i]
    BY <1>6
  <2>2. Len(logins) + 1 \in DOMAIN logins'
    BY <1>6
  <2> QED BY <2>1, <2>2, <1>6 DEF Range
<1>8. Shown'
  <2> SUFFICES ASSUME NEW v \in UserNames, NEW q \in Recs(v)'
               PROVE  q.id \in Range(logins') /\ Matches(q, v)'
    BY DEF Shown
  <2>1. CASE q \in Recs(v)
    <3>1. Matches(q, v)
      BY <2>1 DEF Linked, Shown
    <3> QED BY <2>1, <3>1, <1>2, <1>4, <1>7 DEF Matches, Fits
  <2>2. CASE v = u /\ q = n
    <3>1. scr # Missing
      <4>1. scr \in Screen
        BY RecsGood DEF Screen
      <4> QED BY <4>1, MissingScreenAssumption
    <3> QED BY <2>2, <3>1, <1>1, <1>2, <1>7 DEF Matches, Fits
  <2> QED BY <2>1, <2>2, <1>5
<1>9. OnePerId'
  <2> SUFFICES ASSUME NEW v \in UserNames, NEW w \in UserNames,
                      NEW p \in Recs(v)', NEW q \in Recs(w)', p.id = q.id
               PROVE  v = w /\ p = q
    BY DEF OnePerId
  <2>1. CASE p \in Recs(v) /\ q \in Recs(w)
    BY <2>1 DEF Linked, OnePerId
  <2> QED BY <2>1, <1>1, <1>4, <1>5
<1>10. Numbered'
  <2>1. IsFiniteSet(Recs(u)')
    BY <1>3, FS_AddElement DEF Linked, Numbered
  <2>2. \A v \in UserNames : IsFiniteSet(Recs(v)')
    BY <2>1, <1>3 DEF Linked, Numbered
  <2>3. ASSUME NEW v \in UserNames, NEW q \in Recs(v)' PROVE q.pos < NextOf(v)'
    <3>1. CASE q \in Recs(v)
      <4>1. q.pos < NextOf(v) /\ q.pos \in Nat /\ NextOf(v) \in Nat
        BY <3>1, <1>4, RecsGood DEF Linked, Numbered, Session, Times
      <4>2. NextOf(v)' = NextOf(v) \/ NextOf(v)' = NextOf(v) + 1
        BY <1>3
      <4> QED BY <4>1, <4>2
    <3>2. CASE v = u /\ q = n
      BY <3>2, <1>1, <1>3 DEF Times
    <3> QED BY <3>1, <3>2, <1>5
  <2> QED BY <2>2, <2>3 DEF Numbered
<1>11. Ordered'
  <2> SUFFICES ASSUME NEW v \in UserNames, NEW p \in Recs(v)', NEW q \in Recs(v)',
                      NEW i \in 1 .. Len(logins) + 1, NEW j \in 1 .. Len(logins) + 1,
                      logins'[i] = p.id, logins'[j] = q.id, i < j
               PROVE  p.pos < q.pos
    BY <1>6 DEF Ordered
  <2>1. i \in 1 .. Len(logins) /\ p.id # id
    BY <1>6
  <2>2. p \in Recs(v)
    BY <2>1, <1>1, <1>5
  <2>3. CASE q \in Recs(v)
    <3>1. j \in 1 .. Len(logins)
      BY <2>3, <1>4, <1>6
    <3> QED BY <2>1, <2>2, <2>3, <3>1, <1>6 DEF Linked, Ordered
  <2>4. CASE v = u /\ q = n
    BY <2>2, <2>4, <1>1 DEF Linked, Numbered
  <2> QED BY <2>3, <2>4, <1>5
<1>12. Complete'
  <2>1. ASSUME NEW v \in UserNames, NEW x \in OpenedToday(v)'
        PROVE  \E q \in Recs(v)' : q.id = x
    <3>1. /\ x \in Ids /\ screens'[x] # Missing /\ screens'[x].user = v
          /\ Day(screens'[x].begun) = Day(now)
      BY DEF OpenedToday, ScreensOf, BegunToday
    <3>2. CASE x = id
      BY <3>1, <3>2, <1>1, <1>2, <1>3
    <3>3. CASE x # id
      <4>1. x \in OpenedToday(v)
        BY <3>1, <3>3, <1>2 DEF OpenedToday, ScreensOf, BegunToday
      <4>2. PICK q \in Recs(v) : q.id = x
        BY <4>1 DEF Linked, Complete
      <4> QED BY <4>2, <1>3
    <3> QED BY <3>2, <3>3
  <2>2. ASSUME NEW x \in Ids, screens'[x] # Missing PROVE screens'[x].begun <= now
    BY <2>2, <1>2, RecsGood DEF Linked, Complete
  <2> QED BY <2>1, <2>2 DEF Complete
<1>13. Aged'
  <2> SUFFICES ASSUME NEW v \in UserNames, NEW p \in Recs(v)', NEW q \in Recs(v)',
                      p.pos <= q.pos
               PROVE  p.start <= q.start
    BY DEF Aged
  <2>1. CASE p \in Recs(v) /\ q \in Recs(v)
    BY <2>1 DEF Linked, Aged
  <2>2. CASE v = u /\ q = n
    <3>1. now \in Nat /\ (p \in Recs(v) => p.start <= now)
      BY RecsGood DEF GoodSet, Good, StampedBy
    <3> QED BY <2>2, <3>1, <1>1, <1>5 DEF Times
  <2>3. CASE q \in Recs(v) /\ v = u /\ p = n
    <3>1. q.pos < NextOf(u) /\ q.pos \in Nat /\ NextOf(u) \in Nat
      BY <2>3, <1>1, <1>4 DEF Linked, Numbered, Session, Times
    <3> QED BY <2>3, <3>1, <1>1
  <2> QED BY <2>1, <2>2, <2>3, <1>5
<1> QED BY <1>8, <1>9, <1>10, <1>11, <1>12, <1>13 DEF Linked

-----------------------------------------------------------------------------
(* The time charged.                                                       *)

\* Exchanging a record for one that used as much time charges no more.
LEMMA ExchangeCharged ==
    ASSUME Inv, Linked, Charged, NEW u \in UserNames, NEW s \in Recs(u), NEW r \in Session,
           r.id = s.id, r.start = s.start, Exchanged(u, s, r), UNCHANGED <<now, spent>>,
           Duration(r, now) = Duration(s, now)
    PROVE  Charged'
<1>1. Recs(u) \in SUBSET Session /\ IsFiniteSet(Recs(u)) /\ now \in Nat
  BY RecsGood DEF Linked, Numbered
<1>2. r \notin Recs(u) \ {s}
  BY DEF Linked, OnePerId
<1>3. GetTimeUsed(Replace(Recs(u), s, r), now) = GetTimeUsed(Recs(u), now)
  BY <1>1, <1>2, ReplaceUsed
<1>4. \A v \in UserNames : GetTimeUsed(Recs(v)', now) = GetTimeUsed(Recs(v), now)
  BY <1>3 DEF Exchanged, OthersKept
<1> QED BY <1>4 DEF Charged

\* Nor does a session that begins.
LEMMA AddCharged ==
    ASSUME Inv, Linked, Charged, NEW u \in UserNames, NEW id \in Ids, id \notin Range(logins),
           Added(u, NewSession(NextOf(u), id, now)), UNCHANGED <<now, spent>>
    PROVE  Charged'
<1> DEFINE n == NewSession(NextOf(u), id, now)
<1>1. Recs(u) \in SUBSET Session /\ IsFiniteSet(Recs(u)) /\ now \in Nat /\ now \in Times
  BY RecsGood DEF Linked, Numbered
<1>2. n \in Session /\ n.id = id /\ Duration(n, now) = 0
  <2> DEFINE p == NextOf(u)
  <2>1. p \in Times
    BY RecsGood
  <2> HIDE DEF p
  <2>2. NewSession(p, id, now) \in Session
    BY <1>1, <2>1, NewSessionType
  <2>3. NewSession(p, id, now).id = id
    BY <1>1, <2>1, NewSessionGood
  <2>4. Duration(NewSession(p, id, now), now) = 0
    BY <1>1, <2>1, NewSessionTime
  <2> QED BY <2>2, <2>3, <2>4 DEF p
<1> HIDE DEF n
<1>3. n \notin Recs(u)
  BY <1>2 DEF Linked, Shown
<1>4. GetTimeUsed(Recs(u) \union {n}, now) = GetTimeUsed(Recs(u), now)
  BY <1>1, <1>2, <1>3, AddUsed
<1>5. \A v \in UserNames : GetTimeUsed(Recs(v)', now) = GetTimeUsed(Recs(v), now)
  BY <1>4 DEF Added, OthersKept, n
<1> QED BY <1>5 DEF Charged

\* Steps that keep the records and the clock charge what they did.
LEMMA SameCharged ==
    ASSUME Charged, RecsKept, UNCHANGED <<now, spent>>
    PROVE  Charged'
BY DEF Charged, RecsKept

-----------------------------------------------------------------------------
(* The steps, one by one.                                                  *)

ChargeInv == Saved /\ Linked /\ Charged

\* Steps that touch neither the records that count nor the screens.
LEMMA StillCharged ==
    ASSUME LimitInv, ChargeInv, RecsKept, Saved', UNCHANGED <<screens, logins, spent, now>>
    PROVE  ChargeInv'
<1>1. RecsKept /\ \A v \in UserNames : OpenedToday(v)' = OpenedToday(v)
  BY DEF OpenedToday, ScreensOf, BegunToday
<1>2. Linked'
  BY <1>1 DEF ChargeInv, Linked, Shown, Matches, Fits, OnePerId, Numbered, Ordered, Aged, Complete,
     RecsKept
<1> QED BY <1>2, SameCharged DEF ChargeInv

\* Leaving out the sessions of days before once is enough.
LEMMA TrimTwice ==
    ASSUME TypeOK, disk # Missing
    PROVE  Trim(Trim(disk.users, now), now) = Trim(disk.users, now)
<1> DEFINE us == disk.users
           T == Trim(us, now)
<1>1. us \in UserMap
  BY FileElement
<1>2. ASSUME NEW u \in UserNames PROVE Trim(T, now)[u] = T[u]
  <2>1. CASE us[u] = Missing
    BY <2>1 DEF Trim
  <2>2. CASE us[u] # Missing
    <3> DEFINE S == RemoveOldSessions(us[u].sessions, now)
               usr == [us[u] EXCEPT !.sessions = S]
    <3>1. us[u] \in User
      BY <1>1, <2>2, UserMapElement
    <3>2. T[u] = usr
      BY <2>2 DEF Trim
    <3>3. usr \in User /\ usr.sessions = S
      BY <3>1 DEF User, RemoveOldSessions
    <3>4. RemoveOldSessions(S, now) = S
      BY TodaysUsed
    <3>5. [usr EXCEPT !.sessions = S] = usr
      BY <3>1, <3>3 DEF User
    <3>6. usr # Missing
      BY <3>3, MissingAssumption
    <3>7. Trim(T, now)[u] = [T[u] EXCEPT !.sessions = RemoveOldSessions(T[u].sessions, now)]
      BY <3>2, <3>6 DEF Trim
    <3> HIDE DEF S, usr, T
    <3> QED BY <3>2, <3>3, <3>4, <3>5, <3>7
  <2> QED BY <2>1, <2>2
<1> QED BY <1>2 DEF Trim

\* Opening a segment of a record, or closing its last one.
LEMMA SegmentKept ==
    ASSUME NEW s \in Session, NEW t \in Times, Good(s, t)
    PROVE  /\ AddSegment(s, t) \in Session /\ EndSegment(s, t) \in Session
           /\ \A r \in {AddSegment(s, t), EndSegment(s, t)} :
                /\ r.id = s.id /\ r.pos = s.pos /\ r.start = s.start /\ r.end = s.end
                /\ Duration(r, t) = Duration(s, t)
           /\ ~ IsIdle(AddSegment(s, t)) /\ IsIdle(EndSegment(s, t))
<1>1. AddSegment(s, t).pos = s.pos /\ AddSegment(s, t).start = s.start
  BY DEF AddSegment, Session
<1> QED BY <1>1, AddSegmentType, EndSegmentType, EndSegmentGood, SegmentStatus, AddSegmentTime,
           EndSegmentTime DEF Good

\* A screen is locked or unlocked, and its record with it.
LEMMA ScreenSetCharge ==
    ASSUME LimitInv, ChargeInv, NEW id \in Ids, screens[id] # Missing, NEW b \in BOOLEAN,
           screens' = [screens EXCEPT ![id].locked = b], UNCHANGED <<logins, spent>>,
           now' = now, NEW u \in UserNames, screens[id].user = u,
           \/ (\A s \in Recs(u) : s.id # id) /\ RecsKept
           \/ \E s \in Recs(u) : s.id = id
                /\ Exchanged(u, s, IF b THEN EndSegment(s, now) ELSE AddSegment(s, now))
    PROVE  Linked' /\ Charged'
<1> DEFINE scr == [screens[id] EXCEPT !.locked = b]
<1>1. /\ screens[id] \in Screen /\ id \in DOMAIN screens
      /\ screens' = [screens EXCEPT ![id] = scr]
      /\ scr.user = u /\ scr.begun = screens[id].begun /\ (scr.locked <=> b)
      /\ scr \in Screen
  BY ScreenType DEF LimitInv, ScreenTypes, Screen
<1>2. scr # Missing
  BY <1>1, MissingScreenAssumption
<1> HIDE DEF scr
<1>3. CASE (\A s \in Recs(u) : s.id # id) /\ RecsKept
  <2>1. ASSUME NEW v \in UserNames, NEW s \in Recs(v), s.id = id PROVE FALSE
    <3>1. screens[id].user = v
      BY <2>1 DEF ChargeInv, Linked, Shown, Matches, Fits
    <3> QED BY <1>3, <2>1, <3>1
  <2> QED BY <1>1, <1>2, <1>3, <2>1, UnrecordedLinked, SameCharged DEF ChargeInv, LimitInv
<1>4. ASSUME NEW s \in Recs(u), s.id = id,
             Exchanged(u, s, IF b THEN EndSegment(s, now) ELSE AddSegment(s, now))
      PROVE  Linked' /\ Charged'
  <2> DEFINE r == IF b THEN EndSegment(s, now) ELSE AddSegment(s, now)
  <2>1. s \in Session /\ now \in Times /\ Good(s, now)
    BY RecsGood DEF LimitInv, GoodSet
  <2>2. /\ r \in Session /\ r.id = s.id /\ r.pos = s.pos /\ r.start = s.start
        /\ r.end = s.end /\ (IsIdle(r) <=> b) /\ Duration(r, now) = Duration(s, now)
    BY <2>1, SegmentKept
  <2>3. IsActive(s) /\ screens[id].begun = s.start
    BY <1>4 DEF ChargeInv, Linked, Shown, Matches, Fits
  <2>4. Exchanged(u, s, r)
    BY <1>4
  <2> HIDE DEF r
  <2>5. IsActive(r)
    BY <2>2, <2>3 DEF IsActive
  <2>6. scr.locked <=> IsIdle(r)
    BY <1>1, <2>2
  <2>7. Fits(r, scr, u)
    BY <1>1, <1>2, <2>2, <2>3, <2>5, <2>6 DEF Fits
  <2>8. /\ screens' = [screens EXCEPT ![s.id] = scr] /\ s.id \in DOMAIN screens
        /\ screens[s.id] # Missing /\ UNCHANGED <<logins, now>>
    BY <1>1, <1>4
  <2>9. Linked'
    <3>1. Inv /\ Linked
      BY DEF ChargeInv, LimitInv
    <3>2. r \in Session /\ r.id = s.id /\ r.pos = s.pos /\ r.start = s.start
      BY <2>2
    <3> QED BY <2>4, <2>7, <2>8, <3>1, <3>2, ExchangeLinked
  <2>10. Charged'
    BY <2>2, <2>4, ExchangeCharged DEF ChargeInv, LimitInv
  <2> QED BY <2>9, <2>10
<1> QED BY <1>3, <1>4

LEMMA LockCharge ==
    ASSUME LimitInv, ChargeInv, ~ SaveMayFail, NEW id \in Ids, screens[id] # Missing,
           screens' = [screens EXCEPT ![id].locked = TRUE], UNCHANGED <<logins, spent>>,
           HandleLock(screens[id].user, id)
    PROVE  ChargeInv'
<1> DEFINE u == screens[id].user
<1>1. u \in UserNames
  BY ScreenType DEF LimitInv
<1>2. /\ now' = now /\ Saved'
      /\ \/ (\A s \in Recs(u) : s.id # id) /\ RecsKept
         \/ \E s \in Recs(u) : s.id = id /\ Exchanged(u, s, EndSegment(s, now))
  BY <1>1, LockStores DEF LimitInv, ChargeInv, Linked
<1> QED BY <1>1, <1>2, ScreenSetCharge DEF ChargeInv

LEMMA UnlockCharge ==
    ASSUME LimitInv, ChargeInv, ~ SaveMayFail, NEW id \in Ids, Unlock(id)
    PROVE  ChargeInv'
<1> DEFINE u == screens[id].user
<1>1. u \in UserNames /\ screens[id] # Missing
  BY ScreenType DEF LimitInv, Unlock
<1>2. /\ now' = now /\ Saved'
      /\ \/ (\A s \in Recs(u) : s.id # id) /\ RecsKept
         \/ \E s \in Recs(u) : s.id = id /\ Exchanged(u, s, AddSegment(s, now))
  BY <1>1, UnlockStores DEF Unlock, LimitInv, ChargeInv, Linked
<1>3. /\ screens' = [screens EXCEPT ![id].locked = FALSE]
      /\ UNCHANGED <<logins, spent>>
  BY DEF Unlock, watched
<1> QED BY <1>1, <1>2, <1>3, ScreenSetCharge DEF ChargeInv

LEMMA LoginCharge ==
    ASSUME LimitInv, ChargeInv, ~ SaveMayFail, NEW id \in Ids, NEW u \in UserNames, Login(u, id)
    PROVE  ChargeInv'
<1>1. /\ id \notin Range(logins) /\ HandleLogin(u, id) /\ logins' = Append(logins, id)
      /\ screens' = [screens EXCEPT ![id] = [user |-> u, locked |-> FALSE, begun |-> now]]
      /\ UNCHANGED spent /\ id \in DOMAIN screens
  BY DEF Login, LimitInv, ScreenTypes
<1>2. now' = now /\ Saved' /\ Added(u, NewSession(NextOf(u), id, now))
  BY <1>1, LoginStores DEF LimitInv, ChargeInv, Linked
<1>3. Linked'
  BY <1>1, <1>2, AddLinked DEF LimitInv, ChargeInv
<1>4. Charged'
  BY <1>1, <1>2, AddCharged DEF LimitInv, ChargeInv
<1> QED BY <1>2, <1>3, <1>4 DEF ChargeInv

LEMMA LogoutCharge ==
    ASSUME LimitInv, ChargeInv, ~ SaveMayFail, NEW id \in Ids, Logout(id)
    PROVE  ChargeInv'
<1>1. /\ screens[id] # Missing /\ screens' = [screens EXCEPT ![id] = Missing]
      /\ HandleLogout(id) /\ UNCHANGED <<logins, spent>> /\ id \in DOMAIN screens
      /\ screens[id].user \in UserNames
  BY ScreenType DEF Logout, LimitInv, ScreenTypes, watched
<1>2. /\ now' = now /\ Saved'
      /\ \/ (\A u \in UserNames : \A s \in Recs(u) : s.id # id) /\ RecsKept
         \/ \E u \in UserNames : \E s \in Recs(u) :
               s.id = id /\ IsActive(s) /\ Exchanged(u, s, End(s, now))
  BY <1>1, LogoutStores DEF LimitInv, ChargeInv, Linked
<1>3. CASE (\A u \in UserNames : \A s \in Recs(u) : s.id # id) /\ RecsKept
  BY <1>1, <1>2, <1>3, UnrecordedLinked, SameCharged DEF ChargeInv, LimitInv
<1>4. ASSUME NEW u \in UserNames, NEW s \in Recs(u), s.id = id, IsActive(s),
             Exchanged(u, s, End(s, now))
      PROVE  Linked' /\ Charged'
  <2> DEFINE r == End(s, now)
  <2>1. s \in Session /\ now \in Times /\ Good(s, now)
    BY RecsGood DEF LimitInv, GoodSet
  <2>2. /\ r \in Session /\ r.id = s.id /\ r.pos = s.pos /\ r.start = s.start
        /\ ~ IsActive(r) /\ r.segs = EndSegment(s, now).segs
        /\ Duration(r, now) = Duration(s, now)
    BY <2>1, EndType, EndGood, EndTime
  <2>3. IsIdle(EndSegment(s, now))
    BY <2>1, SegmentKept
  <2>4. Exchanged(u, s, r)
    BY <1>4
  <2> HIDE DEF r
  <2>5. IsIdle(r)
    BY <2>2, <2>3 DEF IsIdle
  <2>6. Fits(r, Missing, u)
    BY <2>2, <2>5 DEF Fits
  <2>7. /\ screens' = [screens EXCEPT ![s.id] = Missing] /\ s.id \in DOMAIN screens
        /\ screens[s.id] # Missing /\ UNCHANGED <<logins, now>>
    BY <1>1, <1>2, <1>4
  <2>8. Linked'
    BY <2>2, <2>4, <2>6, <2>7, ExchangeLinked DEF ChargeInv, LimitInv
  <2>9. Charged'
    BY <1>1, <1>2, <2>2, <2>4, ExchangeCharged DEF ChargeInv, LimitInv
  <2> QED BY <2>8, <2>9
<1> QED BY <1>2, <1>3, <1>4 DEF ChargeInv

\* The engine locks a screen of the user it looks at.
LEMMA CheckUserCharge ==
    ASSUME LimitInv, ChargeInv, ~ SaveMayFail, NEW u \in UserNames, CheckUser(u)
    PROVE  ChargeInv'
<1>1. running /\ UNCHANGED <<logins, spent>>
  BY DEF CheckUser, watched
<1>2. CASE UNCHANGED <<vars, screens>>
  <2>1. UNCHANGED <<now, since, running, users, disk>>
    BY <1>2 DEF vars, machineVars
  <2>2. Kept' = Kept
    BY <2>1 DEF Kept
  <2>3. RecsKept /\ Saved'
    BY <2>1, <2>2 DEF RecsKept, Recs, NextOf, ChargeInv, Saved
  <2> QED BY <1>1, <1>2, <2>1, <2>3, StillCharged
<1>3. ASSUME NEW s \in ToLock(u), screens' = [screens EXCEPT ![s.id].locked = TRUE],
             HandleLock(u, s.id)
      PROVE  ChargeInv'
  <2>1. s.id \in Ids /\ screens[s.id] # Missing
    BY <1>3, ToLockIsRecord DEF LimitInv
  <2>2. s \in Recs(u)
    BY <1>1, <1>3 DEF ToLock, Watched, Known, GetActiveSession, Newest, Active, Recs, Kept,
       SessionsOf
  <2>3. screens[s.id].user = u
    BY <2>1, <2>2 DEF ChargeInv, Linked, Shown, Matches, Fits
  <2> QED BY <1>1, <1>3, <2>1, <2>3, LockCharge
<1> QED BY <1>2, <1>3 DEF CheckUser

\* Adding an override touches no session.
LEMMA AddOverrideCharge ==
    ASSUME LimitInv, ChargeInv, ~ SaveMayFail, NEW u \in UserNames, NEW o \in Overrides,
           AddOverride(u, o)
    PROVE  /\ ChargeInv'
           /\ OverridesOf(u)' = Append(OverridesOf(u), o)
           /\ \A v \in UserNames : v # u => OverridesOf(v)' = OverridesOf(v)
<1> DEFINE usr == IF Known(u) THEN users[u] ELSE FreshUser
           new == [usr EXCEPT !.overrides = Append(usr.overrides, o)]
<1>1. Handler /\ Store(u, new) /\ UNCHANGED limitVars
  BY DEF AddOverride
<1>2. usr \in User
  <2>1. FreshUser \in User
    BY DEF FreshUser, User, Times, Zero
  <2>2. users[u] # Missing => users[u] \in User
    BY UserMapElement DEF LimitInv, Inv, TypeOK
  <2> QED BY <2>1, <2>2 DEF Known
<1>3. usr.sessions = Recs(u) /\ usr.next = NextOf(u) /\ usr.overrides = OverridesOf(u)
  BY <1>1 DEF Recs, NextOf, OverridesOf, Kept, Known, FreshUser, Handler
<1> HIDE DEF usr
<1>4. /\ new \in User /\ new.sessions = Recs(u) /\ new.next = NextOf(u)
      /\ new.overrides = Append(OverridesOf(u), o)
  <2>1. Append(usr.overrides, o) \in Seq(Overrides)
    BY <1>2 DEF User
  <2> QED BY <1>2, <1>3, <2>1 DEF User
<1> HIDE DEF new
<1>5. /\ now' = now /\ Saved'
      /\ Recs(u)' = new.sessions /\ NextOf(u)' = new.next /\ OthersKept(u)
      /\ OverridesOf(u)' = new.overrides
      /\ \A v \in UserNames : v # u => OverridesOf(v)' = OverridesOf(v)
  BY <1>1, <1>4, Stored DEF LimitInv, ChargeInv
<1>6. RecsKept
  BY <1>4, <1>5 DEF RecsKept, OthersKept
<1>7. ChargeInv'
  BY <1>1, <1>5, <1>6, StillCharged DEF limitVars, watched
<1> QED BY <1>4, <1>5, <1>7

\* What the next start would have does not change when the file is touched.
LEMMA EndRoundCharge ==
    ASSUME LimitInv, ChargeInv, ~ SaveMayFail, EndRound
    PROVE  ChargeInv'
<1>1. Heartbeat /\ UNCHANGED <<screens, logins, spent>>
  BY DEF EndRound, watched
<1>2. running /\ UNCHANGED <<now, since, running, users>>
  BY <1>1 DEF Heartbeat, machineVars
<1>3. disk # Missing
  BY <1>2 DEF ChargeInv, Saved
<1>4. disk' = [disk EXCEPT !.mtime = now] /\ disk \in File /\ now \in Times
  BY <1>1, <1>3, FileElement DEF Heartbeat, LimitInv, Inv, TypeOK
<1>5. disk' \in File /\ disk'.users = disk.users
  BY <1>4 DEF File
<1>6. Saved'
  BY <1>2, <1>5, MissingFileAssumption DEF ChargeInv, Saved
<1>7. Kept' = Kept
  BY <1>2 DEF Kept
<1>8. RecsKept
  BY <1>7 DEF RecsKept, Recs, NextOf
<1> QED BY <1>1, <1>2, <1>6, <1>8, StillCharged

\* With the machine on since before the clock began, a start ends nothing.
LEMMA StartCharge ==
    ASSUME LimitInv, ChargeInv, Start
    PROVE  ChargeInv' /\ Kept' = Kept
<1>1. NewManager /\ UNCHANGED <<screens, logins, spent>>
  BY DEF Start, watched
<1>2. ~ running /\ running' /\ UNCHANGED <<now, since>>
  BY <1>1 DEF NewManager, machineVars
<1>3. CASE disk = Missing /\ users' = NoUsers /\ disk' = [users |-> NoUsers, mtime |-> now]
  <2>1. disk' \in File /\ disk'.users = users'
    BY <1>3, NoUsersGood DEF File, LimitInv, Inv, TypeOK
  <2>2. Saved'
    BY <1>2, <2>1, MissingFileAssumption DEF ChargeInv, Saved
  <2>3. Kept' = Kept
    BY <1>2, <1>3 DEF Kept
  <2>4. RecsKept
    BY <2>3 DEF RecsKept, Recs, NextOf
  <2> QED BY <1>1, <1>2, <2>2, <2>3, <2>4, StillCharged
<1>4. CASE disk # Missing /\ users' = StartUpChecks(disk.users, disk.mtime) /\ UNCHANGED disk
  <2>1. ~ SystemWasDown(disk.mtime)
    <3>1. since = Zero /\ disk.mtime \in Nat /\ now \in Nat
      BY <1>4, FileElement DEF ChargeInv, Saved, LimitInv, Inv, TypeOK, Times
    <3> QED BY <3>1 DEF SystemWasDown, Zero
  <2>2. users' = Trim(disk.users, now)
    BY <1>4, <2>1 DEF StartUpChecks, Trim
  <2>3. Kept' = Kept
    BY <1>2, <1>4, <2>2 DEF Kept
  <2>4. Trim(Trim(disk.users, now), now) = Trim(disk.users, now)
    BY <1>4, TrimTwice DEF LimitInv, Inv
  <2>5. Saved'
    BY <1>2, <1>4, <2>2, <2>4 DEF ChargeInv, Saved
  <2>6. RecsKept
    BY <2>3 DEF RecsKept, Recs, NextOf
  <2> QED BY <1>1, <1>2, <2>3, <2>5, <2>6, StillCharged
<1> QED BY <1>1, <1>3, <1>4 DEF NewManager

\* A stop loses what memory had and the file has not: sessions of days before.
LEMMA StopCharge ==
    ASSUME LimitInv, ChargeInv, Stop
    PROVE  ChargeInv' /\ OverridesKept
<1>1. running /\ ~ running' /\ UNCHANGED <<screens, logins, spent, now, since, disk>>
  BY DEF Stop, DaemonStop, Forget, watched
<1>2. Kept = users /\ Kept' = Trim(users, now)
  BY <1>1 DEF Kept, ChargeInv, Saved
<1>3. Saved'
  BY <1>1 DEF ChargeInv, Saved
<1>4. \A u \in UserNames :
        /\ Recs(u)' = RemoveOldSessions(Recs(u), now) /\ NextOf(u)' = NextOf(u)
        /\ OverridesOf(u)' = OverridesOf(u)
  <2> SUFFICES ASSUME NEW u \in UserNames
               PROVE  /\ Recs(u)' = RemoveOldSessions(Recs(u), now) /\ NextOf(u)' = NextOf(u)
                      /\ OverridesOf(u)' = OverridesOf(u)
    OBVIOUS
  <2>1. CASE users[u] = Missing
    <3>1. Kept[u] = Missing /\ Kept'[u] = Missing
      BY <1>2, <2>1 DEF Trim
    <3> QED BY <3>1 DEF Recs, NextOf, OverridesOf, RemoveOldSessions
  <2>2. CASE users[u] # Missing
    <3>1. users[u] \in User
      BY <2>2, UserMapElement DEF LimitInv, Inv, TypeOK
    <3>2. Kept'[u] = [users[u] EXCEPT !.sessions = RemoveOldSessions(users[u].sessions, now)]
      BY <1>2, <2>2 DEF Trim
    <3>3. /\ Kept'[u].sessions = RemoveOldSessions(users[u].sessions, now)
          /\ Kept'[u].next = users[u].next /\ Kept'[u] \in User
          /\ Kept'[u].overrides = users[u].overrides
      BY <3>1, <3>2 DEF User, RemoveOldSessions
    <3> QED BY <1>2, <2>2, <3>3, MissingAssumption DEF Recs, NextOf, OverridesOf
  <2> QED BY <2>1, <2>2
<1>5. Linked'
  BY <1>1, <1>4, TrimmedLinked DEF LimitInv, ChargeInv
<1>6. Charged'
  BY <1>1, <1>4, TodaysUsed DEF ChargeInv, Charged
<1> QED BY <1>3, <1>4, <1>5, <1>6 DEF ChargeInv, OverridesKept

\* What a start would leave out now it would leave out in a minute, too.
LEMMA TrimLater ==
    ASSUME NEW us \in UserMap, NEW t \in Nat, GoodUsers(us, t)
    PROVE  Trim(us, t + 1) = Trim(Trim(us, t), t + 1)
<1> DEFINE T == Trim(us, t)
<1>1. ASSUME NEW u \in UserNames PROVE Trim(us, t + 1)[u] = Trim(T, t + 1)[u]
  <2>1. CASE us[u] = Missing
    BY <2>1 DEF Trim
  <2>2. CASE us[u] # Missing
    <3> DEFINE S == us[u].sessions
               R == RemoveOldSessions(S, t)
               usr == [us[u] EXCEPT !.sessions = R]
    <3>1. us[u] \in User /\ S \in SUBSET Session /\ \A s \in S : s.start <= t
      BY <2>2, UserMapElement DEF GoodUsers, GoodSet, Good, StampedBy
    <3>2. T[u] = usr
      BY <2>2 DEF Trim
    <3>3. usr \in User /\ usr.sessions = R
      BY <3>1 DEF User, RemoveOldSessions
    <3>4. RemoveOldSessions(S, t + 1) = RemoveOldSessions(R, t + 1)
      <4>1. CASE Day(t + 1) = Day(t)
        BY <4>1 DEF RemoveOldSessions
      <4>2. CASE Day(t + 1) # Day(t)
        <5>1. RemoveOldSessions(S, t + 1) = {}
          <6> HIDE DEF S
          <6> QED BY <3>1, <4>2, NewDayUsed
        <5> QED BY <5>1 DEF RemoveOldSessions
      <4> QED BY <4>1, <4>2
    <3>5. usr # Missing
      BY <3>3, MissingAssumption
    <3>6. Trim(T, t + 1)[u] = [usr EXCEPT !.sessions = RemoveOldSessions(R, t + 1)]
      BY <3>2, <3>3, <3>5 DEF Trim
    <3>7. [usr EXCEPT !.sessions = RemoveOldSessions(R, t + 1)]
            = [us[u] EXCEPT !.sessions = RemoveOldSessions(R, t + 1)]
      BY <3>1 DEF User
    <3>8. Trim(us, t + 1)[u] = [us[u] EXCEPT !.sessions = RemoveOldSessions(S, t + 1)]
      BY <2>2 DEF Trim
    <3> HIDE DEF S, R, usr, T
    <3> QED BY <3>4, <3>6, <3>7, <3>8
  <2> QED BY <2>1, <2>2
<1> QED BY <1>1 DEF Trim

\* The records that run today are those of the unlocked screens begun today.
LEMMA RunningAreUnlocked ==
    ASSUME Inv, Linked, NEW u \in UserNames
    PROVE  Cardinality({s \in RemoveOldSessions(Recs(u), now) : ~ IsIdle(s)})
             = Cardinality({id \in Unlocked(u) : BegunToday(id)})
<1> DEFINE A == {s \in RemoveOldSessions(Recs(u), now) : ~ IsIdle(s)}
           B == {id \in Unlocked(u) : BegunToday(id)}
           f == [s \in A |-> s.id]
<1>1. Recs(u) \in SUBSET Session /\ IsFiniteSet(Recs(u))
  BY RecsGood DEF Linked, Numbered
<1>2. A \in SUBSET Recs(u) /\ IsFiniteSet(A)
  BY <1>1, FS_Subset DEF RemoveOldSessions
<1>3. ASSUME NEW s \in A PROVE s.id \in B
  <2>1. s \in Recs(u) /\ s \in Session /\ ~ IsIdle(s) /\ Day(s.start) = Day(now)
    BY <1>1 DEF RemoveOldSessions
  <2>2. Fits(s, screens[s.id], u)
    BY <2>1 DEF Linked, Shown, Matches
  <2>3. /\ screens[s.id] # Missing /\ screens[s.id].user = u
        /\ screens[s.id].begun = s.start /\ ~ screens[s.id].locked
    BY <2>1, <2>2 DEF Fits
  <2>4. s.id \in Ids
    BY <2>1 DEF Session
  <2> QED BY <2>1, <2>3, <2>4 DEF Unlocked, ScreensOf, BegunToday
<1>4. ASSUME NEW id \in B PROVE \E s \in A : s.id = id
  <2>1. /\ id \in OpenedToday(u) /\ screens[id] # Missing /\ ~ screens[id].locked
        /\ Day(screens[id].begun) = Day(now)
    BY DEF Unlocked, ScreensOf, OpenedToday, BegunToday
  <2>2. PICK s \in Recs(u) : s.id = id
    BY <2>1 DEF Linked, Complete
  <2>3. Fits(s, screens[id], u)
    BY <2>2 DEF Linked, Shown, Matches
  <2>4. ~ IsIdle(s) /\ s.start = screens[id].begun
    BY <2>1, <2>3 DEF Fits
  <2> QED BY <2>1, <2>2, <2>4 DEF RemoveOldSessions
<1>5. \A s, r \in A : s.id = r.id => s = r
  BY <1>2 DEF Linked, OnePerId
<1> HIDE DEF A, B
<1>6. f \in Bijection(A, B)
  BY <1>3, <1>4, <1>5 DEF Bijection, Injection, Surjection, IsInjective
<1>7. Cardinality(A) = Cardinality(B)
  <2>1. ExistsBijection(A, B)
    BY <1>6 DEF ExistsBijection
  <2> QED BY <1>2, <2>1, FS_Bijection
<1> QED BY <1>7 DEF A, B

\* The screens begun today are the same in the next minute, unless the day
\* ends: then there are none.
LEMMA MinuteOpened ==
    ASSUME LimitInv, ChargeInv, Minute, NEW u \in UserNames
    PROVE  /\ OpenedToday(u)' \subseteq OpenedToday(u)
           /\ Day(now + 1) # Day(now) => OpenedToday(u)' = {}
<1>1. now' = now + 1 /\ UNCHANGED screens /\ now \in Nat
  BY DEF Minute, Tick, LimitInv, Inv, TypeOK, Times
<1>2. \A id \in Ids : screens[id] # Missing =>
          screens[id].begun \in Nat /\ screens[id].begun <= now
  BY ScreenType DEF LimitInv, ChargeInv, Screen, Times, Linked, Complete
<1> SUFFICES ASSUME NEW id \in OpenedToday(u)'
             PROVE  id \in OpenedToday(u) /\ Day(now + 1) = Day(now)
  OBVIOUS
<1>3. /\ id \in Ids /\ screens[id] # Missing /\ screens[id].user = u
      /\ Day(screens[id].begun) = Day(now + 1)
  BY <1>1 DEF OpenedToday, ScreensOf, BegunToday
<1>4. /\ Day(screens[id].begun) <= Day(now) /\ Day(now) <= Day(now + 1)
      /\ Day(screens[id].begun) \in Nat /\ Day(now) \in Nat /\ Day(now + 1) \in Nat
  BY <1>1, <1>2, <1>3, DaysGrow
<1>5. Day(screens[id].begun) = Day(now)
  BY <1>3, <1>4
<1> QED BY <1>3, <1>5 DEF OpenedToday, ScreensOf, BegunToday

\* A minute adds itself to the records that run and to the screens unlocked.
LEMMA MinuteCharge ==
    ASSUME LimitInv, ChargeInv, Minute
    PROVE  ChargeInv'
<1>1. /\ running /\ now' = now + 1 /\ UNCHANGED <<since, running, users, disk, screens, logins>>
      /\ now \in Nat
  BY DEF Minute, Tick, LimitInv, Inv, TypeOK, Times
<1>2. Inv /\ Linked /\ Saved /\ Charged /\ ScreenTypes
  BY DEF LimitInv, ChargeInv
<1>3. Kept' = Kept
  BY <1>1 DEF Kept
<1>4. RecsKept
  BY <1>3 DEF RecsKept, Recs, NextOf
<1>5. Saved'
  <2>1. disk # Missing /\ Trim(disk.users, now) = Trim(users, now) /\ since = Zero
    BY <1>1, <1>2 DEF Saved
  <2>2. users \in UserMap /\ GoodUsers(users, now)
    BY <1>2 DEF Inv, TypeOK
  <2>3. disk.users \in UserMap /\ GoodUsers(disk.users, now)
    <3>1. /\ disk.users \in UserMap /\ disk.mtime \in Nat /\ disk.mtime <= now
          /\ GoodUsers(disk.users, disk.mtime)
      BY <1>2, <2>1, FileElement DEF Inv, Times
    <3> QED BY <1>1, <3>1, GoodSetLater DEF GoodUsers
  <2>4. Trim(disk.users, now + 1) = Trim(users, now + 1)
    BY <1>1, <2>1, <2>2, <2>3, TrimLater
  <2> QED BY <1>1, <2>1, <2>4 DEF Saved
<1>6. \A id \in Ids : screens[id] # Missing =>
          screens[id].begun \in Nat /\ screens[id].begun <= now
  BY <1>2, ScreenType DEF Screen, Times, Linked, Complete
<1>7. \A u \in UserNames : OpenedToday(u)' \subseteq OpenedToday(u)
  BY MinuteOpened
<1>8. Linked'
  BY <1>1, <1>2, <1>4, <1>6, <1>7, SameLinked
<1>9. Charged'
  <2> SUFFICES ASSUME NEW u \in UserNames PROVE GetTimeUsed(Recs(u), now + 1) = spent'[u]
    BY <1>1, <1>4 DEF Charged, RecsKept
  <2> DEFINE S == Recs(u)
             B == {id \in Unlocked(u) : BegunToday(id)}
  <2>1. /\ S \in SUBSET Session /\ IsFiniteSet(S)
        /\ \A s \in S : Chained(s) /\ s.start <= now
    BY <1>2, RecsGood DEF Linked, Numbered, GoodSet, Good, StampedBy
  <2>2. spent'[u] = IF Day(now + 1) = Day(now) THEN spent[u] + Cardinality(B) ELSE 0
    BY <1>1 DEF Minute
  <2>3. GetTimeUsed(S, now) = spent[u]
    BY <1>2 DEF Charged
  <2>4. Cardinality({s \in RemoveOldSessions(S, now) : ~ IsIdle(s)}) = Cardinality(B)
    BY <1>2, RunningAreUnlocked
  <2> HIDE DEF S, B
  <2>5. CASE Day(now + 1) = Day(now)
    BY <1>1, <2>1, <2>2, <2>3, <2>4, <2>5, TickUsed DEF S
  <2>6. CASE Day(now + 1) # Day(now)
    BY <1>1, <2>1, <2>2, <2>6, NewDayUsed DEF S
  <2> QED BY <2>5, <2>6
<1> QED BY <1>5, <1>8, <1>9 DEF ChargeInv

\* Without records no time is used.
LEMMA NothingUsed ==
    ASSUME NEW t \in Nat
    PROVE  GetTimeUsed({}, t) = 0
<1>1. RemoveOldSessions({}, t) = {}
  BY DEF RemoveOldSessions
<1>2. GetTimeUsed({}, t) = SumOf(Used(t), RemoveOldSessions({}, t))
  BY UsedIsSum, FS_EmptySet
<1> QED BY <1>1, <1>2, SumEmpty

LEMMA InitCharge == LimitInit => ChargeInv
<1> SUFFICES ASSUME LimitInit PROVE ChargeInv
  OBVIOUS
<1>1. /\ ~ running /\ disk = Missing /\ since = Zero /\ logins = <<>> /\ now \in Nat
      /\ screens = [id \in Ids |-> Missing] /\ spent = NoTime
  BY DEF LimitInit, Init, machineVars
<1>2. \A u \in UserNames : Recs(u) = {} /\ NextOf(u) = 1
  BY <1>1 DEF Recs, NextOf, Kept, NoUsers
<1>3. Linked
  <2>1. Shown /\ OnePerId /\ Ordered /\ Aged
    BY <1>2 DEF Shown, OnePerId, Ordered, Aged
  <2>2. Numbered
    BY <1>2, FS_EmptySet DEF Numbered
  <2>3. Complete
    BY <1>1 DEF Complete, OpenedToday, ScreensOf
  <2> QED BY <2>1, <2>2, <2>3 DEF Linked
<1>4. Charged
  BY <1>1, <1>2, NothingUsed DEF Charged, NoTime
<1> QED BY <1>1, <1>3, <1>4 DEF ChargeInv, Saved

LEMMA StepCharge ==
    ASSUME LimitInv, ChargeInv, ~ SaveMayFail, [LimitNext]_allVars
    PROVE  ChargeInv'
<1>1. CASE \E id \in Ids, u \in UserNames : Login(u, id)
  BY <1>1, LoginCharge
<1>2. CASE \E id \in Ids : Logout(id)
  BY <1>2, LogoutCharge
<1>3. CASE \E id \in Ids : LockScreen(id)
  BY <1>3, LockCharge DEF LockScreen, watched
<1>4. CASE \E id \in Ids : Unlock(id)
  BY <1>4, UnlockCharge
<1>5. CASE \E u \in UserNames : CheckUser(u)
  BY <1>5, CheckUserCharge
<1>6. CASE \E u \in UserNames, o \in Overrides : AddOverride(u, o)
  BY <1>6, AddOverrideCharge
<1>7. CASE EndRound
  BY <1>7, EndRoundCharge
<1>8. CASE Start
  BY <1>8, StartCharge
<1>9. CASE Stop
  BY <1>9, StopCharge
<1>10. CASE Minute
  BY <1>10, MinuteCharge
<1>11. CASE UNCHANGED allVars
  <2>1. UNCHANGED <<now, since, running, users, disk, screens, logins, spent>>
    BY <1>11 DEF allVars, limitVars, watched, vars, machineVars
  <2>2. Kept' = Kept
    BY <2>1 DEF Kept
  <2>3. RecsKept /\ Saved'
    BY <2>1, <2>2 DEF RecsKept, Recs, NextOf, ChargeInv, Saved
  <2> QED BY <2>1, <2>3, StillCharged
<1> QED BY <1>1, <1>2, <1>3, <1>4, <1>5, <1>6, <1>7, <1>8, <1>9, <1>10, <1>11 DEF LimitNext

LEMMA ChargeInvariance ==
    ASSUME ~ SaveMayFail
    PROVE  LimitSpec => []ChargeInv
<1>1. LimitInv /\ ChargeInv /\ [LimitNext]_allVars => ChargeInv'
  BY StepCharge
<1> QED BY <1>1, InitCharge, LimitInvariance, PTL DEF LimitSpec

\* A user is charged for exactly the minutes the user's screens of today were
\* unlocked, through locks, logouts, restarts, rounds and midnights.
THEOREM ChargedIsSpent ==
    ASSUME ~ SaveMayFail
    PROVE  LimitSpec => []ChargedAsSpent
<1>1. LimitInv /\ ChargeInv => ChargedAsSpent
  <2> SUFFICES ASSUME LimitInv, ChargeInv, running, NEW u \in UserNames PROVE TimeUsed(u) = spent[u]
    BY DEF ChargedAsSpent
  <2>1. Recs(u) = IF users[u] = Missing THEN {} ELSE SessionsOf(u)
    BY DEF Recs, Kept, SessionsOf
  <2>2. GetTimeUsed(Recs(u), now) = spent[u]
    BY DEF ChargeInv, Charged
  <2>3. ASSUME users[u] = Missing PROVE spent[u] = 0
    BY <2>1, <2>2, <2>3, RecsGood, NothingUsed DEF LimitInv
  <2> QED BY <2>1, <2>2, <2>3 DEF TimeUsed, Known
<1> QED BY <1>1, LimitInvariance, ChargeInvariance, PTL

-----------------------------------------------------------------------------
(* The allowance: the limit and the extra time in force.                   *)

Extras(os) == [i \in DOMAIN os |-> os[i].extra]
Given(os, t) == {i \in P!InForce(os, t) : os[i].extra > 0}

\* Extra time is a sum over the overrides in force.
LEMMA ExtraIsSum ==
    ASSUME NEW os \in Seq(Overrides), NEW t
    PROVE  /\ P!ExtraTime(os, t) = SumOf(Extras(os), Given(os, t))
           /\ IsFiniteSet(Given(os, t)) /\ Given(os, t) \in SUBSET DOMAIN os
           /\ \A i \in Given(os, t) : Extras(os)[i] \in Nat
           /\ P!ExtraTime(os, t) \in Nat
<1> DEFINE D == Given(os, t)
           f == Extras(os)
<1>1. D \in SUBSET DOMAIN os /\ IsFiniteSet(D)
  <2>1. DOMAIN os = 1 .. Len(os) /\ Len(os) \in Nat
    OBVIOUS
  <2>2. IsFiniteSet(DOMAIN os)
    BY <2>1, FS_Interval
  <2>3. D \in SUBSET DOMAIN os
    BY DEF Given, P!InForce
  <2> QED BY <2>2, <2>3, FS_Subset
<1>2. \A i \in D : f[i] = os[i].extra /\ f[i] \in Nat /\ f[i] \in Int
  <2>1. \A i \in DOMAIN os : os[i] \in Overrides
    OBVIOUS
  <2> QED BY <1>1, <2>1, GrantsAssumption DEF Extras, Given
<1>3. PICK it : IsFold(it, f, D)
  <2> HIDE DEF D, f
  <2> QED BY <1>1, <1>2, FoldExists
<1>4. \A r \in SUBSET D : r # {} => f[Chosen(r)] = os[Chosen(r)].extra
  BY <1>1, <1>2, ChosenIn
<1>5. it = [r \in SUBSET D |-> IF r = {} THEN 0
                ELSE os[Chosen(r)].extra + it[r \ {Chosen(r)}]]
  <2> HIDE DEF D, f
  <2> QED BY <1>3, <1>4 DEF IsFold
<1>6. \E jt : /\ jt = [r \in SUBSET D |-> IF r = {} THEN 0
                         ELSE os[Chosen(r)].extra + jt[r \ {Chosen(r)}]]
              /\ P!ExtraTime(os, t) = 1 * jt[D]
  BY <1>5, Zenon DEF Chosen, Given, P!ExtraTime, P!MapThenSumSet, P!MapThenFoldSet
<1>7. PICK jt : /\ jt = [r \in SUBSET D |-> IF r = {} THEN 0
                           ELSE os[Chosen(r)].extra + jt[r \ {Chosen(r)}]]
                /\ P!ExtraTime(os, t) = 1 * jt[D]
  BY <1>6
<1>8. IsFold(jt, f, D)
  <2> HIDE DEF D, f
  <2> QED BY <1>4, <1>7 DEF IsFold
<1> HIDE DEF D, f
<1>9. SumOf(f, D) = jt[D] /\ SumOf(f, D) \in Nat
  BY <1>1, <1>2, <1>8, FoldIsSum, SumNat
<1> QED BY <1>1, <1>2, <1>7, <1>9 DEF D, f

\* Without overrides there is none, and one more does not make it less.
LEMMA ExtraGrows ==
    ASSUME NEW t
    PROVE  /\ P!ExtraTime(<<>>, t) = 0
           /\ \A os \in Seq(Overrides), o \in Overrides :
                P!ExtraTime(os, t) <= P!ExtraTime(Append(os, o), t)
<1>1. P!ExtraTime(<<>>, t) = 0
  <2>1. /\ P!ExtraTime(<<>>, t) = SumOf(Extras(<<>>), Given(<<>>, t))
        /\ Given(<<>>, t) \in SUBSET DOMAIN <<>>
    <3>1. <<>> \in Seq(Overrides)
      OBVIOUS
    <3> QED BY <3>1, ExtraIsSum
  <2>2. Given(<<>>, t) = {}
    BY <2>1
  <2> QED BY <2>1, <2>2, SumEmpty
<1>2. ASSUME NEW os \in Seq(Overrides), NEW o \in Overrides
      PROVE  P!ExtraTime(os, t) <= P!ExtraTime(Append(os, o), t)
  <2> DEFINE ps == Append(os, o)
             S == Given(ps, t)
             T == Given(os, t)
             f == Extras(os)
             g == Extras(ps)
  <2>1. /\ ps \in Seq(Overrides) /\ DOMAIN os \subseteq DOMAIN ps
        /\ \A i \in DOMAIN os : ps[i] = os[i]
    OBVIOUS
  <2>2. /\ P!ExtraTime(os, t) = SumOf(f, T) /\ IsFiniteSet(T) /\ T \in SUBSET DOMAIN os
        /\ \A i \in T : f[i] \in Nat
    BY ExtraIsSum
  <2>3. /\ P!ExtraTime(ps, t) = SumOf(g, S) /\ IsFiniteSet(S)
        /\ \A i \in S : g[i] \in Nat
    BY <2>1, ExtraIsSum
  <2>4. T \in SUBSET S
    BY <2>1 DEF Given, P!InForce
  <2>5. \A i \in T : f[i] = g[i]
    BY <2>1, <2>2 DEF Extras
  <2> HIDE DEF S, T, f, g
  <2>6. SumOf(f, T) = SumOf(g, T)
    BY <2>2, <2>5, SumSame
  <2>7. SumOf(g, T) <= SumOf(g, S)
    BY <2>3, <2>4, SumMonotone
  <2> QED BY <2>2, <2>3, <2>6, <2>7 DEF S, T, f, g
<1> QED BY <1>1, <1>2

\* What a user may spend today by the records kept.
Credit(u) == Configs[u].own.limit + P!ExtraTime(OverridesOf(u), now)

\* For a user with a limit it is a positive number, and what the daemon goes by.
LEMMA CreditIsAllowance ==
    ASSUME LimitInv, ChargeInv, NEW u \in UserNames, Limited(u)
    PROVE  /\ Credit(u) \in Nat \ {0} /\ spent[u] \in Int
           /\ P!ExtraTime(OverridesOf(u), now) \in Nat
           /\ running => Allowance(u) = Credit(u)
<1>1. OverridesOf(u) \in Seq(Overrides) /\ Recs(u) \in SUBSET Session /\ now \in Nat
  BY RecsGood DEF LimitInv
<1>2. P!ExtraTime(OverridesOf(u), now) \in Nat
  BY <1>1, ExtraIsSum
<1>3. Configs[u].own.limit \in Int /\ Configs[u].own.limit > 0
  BY GrantsAssumption DEF Limited
<1>4. spent[u] \in Int
  <2>1. spent[u] = GetTimeUsed(Recs(u), now) /\ IsFiniteSet(Recs(u))
    BY DEF ChargeInv, Charged, Linked, Numbered
  <2> DEFINE D == RemoveOldSessions(Recs(u), now)
  <2>2. /\ GetTimeUsed(Recs(u), now) = SumOf(Used(now), D) /\ IsFiniteSet(D)
        /\ \A s \in D : Used(now)[s] \in Int
    BY <1>1, <2>1, UsedIsSum
  <2> HIDE DEF D
  <2> QED BY <2>1, <2>2, SumType
<1>5. ASSUME running PROVE Allowance(u) = Credit(u)
  <2>1. CASE users[u] = Missing
    <3>1. OverridesOf(u) = <<>> /\ P!ExtraTime(<<>>, now) = 0
      BY <1>5, <2>1, ExtraGrows DEF OverridesOf, Kept
    <3> QED BY <2>1, <3>1 DEF Allowance, Credit, Known
  <2>2. CASE users[u] # Missing
    BY <1>5, <2>2 DEF Allowance, Credit, Known, OverridesOf, Kept
  <2> QED BY <2>1, <2>2
<1> QED BY <1>2, <1>3, <1>4, <1>5 DEF Credit

\* PAM lets in only users who have not spent what they may.
LEMMA PermittedBelow ==
    ASSUME LimitInv, ChargeInv, running, NEW u \in UserNames, Limited(u), Permitted(u)
    PROVE  spent[u] < Credit(u)
<1>1. Credit(u) \in Nat \ {0} /\ spent[u] \in Int /\ Allowance(u) = Credit(u)
  BY CreditIsAllowance
<1>2. Recs(u) = (IF Known(u) THEN SessionsOf(u) ELSE {}) /\ spent[u] = GetTimeUsed(Recs(u), now)
  BY DEF Recs, Kept, Known, SessionsOf, ChargeInv, Charged
<1>3. CASE ~ Known(u)
  <2>1. spent[u] = 0
    BY <1>2, <1>3, RecsGood, NothingUsed DEF LimitInv
  <2> QED BY <1>1, <2>1
<1>4. CASE Known(u)
  <2>1. TimeUsed(u) = spent[u]
    BY <1>2, <1>4 DEF TimeUsed
  <2>2. P!PermitLogin(Configs[u], users[u], spent[u], now) /\ users[u] # Missing
    BY <1>4, <2>1 DEF Permitted, Known
  <2>3. P!PolicyOf(Configs[u]) = Configs[u].own /\ Configs[u].own # Missing
    BY DEF Limited, P!PolicyOf
  <2>4. P!WithinLimit(Configs[u].own, users[u], spent[u], now)
    BY <2>2, <2>3 DEF P!PermitLogin
  <2>5. Configs[u].own.limit + P!ExtraTime(users[u].overrides, now) = Credit(u)
    BY <1>1, <1>4 DEF Allowance
  <2> QED BY <1>1, <2>4, <2>5 DEF P!WithinLimit
<1> QED BY <1>3, <1>4

-----------------------------------------------------------------------------
(* A round.                                                                *)

\* If a user's last active session is unlocked after the user's turn, the
\* user may go on.
LEMMA TurnLocks ==
    ASSUME LimitInv, ChargeInv, NEW u \in UserNames, CheckUser(u), Limited(u),
           NEW q \in Recs(u), IsActive(q), \A r \in Recs(u) : IsActive(r) => r.pos <= q.pos,
           screens'[q.id] # Missing, ~ screens'[q.id].locked
    PROVE  running /\ Permitted(u)
<1>1. running /\ Recs(u) = SessionsOf(u) /\ users[u] # Missing
  BY DEF CheckUser, Recs, Kept, SessionsOf
<1>2. q \in GetActiveSession(SessionsOf(u))
  BY <1>1 DEF GetActiveSession, Newest, Active
<1> SUFFICES ASSUME ~ Permitted(u) PROVE FALSE
  BY <1>1
<1>3. ToLock(u) = {s \in GetActiveSession(SessionsOf(u)) :
                     Configs[u].own.lock /\ screens[s.id] # Missing /\ ~ screens[s.id].locked}
  BY <1>1 DEF ToLock, Watched, Known, Limited
<1>4. CASE ToLock(u) = {} /\ UNCHANGED <<vars, screens>>
  <2>1. screens[q.id] # Missing /\ ~ screens[q.id].locked
    BY <1>4
  <2> QED BY <1>2, <1>3, <1>4, <2>1 DEF Limited
<1>5. ASSUME NEW s \in ToLock(u), screens' = [screens EXCEPT ![s.id].locked = TRUE]
      PROVE  FALSE
  <2>1. /\ s \in Recs(u) /\ s.id \in Ids /\ screens[s.id] # Missing
        /\ \A r \in Recs(u) : IsActive(r) => r.pos <= s.pos
        /\ IsActive(s)
    BY <1>1, <1>3, ToLockIsRecord DEF LimitInv, GetActiveSession, Newest, Active
  <2>2. screens'[s.id].locked = TRUE
    BY <1>5, <2>1, ScreenType DEF LimitInv, ScreenTypes, Screen
  <2>3. s.id # q.id
    BY <2>2
  <2>4. s.pos <= q.pos /\ q.pos <= s.pos /\ s.pos \in Nat /\ q.pos \in Nat
    BY <2>1, RecsGood DEF LimitInv, Session, Times
  <2>5. s.id \in Range(logins) /\ q.id \in Range(logins)
    BY <2>1 DEF ChargeInv, Linked, Shown
  <2>6. PICK i \in DOMAIN logins, j \in DOMAIN logins : logins[i] = s.id /\ logins[j] = q.id
    BY <2>5 DEF Range
  <2>7. i \in Nat /\ j \in Nat /\ i # j
    BY <2>3, <2>6 DEF LimitInv, LoginOrder
  <2>8. i < j => s.pos < q.pos
    BY <2>1, <2>6 DEF ChargeInv, Linked, Ordered
  <2>9. j < i => q.pos < s.pos
    BY <2>1, <2>6 DEF ChargeInv, Linked, Ordered
  <2> QED BY <2>4, <2>7, <2>8, <2>9
<1> QED BY <1>4, <1>5 DEF CheckUser

\* The record of an unlocked screen begun today is active.
LEMMA OpenedRecord ==
    ASSUME LimitInv, ChargeInv, NEW u \in UserNames, NEW id \in OpenedToday(u)
    PROVE  \E q \in Recs(u) : q.id = id /\ IsActive(q) /\ q.start = screens[id].begun
<1>1. screens[id] # Missing
  BY DEF OpenedToday, ScreensOf
<1>2. PICK q \in Recs(u) : q.id = id
  BY DEF ChargeInv, Linked, Complete
<1>3. Fits(q, screens[id], u)
  BY <1>2 DEF ChargeInv, Linked, Shown, Matches
<1> QED BY <1>1, <1>2, <1>3 DEF Fits

\* An active record has its screen, of the same user and minute.
LEMMA ActiveShown ==
    ASSUME LimitInv, ChargeInv, NEW u \in UserNames, NEW r \in Recs(u), IsActive(r)
    PROVE  /\ r.id \in ScreensOf(u) /\ r.id \in Range(logins) /\ r.id \in Ids
           /\ screens[r.id].begun = r.start
           /\ r.pos \in Nat /\ r.start \in Nat /\ r.start <= now
<1>1. r \in Session /\ Good(r, now)
  BY RecsGood DEF LimitInv, GoodSet
<1>2. r.id \in Range(logins) /\ Fits(r, screens[r.id], u)
  BY DEF ChargeInv, Linked, Shown, Matches
<1>3. screens[r.id] # Missing /\ screens[r.id].user = u /\ screens[r.id].begun = r.start
  BY <1>2 DEF Fits
<1> QED BY <1>1, <1>2, <1>3 DEF Session, Times, ScreensOf, Good, StampedBy

\* The record of the session that logged in last is the last active one.
LEMMA LatestIsNewest ==
    ASSUME LimitInv, ChargeInv, NEW u \in UserNames, NEW id \in Latest(u),
           NEW q \in Recs(u), q.id = id, IsActive(q)
    PROVE  \A r \in Recs(u) : IsActive(r) => r.pos <= q.pos
<1> SUFFICES ASSUME NEW r \in Recs(u), IsActive(r) PROVE r.pos <= q.pos
  OBVIOUS
<1> DEFINE mine == {i \in DOMAIN logins : logins[i] \in ScreensOf(u)}
<1>1. PICK j \in mine : logins[j] = id /\ \A k \in mine : k <= j
  BY DEF Latest
<1>2. r.id \in ScreensOf(u) /\ r.id \in Range(logins) /\ r.pos \in Nat /\ q.pos \in Nat
  BY ActiveShown
<1>3. PICK i \in DOMAIN logins : logins[i] = r.id
  BY <1>2 DEF Range
<1>4. i <= j /\ i \in Nat /\ j \in Nat
  BY <1>1, <1>2, <1>3 DEF LimitInv, LoginOrder
<1>5. CASE i = j
  <2>1. r = q
    BY <1>1, <1>3, <1>5 DEF ChargeInv, Linked, OnePerId
  <2> QED BY <1>2, <2>1
<1>6. CASE i < j
  <2>1. r.pos < q.pos
    BY <1>1, <1>3, <1>6 DEF ChargeInv, Linked, Ordered
  <2> QED BY <1>2, <2>1
<1> QED BY <1>4, <1>5, <1>6

\* So is that of the only session a user began today.
LEMMA OnlyIsNewest ==
    ASSUME LimitInv, ChargeInv, NEW u \in UserNames, NEW id \in OpenedToday(u),
           \A i \in OpenedToday(u) : i = id,
           NEW q \in Recs(u), q.id = id, IsActive(q)
    PROVE  \A r \in Recs(u) : IsActive(r) => r.pos <= q.pos
<1> SUFFICES ASSUME NEW r \in Recs(u), IsActive(r), ~ (r.pos <= q.pos) PROVE FALSE
  OBVIOUS
<1>1. /\ q.start = screens[id].begun /\ q.start \in Nat /\ q.pos \in Nat
      /\ r.id \in ScreensOf(u) /\ screens[r.id].begun = r.start
      /\ r.pos \in Nat /\ r.start \in Nat /\ r.start <= now
  BY ActiveShown
<1>2. q.pos <= r.pos /\ q.pos # r.pos
  BY <1>1
<1>3. q.start <= r.start
  BY <1>2 DEF ChargeInv, Linked, Aged
<1>4. Day(q.start) = Day(now)
  BY <1>1 DEF OpenedToday, BegunToday
<1>5. /\ Day(q.start) <= Day(r.start) /\ Day(r.start) <= Day(now)
      /\ Day(r.start) \in Nat /\ Day(now) \in Nat
  BY <1>1, <1>3, RecsGood, DaysGrow DEF LimitInv
<1>6. r.id \in OpenedToday(u)
  BY <1>1, <1>4, <1>5 DEF OpenedToday, BegunToday
<1>7. r = q
  BY <1>6 DEF ChargeInv, Linked, OnePerId
<1> QED BY <1>2, <1>7

-----------------------------------------------------------------------------
(* What the steps do to the allowance.                                     *)

\* Only a grant changes a user's overrides.
LEMMA OverridesStep ==
    ASSUME LimitInv, ChargeInv, ~ SaveMayFail, [LimitNext]_allVars
    PROVE  \/ OverridesKept
           \/ \E u \in UserNames, o \in Overrides :
                /\ OverridesOf(u)' = Append(OverridesOf(u), o)
                /\ \A v \in UserNames : v # u => OverridesOf(v)' = OverridesOf(v)
<1>1. Inv /\ Saved /\ Shown /\ OnePerId /\ ScreenTypes
  BY DEF LimitInv, ChargeInv, Linked
<1>2. ASSUME NEW id \in Ids, NEW u \in UserNames, Login(u, id) PROVE OverridesKept
  BY <1>1, <1>2, LoginStores DEF Login
<1>3. ASSUME NEW id \in Ids, Logout(id) PROVE OverridesKept
  BY <1>1, <1>3, LogoutStores DEF Logout
<1>4. ASSUME NEW id \in Ids, LockScreen(id) PROVE OverridesKept
  BY <1>1, <1>4, ScreenType, LockStores DEF LockScreen
<1>5. ASSUME NEW id \in Ids, Unlock(id) PROVE OverridesKept
  BY <1>1, <1>5, ScreenType, UnlockStores DEF Unlock
<1>6. ASSUME Kept' = Kept PROVE OverridesKept
  BY <1>6 DEF OverridesKept, OverridesOf
<1>7. CASE UNCHANGED <<running, users, disk, now>>
  BY <1>6, <1>7 DEF Kept
<1>8. ASSUME NEW u \in UserNames, CheckUser(u) PROVE OverridesKept
  <2>1. CASE UNCHANGED vars
    <3>1. UNCHANGED <<running, users, disk, now>>
      BY <2>1 DEF vars, machineVars
    <3> QED BY <1>6, <3>1 DEF Kept
  <2>2. ASSUME NEW s \in ToLock(u), HandleLock(u, s.id) PROVE OverridesKept
    BY <1>1, <2>2, ToLockIsRecord, LockStores
  <2> QED BY <1>8, <2>1, <2>2 DEF CheckUser
<1>9. ASSUME NEW u \in UserNames, NEW o \in Overrides, AddOverride(u, o)
      PROVE  /\ OverridesOf(u)' = Append(OverridesOf(u), o)
             /\ \A v \in UserNames : v # u => OverridesOf(v)' = OverridesOf(v)
  BY <1>9, AddOverrideCharge
<1>10. ASSUME Start PROVE OverridesKept
  BY <1>6, <1>10, StartCharge
<1>11. ASSUME Stop PROVE OverridesKept
  BY <1>11, StopCharge
<1>12. ASSUME EndRound PROVE OverridesKept
  <2>1. running /\ running' /\ UNCHANGED users
    BY <1>12 DEF EndRound, Heartbeat
  <2> QED BY <1>6, <2>1 DEF Kept
<1>13. ASSUME Minute PROVE OverridesKept
  <2>1. running /\ running' /\ UNCHANGED users
    BY <1>13 DEF Minute, Tick
  <2> QED BY <1>6, <2>1 DEF Kept
<1>14. ASSUME UNCHANGED allVars PROVE UNCHANGED <<running, users, disk, now>>
  BY <1>14 DEF allVars, vars, machineVars
<1> QED BY <1>2, <1>3, <1>4, <1>5, <1>7, <1>8, <1>9, <1>10, <1>11, <1>12, <1>13, <1>14 DEF LimitNext

\* Between minutes nothing is spent, nobody loses what was allowed, and who
\* had two sessions today has had them.
LEMMA WithinMinute ==
    ASSUME LimitInv, ChargeInv, ~ SaveMayFail, [LimitNext]_allVars, ~ Minute
    PROVE  /\ now' = now /\ spent' = spent /\ twofold \subseteq twofold'
           /\ \A u \in UserNames : P!ExtraTime(OverridesOf(u), now) <=
                                     P!ExtraTime(OverridesOf(u), now)'
<1>1. now' = now /\ spent' = spent /\ twofold \subseteq twofold'
  <2>1. CASE \E id \in Ids, u \in UserNames : Login(u, id)
    BY <2>1 DEF Login, HandleLogin, Handler, machineVars
  <2>2. CASE \E id \in Ids : Logout(id) \/ LockScreen(id) \/ Unlock(id)
    BY <2>2 DEF Logout, LockScreen, Unlock, HandleLogout, HandleLock, HandleUnlock, Handler,
       machineVars, watched
  <2>3. CASE \E u \in UserNames : CheckUser(u)
    BY <2>3 DEF CheckUser, HandleLock, Handler, vars, machineVars, watched
  <2>4. CASE \E u \in UserNames, o \in Overrides : AddOverride(u, o)
    BY <2>4 DEF AddOverride, Handler, machineVars, limitVars, watched
  <2>5. CASE EndRound \/ Start \/ Stop
    BY <2>5 DEF EndRound, Start, Stop, Heartbeat, NewManager, DaemonStop, Forget, machineVars,
       watched
  <2>6. CASE UNCHANGED allVars
    BY <2>6 DEF allVars, vars, machineVars, limitVars, watched
  <2> QED BY <2>1, <2>2, <2>3, <2>4, <2>5, <2>6 DEF LimitNext
<1>2. ASSUME NEW u \in UserNames
      PROVE  P!ExtraTime(OverridesOf(u), now) <= P!ExtraTime(OverridesOf(u), now)'
  <2>1. OverridesOf(u) \in Seq(Overrides)
    BY RecsGood DEF LimitInv
  <2>2. P!ExtraTime(OverridesOf(u), now) \in Nat
    BY <2>1, ExtraIsSum
  <2>3. CASE OverridesOf(u)' = OverridesOf(u)
    BY <1>1, <2>2, <2>3
  <2>4. ASSUME NEW o \in Overrides, OverridesOf(u)' = Append(OverridesOf(u), o)
        PROVE  P!ExtraTime(OverridesOf(u), now) <= P!ExtraTime(OverridesOf(u), now)'
    BY <1>1, <2>1, <2>4, ExtraGrows
  <2> QED BY <2>3, <2>4, OverridesStep DEF OverridesKept
<1> QED BY <1>1, <1>2

-----------------------------------------------------------------------------
(* A round locks the session of a user who has spent what was allowed.     *)

\* Only a user's turn takes the user off the round while the daemon runs.
LEMMA TurnOf ==
    ASSUME LimitInv, [LimitNext]_allVars, NEW u \in todo, running', todo' = todo \ {u}
    PROVE  CheckUser(u) /\ u \in UserNames
<1>1. u \in UserNames /\ u \notin todo'
  BY DEF LimitInv, ScreenTypes
<1>2. ASSUME NEW v \in UserNames, CheckUser(v) PROVE CheckUser(u)
  <2>1. v \in todo /\ todo' = todo \ {v}
    BY <1>2 DEF CheckUser
  <2>2. u = v
    BY <2>1
  <2> QED BY <1>2, <2>2
<1>3. CASE \E id \in Ids, v \in UserNames : Login(v, id)
  BY <1>1, <1>3 DEF Login
<1>4. CASE \E id \in Ids : Logout(id) \/ LockScreen(id) \/ Unlock(id)
  BY <1>1, <1>4 DEF Logout, LockScreen, Unlock
<1>5. CASE \E v \in UserNames, o \in Overrides : AddOverride(v, o)
  BY <1>1, <1>5 DEF AddOverride, limitVars
<1>6. CASE EndRound
  BY <1>1, <1>6 DEF EndRound
<1>7. CASE Start \/ Minute
  BY <1>1, <1>7 DEF Start, Minute
<1>8. CASE Stop
  BY <1>8 DEF Stop, DaemonStop, Forget
<1>9. CASE UNCHANGED allVars
  BY <1>1, <1>9 DEF allVars, limitVars
<1> QED BY <1>1, <1>2, <1>3, <1>4, <1>5, <1>6, <1>7, <1>8, <1>9 DEF LimitNext

\* A turn changes nothing of the screens but that one may be locked.
LEMMA TurnScreens ==
    ASSUME LimitInv, NEW u \in UserNames, CheckUser(u)
    PROVE  /\ now' = now /\ UNCHANGED logins
           /\ \A v \in UserNames : ScreensOf(v)' = ScreensOf(v)
           /\ \A id \in Ids : screens[id] # Missing => screens'[id].begun = screens[id].begun
           /\ \A v \in UserNames : Unlocked(v)' \subseteq Unlocked(v)
<1>1. now' = now /\ UNCHANGED logins
  BY DEF CheckUser, HandleLock, Handler, vars, machineVars
<1>2. CASE UNCHANGED screens
  BY <1>1, <1>2 DEF ScreensOf, Unlocked
<1>3. ASSUME NEW s \in ToLock(u), screens' = [screens EXCEPT ![s.id].locked = TRUE]
      PROVE  /\ \A v \in UserNames : ScreensOf(v)' = ScreensOf(v)
             /\ \A id \in Ids : screens[id] # Missing => screens'[id].begun = screens[id].begun
             /\ \A v \in UserNames : Unlocked(v)' \subseteq Unlocked(v)
  <2> DEFINE x == s.id
             scr == [screens[x] EXCEPT !.locked = TRUE]
  <2>1. x \in Ids /\ screens[x] # Missing
    BY ToLockIsRecord DEF LimitInv
  <2>2. /\ scr \in Screen /\ scr.user = screens[x].user /\ scr.begun = screens[x].begun
        /\ scr.locked /\ screens[x] \in Screen
    BY <2>1, ScreenType DEF LimitInv, Screen
  <2>3. screens'[x] = scr /\ \A id \in Ids : id # x => screens'[id] = screens[id]
    BY <1>3, <2>1 DEF LimitInv, ScreenTypes
  <2>4. scr # Missing
    BY <2>2, MissingScreenAssumption
  <2> HIDE DEF x, scr
  <2> QED BY <2>1, <2>2, <2>3, <2>4 DEF ScreensOf, Unlocked
<1> QED BY <1>1, <1>2, <1>3 DEF CheckUser

\* A round leaves the session a user began last, if that was today, locked
\* when the user's limit is spent.
THEOREM RoundsLock ==
    ASSUME ~ SaveMayFail
    PROVE  LimitSpec => RoundLocksLatest
<1> DEFINE Exact == \A v \in UserNames : Limited(v) =>
                      /\ running => Allowance(v) = Credit(v)
                      /\ P!ExtraTime(OverridesOf(v), now) \in Nat
<1>1. (LimitInv /\ ChargeInv => Exact)'
  <2>1. LimitInv /\ ChargeInv => Exact
    BY CreditIsAllowance
  <2> QED BY <2>1, PTL
<1>2. ASSUME LimitInv, ChargeInv, LimitInv', ChargeInv', [LimitNext]_allVars, NEW u \in todo,
             running', todo' = todo \ {u}, Limited(u),
             NEW id \in (Latest(u) \intersect Unlocked(u))', BegunToday(id)'
      PROVE  spent'[u] < Allowance(u)'
  <2>1. CheckUser(u) /\ u \in UserNames
    BY <1>2, TurnOf
  <2>2. ~ Minute
    BY <1>2 DEF Minute, LimitInv, ScreenTypes
  <2>3. /\ now' = now /\ spent' = spent
        /\ P!ExtraTime(OverridesOf(u), now) <= P!ExtraTime(OverridesOf(u), now)'
    BY <1>2, <2>1, <2>2, WithinMinute
  <2>4. /\ UNCHANGED logins /\ ScreensOf(u)' = ScreensOf(u)
        /\ \A x \in Ids : screens[x] # Missing => screens'[x].begun = screens[x].begun
    BY <1>2, <2>1, TurnScreens
  <2>5. Latest(u)' = Latest(u)
    BY <2>4 DEF Latest
  <2>6. id \in OpenedToday(u) /\ screens'[id] # Missing /\ ~ screens'[id].locked
    BY <1>2, <2>3, <2>4 DEF Unlocked, ScreensOf, OpenedToday, BegunToday
  <2>7. PICK q \in Recs(u) : q.id = id /\ IsActive(q)
    BY <1>2, <2>1, <2>6, OpenedRecord
  <2>8. \A r \in Recs(u) : IsActive(r) => r.pos <= q.pos
    BY <1>2, <2>1, <2>5, <2>7, LatestIsNewest
  <2>9. running /\ Permitted(u)
    BY <1>2, <2>1, <2>6, <2>7, <2>8, TurnLocks
  <2>10. spent[u] < Credit(u) /\ spent[u] \in Int /\ P!ExtraTime(OverridesOf(u), now) \in Nat
    BY <1>2, <2>1, <2>9, PermittedBelow, CreditIsAllowance
  <2>11. Allowance(u)' = Credit(u)' /\ P!ExtraTime(OverridesOf(u), now)' \in Nat
    <3>1. Limited(u)' /\ u \in UserNames
      BY <1>2, <2>1 DEF Limited
    <3> QED BY <1>1, <1>2, <3>1
  <2>12. Configs[u].own.limit \in Int
    BY <1>2, <2>1, GrantsAssumption DEF Limited
  <2> QED BY <2>3, <2>10, <2>11, <2>12 DEF Credit
<1>3. LimitInv /\ ChargeInv /\ LimitInv' /\ ChargeInv' /\ [LimitNext]_allVars =>
        \A u \in todo : running' /\ todo' = todo \ {u} /\ Limited(u) =>
          \A id \in (Latest(u) \intersect Unlocked(u))' :
              BegunToday(id)' => spent'[u] < Allowance(u)'
  BY <1>2
<1> QED BY <1>3, LimitInvariance, ChargeInvariance, PTL DEF LimitSpec, RoundLocksLatest

-----------------------------------------------------------------------------
(* A user with one session at a time stays within the limit: whoever is    *)
(* unlocked after the user's turn of this minute has a minute left.        *)

Alone == \A u \in UserNames \ twofold : \A i, j \in OpenedToday(u) : i = j

\* The minute is over only when the round has come to everyone.
Rounds == beaten => todo = {}

Busy(u) == running /\ u \notin todo /\ Unlocked(u) \intersect OpenedToday(u) # {}

Spending ==
    \A u \in UserNames \ twofold : Limited(u) /\ Busy(u) => spent[u] < Credit(u)

SpendInv == Alone /\ Rounds /\ Spending

\* Except by a login no screen appears among those begun today.
LEMMA OpenedStep ==
    ASSUME LimitInv, ChargeInv, ~ SaveMayFail, [LimitNext]_allVars, ~ Minute, NEW u \in UserNames
    PROVE  \/ /\ OpenedToday(u)' \subseteq OpenedToday(u)
              /\ \A id \in OpenedToday(u)' :
                    \/ ~ screens[id].locked
                    \/ screens'[id].locked
                    \/ (Unlock(id) /\ screens[id].user = u)
           \/ \E id \in Ids : Login(u, id) /\ (OpenedToday(u)' \subseteq OpenedToday(u) \union {id})
<1>1. now' = now
  BY WithinMinute
<1> DEFINE Old == /\ OpenedToday(u)' \subseteq OpenedToday(u)
                  /\ \A id \in OpenedToday(u)' :
                        \/ ~ screens[id].locked
                        \/ screens'[id].locked
                        \/ (Unlock(id) /\ screens[id].user = u)
<1>2. CASE UNCHANGED screens
  BY <1>1, <1>2 DEF OpenedToday, ScreensOf, BegunToday
<1>3. ASSUME NEW x \in Ids, NEW b \in BOOLEAN, screens[x] # Missing,
             screens' = [screens EXCEPT ![x].locked = b], ~ b => Unlock(x)
      PROVE  Old
  <2> DEFINE scr == [screens[x] EXCEPT !.locked = b]
  <2>1. /\ screens[x] \in Screen /\ screens'[x] = scr /\ scr.user = screens[x].user
        /\ scr.begun = screens[x].begun /\ (scr.locked <=> b)
    BY <1>3, ScreenType DEF LimitInv, ScreenTypes, Screen
  <2>2. \A id \in Ids : id # x => screens'[id] = screens[id]
    BY <1>3 DEF LimitInv, ScreenTypes
  <2> HIDE DEF scr
  <2>3. ASSUME NEW id \in OpenedToday(u)' PROVE id \in OpenedToday(u)
    BY <1>1, <1>3, <2>1, <2>2 DEF OpenedToday, ScreensOf, BegunToday
  <2>4. ASSUME NEW id \in OpenedToday(u)', id # x
        PROVE  ~ screens[id].locked \/ screens'[id].locked
    <3>1. id \in Ids
      BY DEF OpenedToday, ScreensOf
    <3> QED BY <2>2, <2>4, <3>1
  <2>5. ASSUME x \in OpenedToday(u)'
        PROVE  screens'[x].locked \/ (Unlock(x) /\ screens[x].user = u)
    <3>1. screens[x].user = u
      BY <2>3, <2>5 DEF OpenedToday, ScreensOf
    <3> QED BY <1>3, <2>1, <3>1
  <2> QED BY <2>3, <2>4, <2>5
<1>4. ASSUME NEW v \in UserNames, NEW x \in Ids, Login(v, x)
      PROVE  Old \/ (Login(u, x) /\ (OpenedToday(u)' \subseteq OpenedToday(u) \union {x}))
  <2>1. /\ screens' = [screens EXCEPT ![x] = [user |-> v, locked |-> FALSE, begun |-> now]]
        /\ x \in DOMAIN screens
    BY <1>4 DEF Login, LimitInv, ScreenTypes
  <2>2. screens'[x].user = v /\ \A id \in Ids : id # x => screens'[id] = screens[id]
    BY <2>1
  <2>3. ASSUME NEW id \in OpenedToday(u)'
        PROVE  (v = u /\ id = x) \/ (id \in OpenedToday(u) /\ id # x)
    BY <1>1, <2>2 DEF OpenedToday, ScreensOf, BegunToday
  <2>4. ASSUME NEW id \in OpenedToday(u)', id # x
        PROVE  ~ screens[id].locked \/ screens'[id].locked
    <3>1. id \in Ids
      BY DEF OpenedToday, ScreensOf
    <3> QED BY <2>2, <2>4, <3>1
  <2> QED BY <1>4, <2>3, <2>4
<1>5. ASSUME NEW x \in Ids, Logout(x) PROVE Old
  <2>1. screens' = [screens EXCEPT ![x] = Missing] /\ x \in DOMAIN screens
    BY <1>5 DEF Logout, LimitInv, ScreenTypes
  <2>2. screens'[x] = Missing /\ \A id \in Ids : id # x => screens'[id] = screens[id]
    BY <2>1
  <2>3. ASSUME NEW id \in OpenedToday(u)'
        PROVE  id \in OpenedToday(u) /\ screens'[id] = screens[id]
    BY <1>1, <2>2 DEF OpenedToday, ScreensOf, BegunToday
  <2>4. ASSUME NEW id \in OpenedToday(u)' PROVE ~ screens[id].locked \/ screens'[id].locked
    BY <2>3
  <2> QED BY <2>3, <2>4
<1>6. ASSUME NEW x \in Ids, LockScreen(x) PROVE Old
  BY <1>3, <1>6 DEF LockScreen
<1>7. ASSUME NEW x \in Ids, Unlock(x) PROVE Old
  BY <1>3, <1>7 DEF Unlock
<1>8. ASSUME NEW v \in UserNames, CheckUser(v) PROVE UNCHANGED screens \/ Old
  <2>1. ASSUME NEW s \in ToLock(v), screens' = [screens EXCEPT ![s.id].locked = TRUE] PROVE Old
    BY <1>3, <2>1, ToLockIsRecord DEF LimitInv
  <2> QED BY <1>8, <2>1 DEF CheckUser
<1>9. ASSUME NEW v \in UserNames, NEW o \in Overrides, AddOverride(v, o) PROVE UNCHANGED screens
  BY <1>9 DEF AddOverride, limitVars
<1>10. ASSUME EndRound \/ Start \/ Stop PROVE UNCHANGED screens
  BY <1>10 DEF EndRound, Start, Stop
<1>11. ASSUME UNCHANGED allVars PROVE UNCHANGED screens
  BY <1>11 DEF allVars, limitVars
<1> HIDE DEF Old
<1>12. \/ UNCHANGED screens
       \/ Old
       \/ \E id \in Ids : Login(u, id) /\ (OpenedToday(u)' \subseteq OpenedToday(u) \union {id})
  BY <1>4, <1>5, <1>6, <1>7, <1>8, <1>9, <1>10, <1>11 DEF LimitNext
<1> QED BY <1>2, <1>12 DEF Old

\* A login of a user who has a session begun today is noted.
LEMMA AloneStep ==
    ASSUME LimitInv, ChargeInv, ~ SaveMayFail, [LimitNext]_allVars, Alone
    PROVE  Alone'
<1> SUFFICES ASSUME NEW u \in UserNames, u \notin twofold',
                    NEW i \in OpenedToday(u)', NEW j \in OpenedToday(u)'
             PROVE  i = j
  BY DEF Alone
<1>1. CASE Minute
  <2>1. now' = now + 1
    BY <1>1 DEF Minute, Tick
  <2>2. OpenedToday(u)' \subseteq OpenedToday(u) /\ Day(now') = Day(now)
    BY <1>1, <2>1, MinuteOpened
  <2>3. u \notin twofold
    BY <1>1, <2>2 DEF Minute
  <2> QED BY <2>2, <2>3 DEF Alone
<1>2. CASE ~ Minute
  <2>1. u \notin twofold
    BY <1>2, WithinMinute
  <2>2. CASE OpenedToday(u)' \subseteq OpenedToday(u)
    BY <2>1, <2>2 DEF Alone
  <2>3. ASSUME NEW id \in Ids, Login(u, id), OpenedToday(u)' \subseteq OpenedToday(u) \union {id}
        PROVE  i = j
    <3>1. OpenedToday(u) = {}
      BY <2>3 DEF Login
    <3> QED BY <2>3, <3>1
  <2> QED BY <1>2, <2>2, <2>3, OpenedStep
<1> QED BY <1>1, <1>2

LEMMA RoundsStep ==
    ASSUME [LimitNext]_allVars, Rounds
    PROVE  Rounds'
<1>1. CASE UNCHANGED <<todo, beaten>>
  BY <1>1 DEF Rounds
<1>2. ASSUME NEW u \in UserNames, CheckUser(u) PROVE Rounds'
  BY <1>2 DEF CheckUser, Rounds
<1>3. ASSUME EndRound \/ Start \/ Stop \/ Minute PROVE Rounds'
  BY <1>3 DEF EndRound, Start, Stop, Minute, Rounds
<1>4. ASSUME NEW id \in Ids, \/ \E u \in UserNames : Login(u, id)
                             \/ Logout(id) \/ LockScreen(id) \/ Unlock(id)
      PROVE  UNCHANGED <<todo, beaten>>
  BY <1>4 DEF Login, Logout, LockScreen, Unlock
<1>5. ASSUME NEW u \in UserNames, NEW o \in Overrides, AddOverride(u, o)
      PROVE  UNCHANGED <<todo, beaten>>
  BY <1>5 DEF AddOverride, limitVars
<1>6. ASSUME UNCHANGED allVars PROVE UNCHANGED <<todo, beaten>>
  BY <1>6 DEF allVars, limitVars
<1> QED BY <1>1, <1>2, <1>3, <1>4, <1>5, <1>6 DEF LimitNext

\* Who is unlocked between minutes was so before, or has just been let in, or
\* has been passed over by the round.
LEMMA BusyStep ==
    ASSUME LimitInv, ChargeInv, ~ SaveMayFail, [LimitNext]_allVars, ~ Minute, Alone,
           NEW u \in UserNames \ twofold, Limited(u), Busy(u)'
    PROVE  Busy(u) \/ (running /\ Permitted(u))
<1>1. PICK id \in OpenedToday(u)' : id \in Ids /\ screens'[id] # Missing /\ ~ screens'[id].locked
  BY DEF Busy, Unlocked, ScreensOf
<1>2. running' /\ u \notin todo'
  BY DEF Busy
<1>3. ASSUME NEW x \in Ids, Login(u, x) PROVE running /\ Permitted(u)
  BY <1>3 DEF Login, HandleLogin, Handler
<1>4. ASSUME Unlock(id), screens[id].user = u PROVE running /\ Permitted(u)
  BY <1>4 DEF Unlock, HandleUnlock, Handler
<1>5. ASSUME id \in OpenedToday(u), ~ screens[id].locked PROVE id \in Unlocked(u)
  BY <1>5 DEF OpenedToday, Unlocked
<1>6. CASE id \in OpenedToday(u) /\ ~ screens[id].locked
  <2>1. CASE running /\ u \notin todo
    BY <1>5, <1>6, <2>1 DEF Busy
  <2>2. CASE CheckUser(u)
    <3>1. PICK q \in Recs(u) : q.id = id /\ IsActive(q)
      BY <1>6, OpenedRecord
    <3>2. \A i \in OpenedToday(u) : i = id
      BY <1>6 DEF Alone
    <3>3. \A r \in Recs(u) : IsActive(r) => r.pos <= q.pos
      BY <1>6, <3>1, <3>2, OnlyIsNewest
    <3> QED BY <1>1, <2>2, <3>1, <3>3, TurnLocks
  <2>3. (running /\ u \notin todo) \/ CheckUser(u)
    <3>1. ASSUME NEW v \in UserNames, CheckUser(v) PROVE v = u \/ (running /\ u \notin todo)
      BY <1>2, <3>1 DEF CheckUser
    <3>2. ASSUME NEW x \in Ids, \/ \E v \in UserNames : Login(v, x)
                                \/ Logout(x) \/ LockScreen(x) \/ Unlock(x)
          PROVE  running /\ todo' = todo
      BY <3>2 DEF Login, Logout, LockScreen, Unlock, HandleLogin, HandleLogout, HandleLock,
         HandleUnlock, Handler
    <3>3. ASSUME NEW v \in UserNames, NEW o \in Overrides, AddOverride(v, o)
          PROVE  running /\ todo' = todo
      BY <3>3 DEF AddOverride, Handler, limitVars
    <3>4. ASSUME EndRound PROVE running /\ todo' = todo
      BY <3>4 DEF EndRound, Heartbeat
    <3>5. ~ Start
      BY <1>2 DEF Start
    <3>6. ~ Stop
      BY <1>2 DEF Stop, DaemonStop, Forget
    <3>7. ASSUME UNCHANGED allVars PROVE running /\ todo' = todo
      BY <1>2, <3>7 DEF allVars, limitVars, vars
    <3> QED BY <1>2, <3>1, <3>2, <3>3, <3>4, <3>5, <3>6, <3>7 DEF LimitNext
  <2> QED BY <2>1, <2>2, <2>3
<1>7. \/ (id \in OpenedToday(u) /\ ~ screens[id].locked)
      \/ (Unlock(id) /\ screens[id].user = u)
      \/ \E x \in Ids : Login(u, x)
  BY <1>1, OpenedStep
<1> QED BY <1>3, <1>4, <1>6, <1>7

\* A minute that passes ends in one that no one is busy in yet, and is counted
\* only for users who had it left.
LEMMA MinuteSpending ==
    ASSUME LimitInv, ChargeInv, Minute, SpendInv, NEW u \in UserNames
    PROVE  /\ ~ Busy(u)'
           /\ u \notin twofold /\ Limited(u) /\ spent'[u] > spent[u] => spent[u] < Credit(u)
<1> DEFINE B == {id \in Unlocked(u) : BegunToday(id)}
<1>1. /\ running /\ beaten /\ now' = now + 1 /\ todo' = UserNames /\ now \in Nat
  BY DEF Minute, Tick, LimitInv, Inv, TypeOK, Times
<1>2. ~ Busy(u)'
  BY <1>1 DEF Busy
<1>3. spent'[u] = IF Day(now + 1) = Day(now) THEN spent[u] + Cardinality(B) ELSE 0
  BY <1>1 DEF Minute
<1>4. ASSUME u \notin twofold, Limited(u), spent'[u] > spent[u]
      PROVE  spent[u] < Credit(u)
  <2>1. spent[u] \in Int /\ Credit(u) \in Nat \ {0}
    BY <1>4, CreditIsAllowance
  <2>2. CASE Day(now + 1) # Day(now)
    BY <1>3, <1>4, <2>1, <2>2
  <2>3. CASE Day(now + 1) = Day(now) /\ B = {}
    <3>1. Cardinality(B) = 0
      BY <2>3, FS_EmptySet
    <3> HIDE DEF B
    <3> QED BY <1>3, <1>4, <2>1, <2>3, <3>1
  <2>4. CASE B # {}
    <3>1. Unlocked(u) \intersect OpenedToday(u) # {}
      BY <2>4 DEF Unlocked, OpenedToday
    <3>2. Busy(u)
      BY <1>1, <3>1 DEF Busy, SpendInv, Rounds
    <3> QED BY <1>4, <3>2 DEF SpendInv, Spending
  <2> QED BY <2>2, <2>3, <2>4
<1> QED BY <1>2, <1>4

LEMMA SpendingStep ==
    ASSUME LimitInv, ChargeInv, ~ SaveMayFail, [LimitNext]_allVars, SpendInv,
           \A u \in UserNames : Limited(u) => P!ExtraTime(OverridesOf(u), now)' \in Nat
    PROVE  Spending'
<1> SUFFICES ASSUME NEW u \in UserNames, u \notin twofold', Limited(u), Busy(u)'
             PROVE  spent'[u] < Credit(u)'
  BY DEF Spending, Limited
<1>1. P!ExtraTime(OverridesOf(u), now)' \in Nat
  OBVIOUS
<1>2. ~ Minute
  BY MinuteSpending
<1>3. /\ spent' = spent /\ u \notin twofold
      /\ P!ExtraTime(OverridesOf(u), now) <= P!ExtraTime(OverridesOf(u), now)'
  BY <1>2, WithinMinute
<1>4. /\ spent[u] \in Int /\ Credit(u) \in Nat
      /\ P!ExtraTime(OverridesOf(u), now) \in Nat /\ Configs[u].own.limit \in Int
  BY CreditIsAllowance, GrantsAssumption DEF Limited
<1>5. Credit(u) <= Credit(u)' /\ Credit(u)' \in Int
  BY <1>1, <1>3, <1>4 DEF Credit
<1>6. Busy(u) \/ (running /\ Permitted(u))
  BY <1>2, <1>3, BusyStep DEF SpendInv
<1>7. spent[u] < Credit(u)
  BY <1>3, <1>6, PermittedBelow DEF SpendInv, Spending
<1> QED BY <1>3, <1>4, <1>5, <1>7

LEMMA InitSpend ==
    ASSUME LimitInit
    PROVE  SpendInv
<1>1. /\ ~ running /\ todo = {} /\ screens = [id \in Ids |-> Missing]
  BY DEF LimitInit, Init
<1>2. Alone
  BY <1>1 DEF Alone, OpenedToday, ScreensOf
<1>3. Spending
  BY <1>1 DEF Spending, Busy
<1> QED BY <1>1, <1>2, <1>3 DEF SpendInv, Rounds

\* A user with one session at a time spends no minute once what the limit and
\* the overrides in force allow is spent, whenever overrides expire.
THEOREM OneAtATimeKeepsLimit ==
    ASSUME ~ SaveMayFail
    PROVE  LimitSpec => LimitKept
<1> DEFINE Positive == \A u \in UserNames : Limited(u) =>
                         P!ExtraTime(OverridesOf(u), now) \in Nat
<1>1. LimitInv /\ ChargeInv => Positive
  BY CreditIsAllowance
<1>2. LimitInv /\ ChargeInv /\ Positive' /\ SpendInv /\ [LimitNext]_allVars => SpendInv'
  <2> SUFFICES ASSUME LimitInv, ChargeInv, Positive', SpendInv, [LimitNext]_allVars
               PROVE  SpendInv'
    OBVIOUS
  <2>1. Alone' /\ Rounds'
    BY AloneStep, RoundsStep DEF SpendInv
  <2>2. \A u \in UserNames : Limited(u) => P!ExtraTime(OverridesOf(u), now)' \in Nat
    BY DEF Limited
  <2>3. Spending'
    BY <2>2, SpendingStep
  <2> QED BY <2>1, <2>3 DEF SpendInv
<1>3. LimitInit => SpendInv
  BY InitSpend
<1>4. ASSUME LimitInv, ChargeInv, SpendInv, [LimitNext]_allVars,
             NEW u \in UserNames \ twofold, Limited(u), spent'[u] > spent[u]
      PROVE  spent[u] < Allowance(u)
  <2>1. spent[u] \in Int
    BY <1>4, CreditIsAllowance
  <2>2. Minute
    BY <1>4, <2>1, WithinMinute
  <2>3. running
    BY <2>2 DEF Minute
  <2> QED BY <1>4, <2>2, <2>3, MinuteSpending, CreditIsAllowance
<1>5. LimitInv /\ ChargeInv /\ SpendInv /\ [LimitNext]_allVars =>
        \A u \in UserNames \ twofold :
          Limited(u) /\ spent'[u] > spent[u] => spent[u] < Allowance(u)
  BY <1>4
<1> HIDE DEF Positive
<1> QED BY <1>1, <1>2, <1>3, <1>5, LimitInvariance, ChargeInvariance, PTL DEF LimitSpec, LimitKept
=============================================================================
