----------------------------- MODULE DailyLimit ------------------------------
(***************************************************************************)
(* The daily limit, end to end: StateManager's records, the check PAM asks *)
(* for, the engine's rounds and the screens of several sessions, over days *)
(* and restarts of the daemon.                                             *)
(*                                                                         *)
(* A tick is a minute; a round comes in each.  Signals are handled before  *)
(* anything else happens and an unlock follows its check at once:          *)
(* SessionTracking and Enforcement are about the delays.  A restart takes  *)
(* no time.  Nobody is paused.                                             *)
(***************************************************************************)
EXTENDS StateManager

CONSTANTS
    Configs,     \* the configuration as each user sees it, loaded
    MaxGrants    \* bound on the overrides of a user

P == INSTANCE Policy WITH
        MinuteLength <- 1, DayMinutes <- DayLength, WeekLength <- 7,
        DefaultWeekend <- {0, 6}, Unlimited <- DayLength + 1

ASSUME LimitAssumption == MaxGrants \in Nat /\ DOMAIN Configs = UserNames

\* Extra minutes, expiries and limits are integers.
ASSUME GrantsAssumption ==
    /\ \A o \in Overrides : o.extra \in Int /\ o.expires \in Int
    /\ \A u \in UserNames : Configs[u].own # Missing => Configs[u].own.limit \in Int

VARIABLES
    screens,   \* logind's sessions: their users, LockedHints and first minutes
    logins,    \* the sessions' IDs in the order of their logins
    todo,      \* users the round of this minute has yet to look at
    beaten,    \* and whether it has ended
    spent,     \* minutes of today in unlocked sessions begun today
    wall,      \* minutes of today with any session unlocked
    twofold    \* users who had two sessions begun today at once

watched == <<spent, wall, twofold>>
limitVars == <<screens, logins, todo, beaten, watched>>
allVars == <<vars, limitVars>>

Screen == [user : UserNames, locked : BOOLEAN, begun : Times]

ASSUME MissingScreenAssumption == Missing \notin Screen

LimitTypeOK ==
    /\ TypeOK
    /\ screens \in [Ids -> Screen \union {Missing}]
    /\ Range(logins) \subseteq Ids /\ IsInjective(logins)
    /\ \A id \in Ids : screens[id] # Missing => id \in Range(logins)
    /\ todo \subseteq UserNames /\ beaten \in BOOLEAN
    /\ {spent, wall} \subseteq [UserNames -> Nat] /\ twofold \subseteq UserNames

NoTime == [u \in UserNames |-> 0]

LimitInit ==
    /\ Init
    /\ screens = [id \in Ids |-> Missing] /\ logins = <<>>
    /\ todo = {} /\ beaten = FALSE
    /\ spent = NoTime /\ wall = NoTime /\ twofold = {}

-----------------------------------------------------------------------------
(* People, and the PAM module that asks for them.                          *)

Known(u) == users[u] # Missing
TimeUsed(u) == IF Known(u) THEN GetTimeUsed(SessionsOf(u), now) ELSE 0

\* CheckLogin: what the daemon answers for a login and for an unlock.
Permitted(u) == P!PermitLogin(Configs[u], users[u], TimeUsed(u), now)

ScreensOf(u) == {id \in Ids : screens[id] # Missing /\ screens[id].user = u}
BegunToday(id) == Day(screens[id].begun) = Day(now)
OpenedToday(u) == {id \in ScreensOf(u) : BegunToday(id)}

\* Mutant: a session's ID is used again.
LoginReused(u, id) ==
    /\ screens[id] = Missing /\ Permitted(u)
    /\ screens' = [screens EXCEPT ![id] = [user |-> u, locked |-> FALSE, begun |-> now]]
    /\ logins' = Append(logins, id)
    /\ HandleLogin(u, id)
    /\ twofold' = IF OpenedToday(u) = {} THEN twofold ELSE twofold \union {u}
    /\ UNCHANGED <<todo, beaten, spent, wall>>

Login(u, id) ==
    /\ id \notin Range(logins) /\ Permitted(u)
    /\ screens' = [screens EXCEPT ![id] = [user |-> u, locked |-> FALSE, begun |-> now]]
    /\ logins' = Append(logins, id)
    /\ HandleLogin(u, id)
    /\ twofold' = IF OpenedToday(u) = {} THEN twofold ELSE twofold \union {u}
    /\ UNCHANGED <<todo, beaten, spent, wall>>

Logout(id) ==
    /\ screens[id] # Missing
    /\ screens' = [screens EXCEPT ![id] = Missing]
    /\ HandleLogout(id)
    /\ UNCHANGED <<logins, todo, beaten, watched>>

LockScreen(id) ==
    /\ screens[id] # Missing /\ ~ screens[id].locked
    /\ screens' = [screens EXCEPT ![id].locked = TRUE]
    /\ HandleLock(screens[id].user, id)
    /\ UNCHANGED <<logins, todo, beaten, watched>>

\* Mutant: PAM asks for logins only.
UnlockUnasked(id) ==
    /\ screens[id] # Missing /\ screens[id].locked
    /\ screens' = [screens EXCEPT ![id].locked = FALSE]
    /\ HandleUnlock(screens[id].user, id)
    /\ UNCHANGED <<logins, todo, beaten, watched>>

Unlock(id) ==
    /\ screens[id] # Missing /\ screens[id].locked
    /\ Permitted(screens[id].user)
    /\ screens' = [screens EXCEPT ![id].locked = FALSE]
    /\ HandleUnlock(screens[id].user, id)
    /\ UNCHANGED <<logins, todo, beaten, watched>>

\* The administrator, too, may name a user the daemon does not know.
AddOverride(u, o) ==
    LET usr == IF Known(u) THEN users[u] ELSE FreshUser
    IN  /\ Handler /\ Len(usr.overrides) < MaxGrants
        /\ Store(u, [usr EXCEPT !.overrides = Append(@, o)])
        /\ UNCHANGED limitVars

-----------------------------------------------------------------------------
(* The engine: checkSessions, user by user in the order of a map.          *)

Watched(u) ==
    Known(u) /\ Configs[u].own # Missing /\ Configs[u].own.enabled

\* Mutant: the first active session is the one that is locked.
ToLockFirst(u) ==
    IF ~ Watched(u) \/ Permitted(u) THEN {}
    ELSE {s \in Oldest(Active(SessionsOf(u))) :
            screens[s.id] # Missing /\ ~ screens[s.id].locked}

\* The user's last active session, if it is to be locked and is not.
ToLock(u) ==
    IF ~ Watched(u) \/ Permitted(u) THEN {}
    ELSE {s \in GetActiveSession(SessionsOf(u)) :
            Configs[u].own.lock /\ screens[s.id] # Missing /\ ~ screens[s.id].locked}

CheckUser(u) ==
    /\ running /\ u \in todo
    /\ todo' = todo \ {u}
    /\ \/ ToLock(u) = {} /\ UNCHANGED <<vars, screens>>
       \/ \E s \in ToLock(u) :
            /\ screens' = [screens EXCEPT ![s.id].locked = TRUE]
            /\ HandleLock(u, s.id)
    /\ UNCHANGED <<logins, beaten, watched>>

EndRound ==
    /\ todo = {} /\ ~ beaten
    /\ Heartbeat
    /\ beaten' = TRUE
    /\ UNCHANGED <<screens, logins, todo, watched>>

\* The engine checks at once when the daemon starts.
Start ==
    /\ NewManager
    /\ todo' = UserNames /\ beaten' = FALSE
    /\ UNCHANGED <<screens, logins, watched>>

Stop ==
    /\ DaemonStop
    /\ todo' = {} /\ beaten' = FALSE
    /\ UNCHANGED <<screens, logins, watched>>

-----------------------------------------------------------------------------
(* Time.                                                                   *)

Unlocked(u) == {id \in ScreensOf(u) : ~ screens[id].locked}

\* A day's last minute ends in the next day, where counting begins anew.
Minute ==
    /\ running /\ beaten
    /\ Tick
    /\ todo' = UserNames /\ beaten' = FALSE
    /\ LET counted(n, f) == IF Day(now') = Day(now) THEN f + n ELSE 0
       IN  /\ spent' = [u \in UserNames |->
                 counted(Cardinality({id \in Unlocked(u) : BegunToday(id)}), spent[u])]
           /\ wall' = [u \in UserNames |->
                 counted(IF Unlocked(u) = {} THEN 0 ELSE 1, wall[u])]
           /\ twofold' = IF Day(now') = Day(now) THEN twofold ELSE {}
    /\ UNCHANGED <<screens, logins>>

LimitNext ==
    \/ \E id \in Ids :
         \/ \E u \in UserNames : Login(u, id)
         \/ Logout(id) \/ LockScreen(id) \/ Unlock(id)
    \/ \E u \in UserNames :
         CheckUser(u) \/ \E o \in Overrides : AddOverride(u, o)
    \/ EndRound \/ Start \/ Stop \/ Minute

LimitSpec == LimitInit /\ [][LimitNext]_allVars

-----------------------------------------------------------------------------
(* What the limit comes to.                                                *)

Allowance(u) ==
    Configs[u].own.limit + (IF Known(u) THEN P!ExtraTime(users[u].overrides, now) ELSE 0)

Limited(u) ==
    /\ Configs[u].own # Missing /\ Configs[u].own.enabled /\ Configs[u].own.lock
    /\ Configs[u].own.limit > 0

\* The session of u that logged in last, if any is left.
Latest(u) ==
    LET mine == {i \in DOMAIN logins : logins[i] \in ScreensOf(u)}
    IN  {logins[i] : i \in {j \in mine : \A k \in mine : k <= j}}

\* The time a user is charged for is the time that was spent unlocked, today,
\* in sessions begun today: no restart, lock, logout or midnight adds to it or
\* loses any.
ChargedAsSpent ==
    running => \A u \in UserNames : TimeUsed(u) = spent[u]

\* A round leaves the session a user began last, if that was today, locked
\* when the user's limit is spent, whatever other sessions come and go.
\* Earlier ones are not looked at, nor are those of days before.
RoundLocksLatest ==
    [][\A u \in todo : running' /\ todo' = todo \ {u} /\ Limited(u) =>
          \A id \in (Latest(u) \intersect Unlocked(u))' :
              BegunToday(id)' => spent'[u] < Allowance(u)']_allVars

\* A user with one session at a time spends no minute in the sessions begun
\* today once what the limit and the overrides in force allow is spent, over
\* logouts, new logins, unlocks, restarts and overrides that are given or expire.
LimitKept ==
    [][\A u \in UserNames \ twofold :
          Limited(u) /\ spent'[u] > spent[u] => spent[u] < Allowance(u)]_allVars

\* No user has a session unlocked for longer in a day than the daily limit.
DailyLimitKept ==
    running => \A u \in UserNames : Limited(u) => wall[u] <= Allowance(u)
=============================================================================
