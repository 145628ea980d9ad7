------------------------------- MODULE Console -------------------------------
(***************************************************************************)
(* cmd/swctl and the methods of internal/ipc it calls, beside the handlers *)
(* of signals: administrators add, list and remove overrides, pause and    *)
(* resume, saves fail and the daemon is restarted.                         *)
(*                                                                         *)
(* A call copies the user, changes the copy and writes it back without the *)
(* mutex, and takes it to save; a handler holds it throughout.  While one  *)
(* copy of a user is out no other is, unless the user is "raced": what is  *)
(* then lost, and what the arrays under its slices hold, is IpcCalls's     *)
(* matter, and nothing is claimed of that user here.                       *)
(*                                                                         *)
(* What an override grants is Policy's matter; here it is a key of its     *)
(* user's.  Of what handlers do only that they make a user known plays a   *)
(* part.  A call that is refused changes nothing.                          *)
(***************************************************************************)
EXTENDS Integers, SequencesExt

CONSTANTS
    Admins,
    UserNames,
    Keys,          \* names of a user's overrides, each added at most once
    Missing,       \* a user who is unknown, and nothing
    SaveMayFail,   \* whether writing state.json may fail
    MaxStops       \* bound on restarts

Watcher == "watcher"
Threads == Admins \union {Watcher}

\* What of a user's record plays a part here.
User == [paused : BOOLEAN, overrides : Seq(Keys)]
NewUser == [paused |-> FALSE, overrides |-> <<>>]

\* A call: "arg" is the key of an addition, the index of a removal.
Calls ==
    [op : {"Pause", "Resume"}, user : UserNames, arg : {Missing}]
    \union [op : {"Add"}, user : UserNames, arg : Keys]
    \union [op : {"Remove"}, user : UserNames, arg : Nat \ {0}]

Promises == {"unused", "open", "granted", "revoked"}
Pauses == {"open", "paused", "resumed"}

ASSUME ConsoleAssumption ==
    /\ SaveMayFail \in BOOLEAN /\ MaxStops \in Nat
    /\ Missing \notin User \union UserNames \union Calls
    /\ Admins \intersect (Promises \union Pauses \union {Watcher}) = {}

VARIABLES
    users,       \* state.Users in memory
    disk,        \* state.json
    at,          \* where each thread is
    call,        \* the call each administrator makes
    holds,       \* the user each thread has a copy of, or Missing
    copy,        \* that copy
    raced,       \* users of whom two copies were out at once, or who were saved
                 \* in the middle of a removal
    view,        \* the overrides each administrator was last shown of each user
    outdated,    \* whose view of which user is from before an override of that
                 \* user was removed or the daemon was restarted
    promised,    \* what the calls about each override have answered, or who is
                 \* making one
    pause,       \* the same of each user's pause
    stops        \* restarts so far (bounded)

vars == <<users, disk, at, call, holds, copy, raced, view, outdated, promised, pause, stops>>
promiseVars == <<promised, pause>>
viewVars == <<view, outdated>>

Known(u) == users[u] # Missing
OverridesIn(us, u) == IF us[u] = Missing THEN <<>> ELSE us[u].overrides
OverridesOf(u) == OverridesIn(users, u)

ConsoleTypeOK ==
    /\ {users, disk} \subseteq [UserNames -> User \union {Missing}]
    /\ at \in [Threads -> {"idle", "entered", "copied", "changed", "written"}]
    /\ at[Watcher] # "changed" /\ \A a \in Admins : at[a] # "entered"
    /\ call \in [Admins -> Calls \union {Missing}]
    /\ \A a \in Admins : at[a] = "idle" <=> call[a] = Missing
    /\ holds \in [Threads -> UserNames \union {Missing}] /\ copy \in [Threads -> User]
    /\ \A t \in Threads : holds[t] # Missing <=> at[t] \in {"copied", "changed"}
    /\ raced \subseteq UserNames
    /\ view \in [Admins -> [UserNames -> Seq(Keys)]] /\ outdated \subseteq Admins \X UserNames
    /\ promised \in [UserNames -> [Keys -> Promises \union Admins]]
    /\ pause \in [UserNames -> Pauses \union Admins]
    /\ \A a \in Admins, u \in UserNames :
          pause[u] = a \/ (\E k \in Keys : promised[u][k] = a) => at[a] # "idle"
    /\ stops \in Nat

Init ==
    /\ users = [u \in UserNames |-> Missing] /\ disk = users
    /\ at = [t \in Threads |-> "idle"] /\ call = [a \in Admins |-> Missing]
    /\ holds = [t \in Threads |-> Missing] /\ copy = [t \in Threads |-> NewUser]
    /\ raced = {}
    /\ view = [a \in Admins |-> [u \in UserNames |-> <<>>]] /\ outdated = {}
    /\ promised = [u \in UserNames |-> [k \in Keys |-> "unused"]]
    /\ pause = [u \in UserNames |-> "open"]
    /\ stops = 0

Goto(t, step) == at' = [at EXCEPT ![t] = step]

\* Mutant: the error of GetUser is not looked at.
CopyUserUnchecked(t, u) ==
    /\ holds' = [holds EXCEPT ![t] = u]
    /\ copy' = [copy EXCEPT ![t] = users[u]]
    /\ raced' = IF \E s \in Threads \ {t} : holds[s] = u THEN raced \union {u} ELSE raced
    /\ Goto(t, "copied")

\* GetUser: t has a copy, of a new user if there is none, and may not be alone.
CopyUser(t, u) ==
    /\ holds' = [holds EXCEPT ![t] = u]
    /\ copy' = [copy EXCEPT ![t] = IF Known(u) THEN users[u] ELSE NewUser]
    /\ raced' = IF \E s \in Threads \ {t} : holds[s] = u THEN raced \union {u} ELSE raced
    /\ Goto(t, "copied")

\* st.Users[user] = *u
WriteUser(t) ==
    /\ users' = [users EXCEPT ![holds[t]] = copy[t]]
    /\ holds' = [holds EXCEPT ![t] = Missing]
    /\ copy' = [copy EXCEPT ![t] = NewUser]
    /\ Goto(t, "written")

-----------------------------------------------------------------------------
(* The methods that change a user.                                         *)

\* An index is one the administrator has seen; the key of an addition is new.
Call(a, c) ==
    /\ at[a] = "idle"
    /\ c.op = "Add" \/ Known(c.user)
    /\ c.op = "Add" => promised[c.user][c.arg] = "unused"
    /\ c.op = "Remove" => c.arg \in DOMAIN view[a][c.user] \intersect DOMAIN OverridesOf(c.user)
    /\ call' = [call EXCEPT ![a] = c]
    /\ promised' = IF c.op = "Add" THEN [promised EXCEPT ![c.user][c.arg] = a] ELSE promised
    /\ CopyUser(a, c.user)
    /\ UNCHANGED <<users, disk, viewVars, pause, stops>>

SetPaused(a) ==
    /\ call[a].op \in {"Pause", "Resume"}
    /\ copy' = [copy EXCEPT ![a].paused = (call[a].op = "Pause")]
    /\ UNCHANGED <<users, promised, outdated>>

\* Mutant: the newest override comes first.
AddOverrideInFront(a) ==
    /\ call[a].op = "Add"
    /\ copy' = [copy EXCEPT ![a].overrides = <<call[a].arg>> \o @]
    /\ UNCHANGED <<users, promised, outdated>>

\* The array may have room behind the end of the slice that memory has.
AddOverride(a) ==
    /\ call[a].op = "Add"
    /\ copy' = [copy EXCEPT ![a].overrides = Append(@, call[a].arg)]
    /\ UNCHANGED <<users, promised, outdated>>

\* A list after what follows one place has moved down by one.
Shifted(list, place) ==
    [i \in DOMAIN list |-> IF place <= i /\ i < Len(list) THEN list[i + 1] ELSE list[i]]

\* The rest of the array moves down in place: memory, whose slice is as long as
\* before, has the last override twice.
RemoveOverride(a) ==
    LET u == call[a].user
        list == copy[a].overrides
    IN  /\ call[a].op = "Remove"
        /\ copy' = [copy EXCEPT ![a].overrides = RemoveAt(@, call[a].arg)]
        /\ users' = [users EXCEPT ![u].overrides = Shifted(@, call[a].arg)]
        /\ promised' = [promised EXCEPT ![u][list[call[a].arg]] = a]
        /\ outdated' = outdated \union (Admins \X {u})

Modify(a) ==
    /\ at[a] = "copied"
    /\ SetPaused(a) \/ AddOverride(a) \/ RemoveOverride(a)
    /\ Goto(a, "changed")
    /\ UNCHANGED <<disk, call, holds, raced, view, pause, stops>>

Write(a) ==
    /\ at[a] = "changed"
    /\ WriteUser(a)
    /\ pause' = IF call[a].op \in {"Pause", "Resume"} THEN [pause EXCEPT ![call[a].user] = a]
                ELSE pause
    /\ outdated' = IF call[a].op = "Remove" THEN outdated \union (Admins \X {call[a].user})
                   ELSE outdated
    /\ UNCHANGED <<disk, call, raced, view, promised, stops>>

\* The users whose lists a removal has moved and not yet cut.
Torn == {call[a].user : a \in {b \in Admins : at[b] = "changed" /\ call[b].op = "Remove"}}

\* What is saved is what is in memory, for good or ill.
Save == disk' = users /\ raced' = raced \union Torn

\* The calls of some administrators come to an end: where none has taken over
\* since, their answer is what holds.
Answer(who, overrideAnswer, pauseAnswer) ==
    /\ promised' = [u \in UserNames |-> [k \in Keys |->
                      IF promised[u][k] \in who THEN overrideAnswer ELSE promised[u][k]]]
    /\ pause' = [u \in UserNames |-> IF pause[u] \in who THEN pauseAnswer ELSE pause[u]]

Granted(a) == IF call[a].op = "Remove" THEN "revoked" ELSE "granted"
Kept(a) == IF call[a].op = "Pause" THEN "paused" ELSE "resumed"

\* Mutant: the error of the save is dropped, as the handlers do.
SaveCallSilently(a) ==
    /\ at[a] = "written" /\ at[Watcher] = "idle"
    /\ \/ Save /\ Answer({a}, Granted(a), Kept(a))
       \/ SaveMayFail /\ UNCHANGED <<disk, raced>> /\ Answer({a}, Granted(a), Kept(a))
    /\ Goto(a, "idle") /\ call' = [call EXCEPT ![a] = Missing]
    /\ UNCHANGED <<users, holds, copy, viewVars, stops>>

\* Manager.Save waits for the mutex.  A call that could not be saved answers with
\* an error, but memory keeps what it did.
SaveCall(a) ==
    /\ at[a] = "written" /\ at[Watcher] = "idle"
    /\ \/ Save /\ Answer({a}, Granted(a), Kept(a))
       \/ SaveMayFail /\ UNCHANGED <<disk, raced>> /\ Answer({a}, "open", "open")
    /\ Goto(a, "idle") /\ call' = [call EXCEPT ![a] = Missing]
    /\ UNCHANGED <<users, holds, copy, viewVars, stops>>

\* swctl user, swctl override list: what GetUserStatus and ListOverrides answer
\* of a user.
Show(a, u) ==
    /\ at[a] = "idle"
    /\ view' = [view EXCEPT ![a][u] = OverridesOf(u)]
    /\ outdated' = outdated \ {<<a, u>>}
    /\ UNCHANGED <<users, disk, at, call, holds, copy, raced, promiseVars, stops>>

-----------------------------------------------------------------------------
(* The handlers of handlers.go, one at a time, under the mutex throughout. *)

Enter ==
    /\ at[Watcher] = "idle"
    /\ Goto(Watcher, "entered")
    /\ UNCHANGED <<users, disk, call, holds, copy, raced, viewVars, promiseVars, stops>>

\* A login may find no user, a sleep goes through all there are.
HandlerRead(u) ==
    /\ at[Watcher] = "entered" \/ (at[Watcher] = "written" /\ Known(u))
    /\ CopyUser(Watcher, u)
    /\ UNCHANGED <<users, disk, call, viewVars, promiseVars, stops>>

HandlerWrite ==
    /\ at[Watcher] = "copied"
    /\ WriteUser(Watcher)
    /\ UNCHANGED <<disk, call, raced, viewVars, promiseVars, stops>>

\* The early returns: nothing to do.
HandlerLeave ==
    /\ at[Watcher] \in {"entered", "copied"}
    /\ Goto(Watcher, "idle")
    /\ holds' = [holds EXCEPT ![Watcher] = Missing]
    /\ copy' = [copy EXCEPT ![Watcher] = NewUser]
    /\ UNCHANGED <<users, disk, call, raced, viewVars, promiseVars, stops>>

HandlerSave ==
    /\ at[Watcher] \in {"entered", "written"}
    /\ Save \/ (SaveMayFail /\ UNCHANGED <<disk, raced>>)
    /\ Goto(Watcher, "idle")
    /\ UNCHANGED <<users, call, holds, copy, viewVars, promiseVars, stops>>

-----------------------------------------------------------------------------

\* The daemon ends at any moment, and calls with it; NewManager reads the file.
Restart ==
    /\ stops < MaxStops /\ stops' = stops + 1
    /\ users' = disk /\ at' = [t \in Threads |-> "idle"]
    /\ call' = [a \in Admins |-> Missing]
    /\ holds' = [t \in Threads |-> Missing] /\ copy' = [t \in Threads |-> NewUser]
    /\ outdated' = Admins \X UserNames
    /\ Answer(Admins, "open", "open")
    /\ UNCHANGED <<disk, raced, view>>

\* Indices past every list an administrator was shown are not named.
Next ==
    \/ \E a \in Admins, u \in UserNames :
         \/ \E op \in {"Pause", "Resume"} : Call(a, [op |-> op, user |-> u, arg |-> Missing])
         \/ \E k \in Keys : Call(a, [op |-> "Add", user |-> u, arg |-> k])
         \/ \E i \in DOMAIN view[a][u] : Call(a, [op |-> "Remove", user |-> u, arg |-> i])
         \/ Show(a, u)
    \/ \E a \in Admins : Modify(a) \/ Write(a) \/ SaveCall(a)
    \/ Enter \/ (\E u \in UserNames : HandlerRead(u)) \/ HandlerWrite \/ HandlerLeave
    \/ HandlerSave
    \/ Restart

Spec == Init /\ [][Next]_vars

-----------------------------------------------------------------------------
(* What administrators may rely on, of users whose copies never overlapped. *)

Listed(us, u, k) == \E i \in DOMAIN OverridesIn(us, u) : OverridesIn(us, u)[i] = k

\* Answers about a user hold: overrides that were granted are there, those that were
\* revoked or never added are not, a pause or its end is kept.
Upholds(us, u) ==
    /\ \A k \in Keys :
         /\ promised[u][k] = "granted" => Listed(us, u, k)
         /\ promised[u][k] \in {"unused", "revoked"} => ~ Listed(us, u, k)
    /\ pause[u] \in {"paused", "resumed"} =>
         us[u] # Missing /\ us[u].paused = (pause[u] = "paused")

\* What a call acknowledged stands until another call about it, over calls about
\* other things and handlers before and after it, saves that fail and restarts; an
\* override is there once, but in the middle of a removal.  (Unless a handler or
\* another call had a copy of the user at the same time.)
AcknowledgedStands ==
    \A u \in UserNames \ raced :
        Upholds(users, u) /\ (u \in Torn \/ IsInjective(OverridesOf(u)))

\* What an administrator was shown of a user stays good for a removal by its
\* indices until an override of that user is removed or the daemon restarted,
\* however many are added.  (Under the same condition.)
ListingStands ==
    \A a \in Admins, u \in UserNames :
        u \notin raced /\ <<a, u>> \notin outdated => IsPrefix(view[a][u], OverridesOf(u))
=============================================================================
