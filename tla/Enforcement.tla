---------------------------- MODULE Enforcement -----------------------------
(***************************************************************************)
(* The engine's rounds, the PAM module, the signal handlers and the        *)
(* administrator around one user and one session of that user, through one *)
(* day.                                                                    *)
(*                                                                         *)
(* The records are taken to be right (SessionTracking is about them) but   *)
(* for a login that is not handled yet: time is used while the session is  *)
(* unlocked.  The desktop locks at once unless logind refuses.  A login is *)
(* checked before the session begins, an unlock before the password is     *)
(* asked for, and neither again.                                           *)
(***************************************************************************)
EXTENDS Policy

CONSTANTS
    Configs,      \* the configurations, as loaded
    Starts,       \* the times the day may start at
    Grants,       \* the overrides an administrator may add
    MaxChanges,   \* bound on what the administrator changes and handlers copy
    MaxFaults,    \* bound on failed saves and refused locks
    Lag           \* how late, in ticks, a round may be

\* What of a user's record plays a part here.
Person == [paused : BOOLEAN, overrides : Seq(Grants)]

ASSUME EnforcementAssumption ==
    /\ {MaxChanges, MaxFaults} \subseteq Nat /\ Lag \in 0 .. MinuteLength - 1
    /\ Starts \subseteq Nat /\ Missing \notin Person
    /\ \A o \in Grants : o.extra \in Int /\ o.hours \in TimeRange /\ o.expires \in Int
    /\ \A c \in Configs : \A conf \in {c.default, c.own} \ {Missing} :
          /\ conf.limit \in Int /\ {conf.hours, conf.weekendHours} \subseteq TimeRange
          /\ conf.notify # Missing => conf.notify \subseteq Int

VARIABLES
    cfg,         \* the configuration
    now,         \* the wall clock
    usr,         \* the user's pause flag and overrides, or Missing
    used,        \* time used today
    screen,      \* the session: "none", "unlocked" or "locked"
    recorded,    \* the login was handled: the daemon has an active session
    asked,       \* a login or an unlock was permitted and is still to come
    copy,        \* the user as a handler or a call read it, or Missing
    pausing,     \* where PauseUser is: "no", "saving" or "locking"
    nextRound,   \* when the engine's ticker fires
    overdue,     \* how long a session that is neither permitted nor paused has
                 \* been unlocked, or how long ago logind refused to lock it
    calm,        \* how long nobody has done anything, no override has expired,
                 \* no round was late and no lock refused
    spared,      \* the session is unlocked in spite of a pause: see PausedStaysLocked
    warnings,    \* notifications of each threshold since then
    changes,     \* changes by the administrator and copies by handlers (bounded)
    faults       \* saves that failed and locks that logind refused (bounded)

vars == <<cfg, now, usr, used, screen, recorded, asked, copy, pausing, nextRound, overdue,
          calm, spared, warnings, changes, faults>>

Conf == PolicyOf(cfg)
Paused == usr # Missing /\ usr.paused
Permitted == PermitLogin(cfg, usr, used, now)
Remaining == GetTimeRemaining(cfg, usr, used, now)
Thresholds == IF cfg.own = Missing \/ cfg.own.notify = Missing THEN {} ELSE cfg.own.notify

EnforcementTypeOK ==
    /\ now \in Nat /\ used \in 0 .. DayTicks
    /\ {usr, copy} \subseteq Person \union {Missing}
    /\ screen \in {"none", "unlocked", "locked"} /\ {asked, recorded, spared} \subseteq BOOLEAN
    /\ asked => screen # "unlocked"
    /\ recorded => screen # "none" /\ usr # Missing
    /\ pausing \in {"no", "saving", "locking"} /\ (pausing # "no" => usr # Missing)
    /\ nextRound \in now - Lag .. now + MinuteLength
    /\ {overdue, calm, faults} \subseteq Nat
    /\ warnings \in [Thresholds -> Nat]

Unwarned == [n \in Thresholds |-> 0]

Init ==
    /\ cfg \in Configs /\ now \in Starts
    /\ usr = Missing /\ used = 0 /\ screen = "none"
    /\ asked = FALSE /\ recorded = FALSE /\ copy = Missing /\ pausing = "no"
    /\ nextRound = now
    /\ overdue = 0 /\ calm = 0 /\ spared = FALSE
    /\ warnings = Unwarned
    /\ changes = 0 /\ faults = 0

\* A step that is not the clock's or the engine's, and whether it leaves a session
\* open in spite of a pause.
Disturb(spares) ==
    /\ calm' = 0 /\ warnings' = Unwarned
    /\ overdue' = IF screen' = screen /\ ~ Permitted /\ ~ Paused' THEN overdue ELSE 0
    /\ spared' = (screen' = "unlocked" /\ Paused' /\ (spared \/ spares))
    /\ UNCHANGED <<cfg, now, used, nextRound>>

Fault == faults < MaxFaults /\ faults' = faults + 1

-----------------------------------------------------------------------------
(* The user, the PAM module and the handlers of the signals.               *)

\* sessionwarden_check: CheckLogin.  pam_unix then asks for the password of a
\* screen that is to be unlocked; a login goes on to begin its session.
Ask ==
    /\ screen # "unlocked" /\ ~ asked /\ Permitted
    /\ asked' = TRUE
    /\ UNCHANGED <<cfg, now, usr, used, screen, recorded, copy, pausing, nextRound, overdue,
                   calm, spared, warnings, changes, faults>>

Login ==
    /\ asked /\ screen = "none"
    /\ screen' = "unlocked" /\ asked' = FALSE
    /\ UNCHANGED <<usr, recorded, copy, pausing, changes, faults>> /\ Disturb(TRUE)

Unlock ==
    /\ asked /\ screen = "locked"
    /\ screen' = "unlocked" /\ asked' = FALSE
    /\ UNCHANGED <<usr, recorded, copy, pausing, changes, faults>> /\ Disturb(TRUE)

LockScreen ==
    /\ screen = "unlocked"
    /\ screen' = "locked"
    /\ UNCHANGED <<usr, recorded, asked, copy, pausing, changes, faults>> /\ Disturb(FALSE)

\* A login makes a record for a user the state does not know.
Known == IF usr = Missing THEN [paused |-> FALSE, overrides |-> <<>>] ELSE usr

\* Mutant: the session of a user the state does not know is lost.
HandleLoginUnknown ==
    /\ screen # "none" /\ ~ recorded
    /\ recorded' = TRUE
    /\ UNCHANGED <<usr, screen, asked, copy, pausing, changes, faults>> /\ Disturb(FALSE)

HandleLogin ==
    /\ screen # "none" /\ ~ recorded
    /\ recorded' = TRUE /\ usr' = Known
    /\ UNCHANGED <<screen, asked, copy, pausing, changes, faults>> /\ Disturb(FALSE)

\* With HandleLogout, after a HandleLogin that is still to come.
Logout ==
    /\ screen # "none"
    /\ screen' = "none" /\ recorded' = FALSE /\ asked' = FALSE
    /\ usr' = IF recorded THEN usr ELSE Known
    /\ UNCHANGED <<copy, pausing, changes, faults>> /\ Disturb(FALSE)

\* A handler reads the user, and puts what it read back later: whatever an
\* administrator has changed since is lost.  A call that writes back its change
\* of a copy as old does the same and then makes its change.
HandlerReads ==
    /\ copy = Missing /\ usr # Missing
    /\ changes < MaxChanges /\ changes' = changes + 1
    /\ copy' = usr
    /\ UNCHANGED <<cfg, now, usr, used, screen, recorded, asked, pausing, nextRound, overdue,
                   calm, spared, warnings, faults>>

HandlerWrites ==
    /\ copy # Missing
    /\ usr' = copy /\ copy' = Missing
    /\ UNCHANGED <<screen, recorded, asked, pausing, changes, faults>> /\ Disturb(~ Paused)

-----------------------------------------------------------------------------
(* The administrator: protocol.go.                                         *)

Change ==
    /\ changes < MaxChanges /\ changes' = changes + 1
    /\ UNCHANGED <<screen, recorded, asked, copy>> /\ Disturb(FALSE)

\* PauseUser sets the flag, saves, and locks the session, one call at a time.
PauseUser ==
    /\ usr # Missing /\ pausing = "no"
    /\ usr' = [usr EXCEPT !.paused = TRUE] /\ pausing' = "saving"
    /\ Change /\ UNCHANGED faults

\* A failing save ends the call; the flag stays.
SavePaused ==
    /\ pausing = "saving"
    /\ UNCHANGED <<usr, screen, recorded, asked, copy, changes>>
    /\ \/ pausing' = "locking" /\ Disturb(FALSE) /\ UNCHANGED faults
       \/ Fault /\ pausing' = "no" /\ Disturb(TRUE)

\* LockUserSession: without a policy the screen is locked as well.
MayLock == cfg.own # Missing => cfg.own.lock

\* Mutant: the screen is left to the next round, which skips the user.
LockPausedByRound ==
    /\ pausing = "locking" /\ pausing' = "no"
    /\ UNCHANGED <<usr, screen, recorded, asked, copy, changes, faults>> /\ Disturb(FALSE)

\* Without an active session, or if logind refuses, the error is only logged.
LockPaused ==
    /\ pausing = "locking" /\ pausing' = "no"
    /\ UNCHANGED <<usr, recorded, asked, copy, changes>>
    /\ \/ /\ recorded /\ UNCHANGED faults
          /\ screen' = IF screen = "unlocked" /\ MayLock THEN "locked" ELSE screen
          /\ Disturb(FALSE)
       \/ ~ recorded /\ UNCHANGED <<screen, faults>> /\ Disturb(TRUE)
       \/ recorded /\ MayLock /\ Fault /\ UNCHANGED screen /\ Disturb(TRUE)

ResumeUser ==
    /\ usr # Missing
    /\ usr' = [usr EXCEPT !.paused = FALSE]
    /\ Change /\ UNCHANGED <<pausing, faults>>

AddOverride(o) ==
    /\ usr' = [Known EXCEPT !.overrides = Append(@, o)]
    /\ Change /\ UNCHANGED <<pausing, faults>>

RemoveOverride(i) ==
    /\ usr # Missing /\ i \in DOMAIN usr.overrides
    /\ usr' = [usr EXCEPT !.overrides = RemoveAt(@, i)]
    /\ Change /\ UNCHANGED <<pausing, faults>>

-----------------------------------------------------------------------------
(* The engine: checkSessions, once at the start and then every minute.     *)

Skipped ==
    \/ usr = Missing \/ Paused
    \/ cfg.own = Missing \/ (cfg.own # Missing /\ ~ cfg.own.enabled)
    \/ ~ recorded

\* Counting starts anew with a late round.
Warn(sent) ==
    /\ calm' = IF now > nextRound THEN 0 ELSE calm
    /\ warnings' = [n \in Thresholds |-> (IF now > nextRound THEN 0 ELSE warnings[n])
                                        + (IF n \in sent THEN 1 ELSE 0)]

Due == {n \in Thresholds : CheckSendNotification(Remaining, n)}

\* Mutant: the round trusts the countdown instead of asking PermitLogin.
CheckSessionsByCountdown ==
    /\ now >= nextRound /\ nextRound' = nextRound + MinuteLength
    /\ screen' = IF ~ Skipped /\ Remaining = 0 /\ cfg.own.lock /\ screen = "unlocked"
                 THEN "locked" ELSE screen
    /\ Warn(IF Skipped THEN {} ELSE Due)
    /\ spared' = (spared /\ screen' = "unlocked")
    /\ UNCHANGED <<cfg, now, usr, used, recorded, asked, copy, pausing, overdue, changes, faults>>

CheckSessions ==
    /\ now >= nextRound /\ nextRound' = nextRound + MinuteLength
    /\ \/ Skipped /\ Warn({}) /\ UNCHANGED <<screen, overdue, faults>>
       \/ /\ ~ Skipped /\ ~ Permitted
          /\ screen' = IF cfg.own.lock /\ screen = "unlocked" THEN "locked" ELSE screen
          /\ Warn({}) /\ UNCHANGED <<overdue, faults>>
       \/ /\ ~ Skipped /\ ~ Permitted /\ cfg.own.lock /\ Fault
          /\ overdue' = 0 /\ calm' = 0 /\ warnings' = Unwarned /\ UNCHANGED screen
       \/ ~ Skipped /\ Permitted /\ Warn(Due) /\ UNCHANGED <<screen, overdue, faults>>
    /\ spared' = (spared /\ screen' = "unlocked")
    /\ UNCHANGED <<cfg, now, usr, used, recorded, asked, copy, pausing, changes>>

\* The user's overrides that are in force at a time.
Standing(t) == IF usr = Missing THEN {} ELSE InForce(usr.overrides, t)

\* Time passes, to the end of the day, once a login has been handled; a round is
\* at most Lag late.
Tick ==
    /\ TimeOfDay(now) < DayTicks - 1
    /\ now < nextRound + Lag
    /\ screen # "none" => recorded
    /\ now' = now + 1
    /\ used' = IF screen = "unlocked" THEN used + 1 ELSE used
    /\ overdue' = IF screen = "unlocked" /\ ~ Permitted /\ ~ Paused
                  THEN overdue + 1 ELSE 0
    /\ \/ Standing(now') = Standing(now) /\ calm' = calm + 1 /\ UNCHANGED warnings
       \/ Standing(now') # Standing(now) /\ calm' = 0 /\ warnings' = Unwarned
    /\ UNCHANGED <<cfg, usr, screen, recorded, asked, copy, pausing, nextRound, spared,
                   changes, faults>>

Next ==
    \/ Ask \/ Login \/ Unlock \/ LockScreen \/ HandleLogin \/ Logout
    \/ HandlerReads \/ HandlerWrites
    \/ PauseUser \/ SavePaused \/ LockPaused \/ ResumeUser
    \/ \E o \in Grants : AddOverride(o)
    \/ \E i \in 1 .. MaxChanges : RemoveOverride(i)
    \/ CheckSessions \/ Tick

Spec == Init /\ [][Next]_vars

-----------------------------------------------------------------------------
(* What users and administrators are promised.                             *)

Enforced == cfg.own # Missing /\ cfg.own.enabled /\ cfg.own.lock

\* PermitLogin limits a user without a daily limit to the extra time given;
\* GetTimeRemaining does not count it.
Counted == Conf = Missing \/ Conf.limit > 0 \/ ExtraTime(usr.overrides, now) = 0

\* PermitLogin asks for the hours of all overrides in force, and for none once
\* those that had any have expired; GetTimeRemaining counts down to the end of the
\* first, or of the configured hours.  Without either, midnight is all PermitLogin
\* permits, and no end to GetTimeRemaining.
HoursAgree ==
    LET os == usr.overrides
        current == {i \in InForce(os, now) : ~ IsEmpty(os[i].hours)}
    IN  \/ Conf = Missing
        \/ AllowedHoursOverrideIsSet(os) /\ current # {}
           /\ \A i \in current : os[Min(current)].hours.end <= os[i].hours.end
        \/ ~ AllowedHoursOverrideIsSet(os) /\ ~ IsEmpty(ConfiguredHours(Conf, now))

\* Enforcement and countdown agree: a session that goes on unlocked stays
\* permitted for as long as GetTimeRemaining says, and not longer, but for the
\* instant that ends a range: while no override expires, the hours of the two
\* agree, and extra time comes on top of a daily limit.
CountdownAgrees ==
    LET later(k) == PermitLogin(cfg, usr, used + k, now + k)
        same(k) == Standing(now + k) = Standing(now)
        today == DayTicks - 1 - TimeOfDay(now)
    IN  recorded /\ screen = "unlocked" /\ Permitted /\ Counted /\ HoursAgree
        => /\ \A k \in 0 .. Min({Remaining - 1, today}) : same(k) => later(k)
           /\ Remaining + 1 <= today /\ same(Remaining + 1) => ~ later(Remaining + 1)

\* A session that is no longer permitted is locked, or logind is asked again to
\* lock it, within a round, unless the user is paused: pauses lock at once and
\* are skipped by the rounds.
LockedInTime ==
    Enforced /\ screen = "unlocked" /\ ~ Paused => overdue <= MinuteLength + Lag

\* A user who was left alone for long enough, by rounds on time, gets one
\* warning, not none and not two, at each threshold of a minute or more before a
\* round locks the session, where countdown and permission have the same hours.
WarnedOnce ==
    [][CheckSessions /\ screen = "unlocked" /\ screen' = "locked" /\ Counted /\ HoursAgree =>
          \A n \in Thresholds : MinuteLength <= n /\ calm' > n + MinuteLength =>
                                    warnings'[n] = 1]_vars

\* Once PauseUser has returned, the session is not unlocked until the pause ends,
\* by any login, unlock or round, unless it is spared: a login or unlock that was
\* permitted before the pause came after it, the pause found no active session
\* because the login was not handled, its save failed, logind refused the lock, or
\* a handler or another call put back a copy of the user that was paused.
PausedStaysLocked ==
    Enforced /\ Paused /\ pausing = "no" /\ screen = "unlocked" => spared

\* An override that has expired changes nothing.
ExpiredIgnored ==
    usr # Missing =>
        LET current == [usr EXCEPT !.overrides =
                          SelectSeq(@, LAMBDA o : ~ IsExpired(o, now))]
        IN  Permitted = PermitLogin(cfg, current, used, now)
=============================================================================
