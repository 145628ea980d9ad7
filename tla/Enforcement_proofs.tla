------------------------- MODULE Enforcement_proofs -------------------------
(***************************************************************************)
(* Theorems about Enforcement, for any configurations, overrides, lengths  *)
(* of minutes and days, and any lateness of the rounds below a minute.     *)
(***************************************************************************)
EXTENDS Enforcement, Sums

\* What PermitLogin decides plays a part only in that a round does not change it.
Shape ==
    /\ usr \in Person \union {Missing} /\ copy \in Person \union {Missing}
    /\ screen \in {"none", "unlocked", "locked"}
    /\ asked \in BOOLEAN /\ recorded \in BOOLEAN /\ spared \in BOOLEAN
    /\ asked => screen # "unlocked"
    /\ recorded => screen # "none" /\ usr # Missing
    /\ pausing \in {"no", "saving", "locking"} /\ (pausing # "no" => usr # Missing)

\* A round is due within a minute and comes at most Lag after it is due.
Clock ==
    /\ now \in Nat /\ nextRound \in Int /\ overdue \in Nat
    /\ nextRound <= now + MinuteLength /\ now <= nextRound + Lag

\* The time a session was open without permission began after the last round
\* that did not pass it over and whose lock logind did not refuse.
SinceRound ==
    Enforced /\ screen = "unlocked" =>
        /\ overdue <= MinuteLength + Lag
        /\ Paused \/ ~ recorded => overdue = 0
        /\ ~ Permitted => overdue <= now - nextRound + MinuteLength

Inv == Shape /\ Clock /\ SinceRound /\ PausedStaysLocked

-----------------------------------------------------------------------------

\* The bounds are numbers.
LEMMA Bounds == MinuteLength \in Nat \ {0} /\ Lag \in Nat /\ Lag < MinuteLength
BY PolicyAssumption, EnforcementAssumption

\* A step of a person or a handler keeps the invariant if what it makes of the
\* user, the session and the calls on their way has the right shape, and leaves
\* no session open in a pause but one that was, or that it spares.
LEMMA DisturbKeeps ==
    ASSUME Inv, NEW spares \in BOOLEAN, Disturb(spares),
           usr' \in Person \union {Missing}, copy' \in Person \union {Missing},
           screen' \in {"none", "unlocked", "locked"},
           asked' \in BOOLEAN, recorded' \in BOOLEAN,
           asked' => screen' # "unlocked",
           recorded' => screen' # "none" /\ usr' # Missing,
           pausing' \in {"no", "saving", "locking"}, pausing' # "no" => usr' # Missing,
           screen = "unlocked" /\ screen' = "unlocked" /\ recorded => recorded',
           Enforced /\ screen' = "unlocked" /\ Paused' /\ pausing' = "no" /\ ~ spares =>
               screen = "unlocked" /\ Paused /\ pausing = "no"
    PROVE  Inv'
<1> USE DEF Inv
<1>1. UNCHANGED <<cfg, now, used, nextRound>>
  BY DEF Disturb
<1>2. spared' \in BOOLEAN
  BY DEF Disturb
<1>3. Shape'
  BY <1>2 DEF Shape
<1>4. overdue' = (IF screen' = screen /\ ~ Permitted /\ ~ Paused' THEN overdue ELSE 0)
  BY DEF Disturb
<1>5. Clock'
  BY <1>1, <1>4 DEF Clock
<1>6. Enforced' <=> Enforced
  BY <1>1 DEF Enforced
<1>7. SinceRound'
  <2> SUFFICES ASSUME Enforced, screen' = "unlocked"
               PROVE  /\ overdue' <= MinuteLength + Lag
                      /\ Paused' \/ ~ recorded' => overdue' = 0
                      /\ overdue' <= now' - nextRound' + MinuteLength
    BY <1>6 DEF SinceRound
  <2>1. CASE overdue' = 0
    BY <2>1, <1>1, Bounds DEF Clock
  <2>2. CASE screen' = screen /\ ~ Permitted /\ ~ Paused' /\ overdue' = overdue
    <3>1. ~ recorded' => ~ recorded
      BY <2>2 DEF Shape
    <3> QED BY <2>2, <3>1, <1>1 DEF SinceRound
  <2> QED BY <1>4, <2>1, <2>2
<1>8. PausedStaysLocked'
  <2> SUFFICES ASSUME Enforced, Paused', pausing' = "no", screen' = "unlocked"
               PROVE  spared'
    BY <1>6 DEF PausedStaysLocked
  <2>1. spared' <=> (spared \/ spares)
    BY DEF Disturb
  <2> QED BY <2>1 DEF PausedStaysLocked
<1> QED BY <1>3, <1>5, <1>7, <1>8

\* The record of the user after a login.
LEMMA KnownType ==
    ASSUME usr \in Person \union {Missing}
    PROVE  /\ Known \in Person /\ Known # Missing
           /\ (usr # Missing => Known = usr) /\ (usr = Missing => ~ Known.paused)
<1>1. [paused |-> FALSE, overrides |-> <<>>] \in Person
  BY DEF Person
<1> QED BY <1>1, EnforcementAssumption DEF Known

\* What the user does to the session keeps the invariant.
LEMMA PersonKeeps ==
    ASSUME Inv, Login \/ Unlock \/ LockScreen
    PROVE  Inv'
<1> USE DEF Inv
<1>0. UNCHANGED <<usr, recorded, copy, pausing>>
  BY DEF Login, Unlock, LockScreen
<1>1. CASE Login \/ Unlock
  <2>1. Disturb(TRUE) /\ screen' = "unlocked" /\ asked' = FALSE
    BY <1>1 DEF Login, Unlock
  <2> QED BY <1>0, <2>1, DisturbKeeps DEF Shape
<1>2. CASE LockScreen
  <2>1. Disturb(FALSE) /\ screen' = "locked" /\ asked' = asked
    BY <1>2 DEF LockScreen
  <2> QED BY <1>0, <2>1, DisturbKeeps DEF Shape
<1> QED BY <1>1, <1>2

\* What the handlers do keeps it.
LEMMA HandlersKeep ==
    ASSUME Inv, HandleLogin \/ Logout \/ HandlerWrites
    PROVE  Inv'
<1> USE DEF Inv
<1>1. CASE HandleLogin
  <2>1. /\ Disturb(FALSE) /\ UNCHANGED <<screen, asked, copy, pausing>>
        /\ recorded' = TRUE /\ usr' = Known /\ screen # "none"
    BY <1>1 DEF HandleLogin
  <2>2. Known \in Person /\ Known # Missing /\ (Paused' => Paused)
    BY <2>1, KnownType DEF Shape, Paused
  <2> QED BY <2>1, <2>2, DisturbKeeps DEF Shape
<1>2. CASE Logout
  <2>1. /\ Disturb(FALSE) /\ UNCHANGED <<copy, pausing>> /\ screen' = "none"
        /\ recorded' = FALSE /\ asked' = FALSE /\ usr' = IF recorded THEN usr ELSE Known
    BY <1>2 DEF Logout
  <2>2. usr' \in Person \union {Missing} /\ usr' # Missing
    BY <2>1, KnownType DEF Shape
  <2> QED BY <2>1, <2>2, DisturbKeeps DEF Shape
<1>3. CASE HandlerWrites
  <2>1. /\ Disturb(~ Paused) /\ UNCHANGED <<screen, recorded, asked, pausing>>
        /\ copy # Missing /\ usr' = copy /\ copy' = Missing
    BY <1>3 DEF HandlerWrites
  <2>2. (~ Paused) \in BOOLEAN
    OBVIOUS
  <2>3. usr' \in Person /\ usr' # Missing
    BY <2>1, EnforcementAssumption DEF Shape
  <2> QED BY <2>1, <2>2, <2>3, DisturbKeeps DEF Shape
<1> QED BY <1>1, <1>2, <1>3

\* A check, and a handler's copy, change nothing else.
LEMMA AskKeeps ==
    ASSUME Inv, Ask \/ HandlerReads
    PROVE  Inv'
<1> USE DEF Inv
<1>1. /\ UNCHANGED <<cfg, now, usr, used, screen, recorded, pausing, nextRound, overdue, spared>>
      /\ copy' = copy \/ copy' = usr
  BY DEF Ask, HandlerReads
<1>2. Clock'
  BY <1>1 DEF Clock
<1>3. asked' \in BOOLEAN /\ (asked' => screen' # "unlocked")
  <2>1. CASE Ask
    BY <2>1 DEF Ask
  <2>2. CASE HandlerReads
    <3>1. asked' = asked /\ screen' = screen
      BY <2>2 DEF HandlerReads
    <3> QED BY <3>1 DEF Shape
  <2> QED BY <2>1, <2>2
<1>4. Shape'
  BY <1>1, <1>3 DEF Shape
<1>5. (Enforced' <=> Enforced) /\ (Paused' <=> Paused) /\ (Permitted' <=> Permitted)
  BY <1>1 DEF Enforced, Paused, Permitted
<1>6. SinceRound' /\ PausedStaysLocked'
  BY <1>1, <1>5 DEF SinceRound, PausedStaysLocked
<1> QED BY <1>2, <1>6, <1>4

\* Removing an element of a sequence leaves a sequence of the same kind.
LEMMA RemoveAtType ==
    ASSUME NEW S, NEW s \in Seq(S), NEW i \in 1 .. Len(s)
    PROVE  RemoveAt(s, i) \in Seq(S)
<1>1. SubSeq(s, 1, i - 1) \in Seq(S) /\ SubSeq(s, i + 1, Len(s)) \in Seq(S)
  OBVIOUS
<1> QED BY <1>1 DEF RemoveAt

\* What an administrator's change does to the record of the user.
LEMMA ChangedUser ==
    ASSUME Inv,
           \/ PauseUser \/ ResumeUser
           \/ \E o \in Grants : AddOverride(o)
           \/ \E i \in 1 .. MaxChanges : RemoveOverride(i)
    PROVE  /\ usr' \in Person /\ usr' # Missing
           /\ PauseUser \/ (usr'.paused => Paused)
<1> USE DEF Inv
<1>1. CASE PauseUser
  BY <1>1, EnforcementAssumption DEF PauseUser, Shape, Person
<1>2. CASE ResumeUser
  BY <1>2, EnforcementAssumption DEF ResumeUser, Shape, Person
<1>3. ASSUME NEW o \in Grants, AddOverride(o)
      PROVE  usr' \in Person /\ usr' # Missing /\ (usr'.paused => Paused)
  <2>1. Known \in Person /\ (Known.paused => Paused)
    BY KnownType DEF Shape, Paused
  <2>2. usr' = [Known EXCEPT !.overrides = Append(@, o)]
    BY <1>3 DEF AddOverride
  <2>3. Append(Known.overrides, o) \in Seq(Grants)
    BY <2>1 DEF Person
  <2> QED BY <2>1, <2>2, <2>3, EnforcementAssumption DEF Person
<1>4. ASSUME NEW i \in 1 .. MaxChanges, RemoveOverride(i)
      PROVE  usr' \in Person /\ usr' # Missing /\ (usr'.paused => Paused)
  <2>1. usr \in Person /\ usr.overrides \in Seq(Grants) /\ i \in 1 .. Len(usr.overrides)
    BY <1>4 DEF RemoveOverride, Shape, Person
  <2>2. RemoveAt(usr.overrides, i) \in Seq(Grants)
    BY <2>1, RemoveAtType
  <2> QED BY <1>4, <2>1, <2>2, EnforcementAssumption DEF RemoveOverride, Person, Paused
<1> QED BY <1>1, <1>2, <1>3, <1>4

\* What an administrator changes keeps the invariant.
LEMMA ChangeKeeps ==
    ASSUME Inv,
           \/ PauseUser \/ ResumeUser
           \/ \E o \in Grants : AddOverride(o)
           \/ \E i \in 1 .. MaxChanges : RemoveOverride(i)
    PROVE  Inv'
<1> USE DEF Inv
<1>1. /\ Disturb(FALSE) /\ UNCHANGED <<screen, recorded, asked, copy>>
      /\ pausing' = pausing \/ pausing' = "saving"
      /\ PauseUser => pausing' = "saving"
  BY DEF PauseUser, ResumeUser, AddOverride, RemoveOverride, Change
<1>2. usr' \in Person /\ usr' # Missing /\ (PauseUser \/ (Paused' => Paused))
  BY ChangedUser DEF Paused
<1> QED BY <1>1, <1>2, DisturbKeeps DEF Shape

\* A pause that comes to its end leaves no session open whose screen the daemon
\* may lock, but one that is spared.
LEMMA PauseKeeps ==
    ASSUME Inv, SavePaused \/ LockPaused
    PROVE  Inv'
<1> USE DEF Inv
<1>0. UNCHANGED <<usr, recorded, asked, copy>> /\ (Paused' <=> Paused)
  BY DEF SavePaused, LockPaused, Paused
<1>1. CASE SavePaused
  <2>1. screen' = screen /\ \/ pausing' = "locking" /\ Disturb(FALSE)
                            \/ pausing' = "no" /\ Disturb(TRUE)
    BY <1>1 DEF SavePaused
  <2>2. usr # Missing
    BY <1>1 DEF SavePaused, Shape
  <2>3. CASE pausing' = "locking" /\ Disturb(FALSE)
    BY <1>0, <2>1, <2>2, <2>3, DisturbKeeps DEF Shape
  <2>4. CASE pausing' = "no" /\ Disturb(TRUE)
    BY <1>0, <2>1, <2>2, <2>4, DisturbKeeps DEF Shape
  <2> QED BY <2>1, <2>3, <2>4
<1>2. CASE LockPaused
  <2>1. pausing' = "no"
    BY <1>2 DEF LockPaused
  <2>2. CASE screen' = screen /\ Disturb(TRUE)
    BY <1>0, <2>1, <2>2, DisturbKeeps DEF Shape
  <2>3. CASE /\ screen' = IF screen = "unlocked" /\ MayLock THEN "locked" ELSE screen
             /\ Disturb(FALSE)
    <3>1. Enforced => screen' # "unlocked"
      BY <2>3 DEF MayLock, Enforced
    <3>2. screen' \in {"none", "unlocked", "locked"} /\ (asked => screen' # "unlocked")
          /\ (recorded => screen' # "none")
      BY <2>3 DEF Shape
    <3> QED BY <1>0, <2>1, <2>3, <3>1, <3>2, DisturbKeeps DEF Shape
  <2> QED BY <1>2, <2>2, <2>3 DEF LockPaused
<1> QED BY <1>1, <1>2

\* A round locks the session if it is not permitted; the clock counts on.
LEMMA RoundKeeps ==
    ASSUME Inv, CheckSessions
    PROVE  Inv'
<1> USE DEF Inv
<1>1. /\ now >= nextRound /\ nextRound' = nextRound + MinuteLength
      /\ spared' = (spared /\ screen' = "unlocked")
      /\ UNCHANGED <<cfg, now, usr, used, recorded, asked, copy, pausing>>
  BY DEF CheckSessions
<1>2. /\ screen' = screen \/ (screen = "unlocked" /\ screen' = "locked")
      /\ overdue' = overdue \/ overdue' = 0
  BY DEF CheckSessions
<1>3. spared' \in BOOLEAN
  BY <1>1
<1>4. Shape'
  BY <1>1, <1>2, <1>3 DEF Shape
<1>5. Clock'
  BY <1>1, <1>2, Bounds DEF Clock
<1>6. (Enforced' <=> Enforced) /\ (Permitted' <=> Permitted) /\ (Paused' <=> Paused)
  BY <1>1 DEF Enforced, Permitted, PermitLogin, WithinHours, WithinLimit, Paused
<1>7. Enforced /\ screen' = "unlocked" =>
        screen = "unlocked" /\ (Permitted \/ Paused \/ ~ recorded \/ overdue' = 0)
  BY <1>2 DEF CheckSessions, Skipped, Enforced, Shape
<1>8. SinceRound'
  <2> SUFFICES ASSUME Enforced, screen' = "unlocked"
               PROVE  /\ overdue' <= MinuteLength + Lag
                      /\ Paused \/ ~ recorded => overdue' = 0
                      /\ ~ Permitted => overdue' <= now - nextRound' + MinuteLength
    BY <1>1, <1>6 DEF SinceRound
  <2>1. screen = "unlocked" /\ (Permitted \/ Paused \/ ~ recorded \/ overdue' = 0)
    BY <1>7
  <2>2. overdue <= MinuteLength + Lag /\ (Paused \/ ~ recorded => overdue = 0)
    BY <2>1 DEF SinceRound
  <2>3. ~ Permitted => overdue' = 0
    BY <1>2, <2>1, <2>2
  <2> QED BY <1>2, <2>2, <2>3, <1>1, Bounds DEF Clock
<1>9. PausedStaysLocked'
  BY <1>1, <1>2, <1>6, <1>7 DEF PausedStaysLocked
<1> QED BY <1>4, <1>5, <1>8, <1>9

\* Time adds to what is overdue no more than to the time since the last round.
LEMMA TickKeeps ==
    ASSUME Inv, Tick
    PROVE  Inv'
<1> USE DEF Inv
<1>1. /\ now < nextRound + Lag /\ now' = now + 1 /\ (screen # "none" => recorded)
      /\ overdue' = IF screen = "unlocked" /\ ~ Permitted /\ ~ Paused THEN overdue + 1 ELSE 0
      /\ UNCHANGED <<cfg, usr, screen, recorded, asked, copy, pausing, nextRound, spared>>
  BY DEF Tick
<1>2. Shape'
  BY <1>1 DEF Shape
<1>3. Clock'
  BY <1>1, Bounds DEF Clock
<1>4. (Enforced' <=> Enforced) /\ (Paused' <=> Paused)
  BY <1>1 DEF Enforced, Paused
<1>5. SinceRound'
  <2> SUFFICES ASSUME Enforced, screen = "unlocked"
               PROVE  /\ overdue' <= MinuteLength + Lag
                      /\ Paused => overdue' = 0
                      /\ overdue' <= now' - nextRound + MinuteLength
    BY <1>1, <1>4 DEF SinceRound
  <2>1. CASE ~ Permitted /\ ~ Paused
    <3>1. overdue' = overdue + 1 /\ overdue <= now - nextRound + MinuteLength
      BY <1>1, <2>1 DEF SinceRound
    <3> QED BY <3>1, <2>1, <1>1, Bounds DEF Clock
  <2>2. CASE Permitted \/ Paused
    <3>1. overdue' = 0
      BY <1>1, <2>2
    <3> QED BY <3>1, <1>1, Bounds DEF Clock
  <2> QED BY <2>1, <2>2
<1>6. PausedStaysLocked'
  BY <1>1, <1>4 DEF PausedStaysLocked
<1> QED BY <1>2, <1>3, <1>5, <1>6

-----------------------------------------------------------------------------

\* Every reachable state satisfies the invariant.
LEMMA Invariance == Spec => []Inv
<1>1. Init => Inv
  <2> SUFFICES ASSUME Init PROVE Inv
    OBVIOUS
  <2>1. Shape /\ SinceRound /\ PausedStaysLocked
    BY DEF Init, Shape, SinceRound, PausedStaysLocked
  <2>2. Clock
    BY Bounds, EnforcementAssumption DEF Init, Clock
  <2> QED BY <2>1, <2>2 DEF Inv
<1>2. Inv /\ [Next]_vars => Inv'
  <2> SUFFICES ASSUME Inv, [Next]_vars PROVE Inv'
    OBVIOUS
  <2>1. CASE UNCHANGED vars
    <3>1. (Enforced' <=> Enforced) /\ (Permitted' <=> Permitted) /\ (Paused' <=> Paused)
      BY <2>1 DEF vars, Enforced, Permitted, PermitLogin, WithinHours, WithinLimit, Paused
    <3> QED BY <2>1, <3>1 DEF vars, Inv, Shape, Clock, SinceRound, PausedStaysLocked
  <2> QED BY <2>1, PersonKeeps, HandlersKeep, AskKeeps, ChangeKeeps, PauseKeeps, RoundKeeps,
             TickKeeps DEF Next
<1> QED BY <1>1, <1>2, PTL DEF Spec

\* A session that is no longer permitted is open for less than a minute and
\* the lateness of a round before a round locks it or logind refuses, whatever
\* configuration, overrides, unlocks on their way, changes by administrators and
\* handlers that undo them there are.
THEOREM LockedInTimeAlways == Spec => []LockedInTime
<1>1. Inv => LockedInTime
  BY DEF Inv, SinceRound, LockedInTime
<1> QED BY <1>1, Invariance, PTL

\* A pause keeps the session locked but for a login or unlock that was permitted
\* before it, a login not handled yet, a failed save, a refused lock, and a pause
\* that a handler brought back.
THEOREM PausedStaysLockedAlways == Spec => []PausedStaysLocked
<1>1. Inv => PausedStaysLocked
  BY DEF Inv
<1> QED BY <1>1, Invariance, PTL

-----------------------------------------------------------------------------
(* Type correctness: the day ends before its time of day wraps around.     *)

\* No more time is used than the day has had.
Counters ==
    /\ used \in Nat /\ used <= TimeOfDay(now)
    /\ calm \in Nat /\ faults \in Nat /\ warnings \in [Thresholds -> Nat]

\* A day has some ticks.
LEMMA DayTicksType == DayTicks \in Nat \ {0}
BY PolicyAssumption, Z3 DEF DayTicks

\* What a multiple leaves over.
LEMMA LeftOver ==
    ASSUME NEW q \in Int, NEW d \in Nat \ {0}, NEW r \in 0 .. d - 1
    PROVE  (q * d + r) % d = r
BY SMTT(30)

LEMMA WholeOf ==
    ASSUME NEW q \in Int, NEW d \in Nat \ {0}, NEW r \in 0 .. d - 1
    PROVE  (q * d + r) \div d = q
BY SMTT(30)

\* Within a day the time of day goes with the clock.
LEMMA NextTimeOfDay ==
    ASSUME NEW t \in Nat, NEW d \in Nat \ {0}, t % d < d - 1
    PROVE  (t + 1) % d = (t % d) + 1
<1> DEFINE q == t \div d
           r == t % d
<1>1. r \in 0 .. d - 1 /\ r < d - 1 /\ q \in Int
  OBVIOUS
<1>2. t = q * d + r
  BY SMTT(60)
<1> HIDE DEF q, r
<1>3. q * d \in Int /\ r + 1 \in 0 .. d - 1
  BY <1>1
<1>4. t + 1 = q * d + (r + 1)
  BY <1>1, <1>2, <1>3
<1>5. (q * d + (r + 1)) % d = r + 1
  BY <1>1, <1>3, LeftOver
<1>6. (t + 1) % d = r + 1
  BY <1>4, <1>5
<1> QED BY <1>6 DEF r

\* The configuration is read once.
LEMMA SameConfig ==
    ASSUME [Next]_vars
    PROVE  cfg' = cfg /\ Thresholds' = Thresholds
<1>1. cfg' = cfg
  BY DEF Next, vars, Ask, Login, Unlock, LockScreen, HandleLogin, Logout, HandlerReads,
         HandlerWrites, PauseUser, SavePaused, LockPaused, ResumeUser, AddOverride,
         RemoveOverride, Change, Disturb, CheckSessions, Tick
<1> QED BY <1>1 DEF Thresholds

\* The steps that are not the clock's, the engine's or reads.
LEMMA Disturbing ==
    ASSUME Next, ~ Ask, ~ HandlerReads, ~ CheckSessions, ~ Tick
    PROVE  (\E b : Disturb(b)) /\ (faults' = faults \/ Fault)
BY DEF Next, Login, Unlock, LockScreen, HandleLogin, Logout, HandlerWrites, PauseUser,
       SavePaused, LockPaused, ResumeUser, AddOverride, RemoveOverride, Change

\* Every step keeps the counters.
LEMMA CountersKeep ==
    ASSUME Inv, Counters, [Next]_vars
    PROVE  Counters'
<1> USE DEF Inv, Counters
<1>1. Thresholds' = Thresholds
  BY SameConfig
<1>2. CASE (\E b : Disturb(b)) /\ (faults' = faults \/ Fault)
  <2>1. used' = used /\ now' = now /\ calm' = 0 /\ warnings' = [n \in Thresholds |-> 0]
    BY <1>2 DEF Disturb, Unwarned
  <2>2. faults' \in Nat
    BY <1>2 DEF Fault
  <2> QED BY <2>1, <2>2, <1>1 DEF TimeOfDay
<1>3. CASE Ask \/ HandlerReads \/ UNCHANGED vars
  <2>1. UNCHANGED <<used, now, calm, faults, warnings>>
    BY <1>3 DEF Ask, HandlerReads, vars
  <2> QED BY <2>1, <1>1 DEF TimeOfDay
<1>4. CASE CheckSessions
  <2>1. /\ UNCHANGED <<used, now>> /\ (faults' = faults \/ Fault)
        /\ (\E sent : Warn(sent)) \/ (calm' = 0 /\ warnings' = Unwarned)
    BY <1>4 DEF CheckSessions
  <2>2. calm' \in Nat /\ warnings' \in [Thresholds -> Nat]
    <3>1. ASSUME NEW sent, Warn(sent) PROVE calm' \in Nat /\ warnings' \in [Thresholds -> Nat]
      BY <3>1 DEF Warn
    <3> QED BY <2>1, <3>1 DEF Unwarned
  <2>3. faults' \in Nat
    BY <2>1 DEF Fault
  <2> QED BY <2>1, <2>2, <2>3, <1>1 DEF TimeOfDay
<1>5. CASE Tick
  <2>1. /\ TimeOfDay(now) < DayTicks - 1
        /\ now' = now + 1 /\ faults' = faults
        /\ calm' \in Nat /\ warnings' \in [Thresholds -> Nat]
        /\ used' = used \/ used' = used + 1
    BY <1>5 DEF Tick, Unwarned
  <2>2. now \in Nat
    BY DEF Clock
  <2>3. TimeOfDay(now)' = TimeOfDay(now) + 1
    BY <2>1, <2>2, NextTimeOfDay, DayTicksType DEF TimeOfDay
  <2>4. TimeOfDay(now) \in Nat
    BY <2>2, DayTicksType DEF TimeOfDay
  <2> QED BY <2>1, <2>3, <2>4, <1>1
<1> QED BY <1>2, <1>3, <1>4, <1>5, Disturbing

\* What is counted: the time used, the time since anyone did anything, warnings.
THEOREM CountersAlways == Spec => []Counters
<1>1. Init => Counters
  <2> SUFFICES ASSUME Init PROVE Counters
    OBVIOUS
  <2>1. now \in Nat
    BY EnforcementAssumption DEF Init
  <2>2. TimeOfDay(now) \in Nat
    BY <2>1, DayTicksType DEF TimeOfDay
  <2> QED BY <2>2 DEF Init, Counters, Unwarned
<1>2. Inv /\ Counters /\ [Next]_vars => Counters'
  BY CountersKeep
<1> QED BY <1>1, <1>2, Invariance, PTL DEF Spec

\* Every reachable state is well typed: no round is more than Lag late, and
\* no more time is used than the day has.
THEOREM EnforcementTypeCorrect == Spec => []EnforcementTypeOK
<1>1. Inv /\ Counters => EnforcementTypeOK
  <2> SUFFICES ASSUME Inv, Counters PROVE EnforcementTypeOK
    OBVIOUS
  <2>1. TimeOfDay(now) <= DayTicks
    BY DayTicksType DEF TimeOfDay, Inv, Clock
  <2>2. used \in 0 .. DayTicks
    BY <2>1, DayTicksType DEF Counters, TimeOfDay, Inv, Clock
  <2>3. nextRound \in now - Lag .. now + MinuteLength
    BY Bounds DEF Inv, Clock
  <2> QED BY <2>2, <2>3 DEF Inv, Shape, Clock, Counters, EnforcementTypeOK
<1> QED BY <1>1, Invariance, CountersAlways, PTL

-----------------------------------------------------------------------------
(* What the countdown counts, while the day lasts and no override expires. *)

DayEnd(t) == t - TimeOfDay(t) + DayTicks - 1

\* The clock and the calendar within a day.
LEMMA SameDay ==
    ASSUME NEW t \in Nat, NEW k \in Nat, TimeOfDay(t) + k <= DayTicks - 1
    PROVE  /\ TimeOfDay(t + k) = TimeOfDay(t) + k /\ Weekday(t + k) = Weekday(t)
           /\ DayEnd(t + k) = DayEnd(t)
<1> DEFINE d == DayTicks
           q == t \div d
           r == t % d
<1>1. d \in Nat \ {0}
  BY DayTicksType
<1> HIDE DEF d
<1>2. r \in 0 .. d - 1 /\ q \in Int
  BY <1>1
<1>3. t = q * d + r
  BY <1>1, SMTT(60)
<1>4. r + k \in 0 .. d - 1
  BY <1>2 DEF TimeOfDay, d
<1> HIDE DEF q, r
<1>5. q * d \in Int
  BY <1>1, <1>2
<1>6. t + k = q * d + (r + k)
  BY <1>2, <1>3, <1>5
<1>7. (q * d + (r + k)) % d = r + k
  BY <1>1, <1>2, <1>4, LeftOver
<1>8. (q * d + (r + k)) \div d = q
  BY <1>1, <1>2, <1>4, WholeOf
<1>9. (t + k) % d = (t % d) + k /\ (t + k) \div d = t \div d
  BY <1>6, <1>7, <1>8 DEF q, r
<1>10. TimeOfDay(t + k) = TimeOfDay(t) + k /\ Weekday(t + k) = Weekday(t)
  BY <1>9, Zenon DEF TimeOfDay, Weekday, d
<1>11. TimeOfDay(t) \in Int /\ DayTicks \in Int
  BY DayTicksType DEF TimeOfDay
<1>12. DayEnd(t + k) = DayEnd(t)
  BY <1>10, <1>11 DEF DayEnd
<1> QED BY <1>10, <1>12

Extras(os) == [i \in DOMAIN os |-> os[i].extra]
Given(os, t) == {i \in InForce(os, t) : os[i].extra > 0}

\* The extra time is that of the overrides in force, and none is taken away.
LEMMA ExtraIsSum ==
    ASSUME NEW os \in Seq(Grants), NEW t
    PROVE  /\ ExtraTime(os, t) = MinuteLength * SumOf(Extras(os), Given(os, t))
           /\ ExtraTime(os, t) \in Nat
<1> DEFINE D == {i \in InForce(os, t) : os[i].extra > 0}
           f == Extras(os)
<1>0. D = Given(os, t)
  BY DEF Given
<1>1. D \in SUBSET DOMAIN os /\ IsFiniteSet(D)
  <2>1. DOMAIN os = 1 .. Len(os) /\ Len(os) \in Nat
    OBVIOUS
  <2>2. IsFiniteSet(DOMAIN os)
    BY <2>1, FS_Interval
  <2>3. D \in SUBSET DOMAIN os
    BY DEF InForce
  <2> QED BY <2>2, <2>3, FS_Subset
<1>2. \A i \in D : f[i] = os[i].extra /\ f[i] \in Nat /\ f[i] \in Int
  <2>1. \A i \in DOMAIN os : os[i] \in Grants
    OBVIOUS
  <2> QED BY <1>1, <2>1, EnforcementAssumption DEF Extras
<1>3. PICK it : IsFold(it, f, D)
  <2> HIDE DEF D, f
  <2> QED BY <1>1, <1>2, FoldExists
<1>4. \A r \in SUBSET D : r # {} => f[Chosen(r)] = os[Chosen(r)].extra
  BY <1>1, <1>2, ChosenIn
<1>5. it = [r \in SUBSET D |-> IF r = {} THEN 0
                ELSE os[Chosen(r)].extra + it[r \ {Chosen(r)}]]
  <2> HIDE DEF D, f
  <2> QED BY <1>3, <1>4 DEF IsFold
<1>6. \E jt : /\ jt = [r \in SUBSET D |-> IF r = {} THEN 0
                         ELSE os[Chosen(r)].extra + jt[r \ {Chosen(r)}]]
              /\ ExtraTime(os, t) = MinuteLength * jt[D]
  BY <1>5, Zenon DEF Chosen, ExtraTime, MapThenSumSet, MapThenFoldSet
<1>7. PICK jt : /\ jt = [r \in SUBSET D |-> IF r = {} THEN 0
                           ELSE os[Chosen(r)].extra + jt[r \ {Chosen(r)}]]
                /\ ExtraTime(os, t) = MinuteLength * jt[D]
  BY <1>6
<1>8. IsFold(jt, f, D)
  <2> HIDE DEF D, f
  <2> QED BY <1>4, <1>7 DEF IsFold
<1> HIDE DEF D, f
<1>9. SumOf(f, D) = jt[D] /\ SumOf(f, D) \in Nat
  BY <1>1, <1>2, <1>8, FoldIsSum, SumNat
<1>10. ExtraTime(os, t) = MinuteLength * SumOf(f, D)
  BY <1>7, <1>9
<1>11. MinuteLength * SumOf(f, D) \in Nat
  BY <1>9, Bounds
<1> QED BY <1>0, <1>10, <1>11 DEF f

\* A user for whom both functions have a policy to go by, and agree on hours.
Plain(conf) == conf.limit \in Int /\ {conf.hours, conf.weekendHours} \subseteq TimeRange
Held == Conf # Missing /\ Plain(Conf) /\ usr \in Person /\ HoursAgree

Hours == WindowHours(Conf, usr, now)
Asked == HoursAsked(Conf, usr, now)
HoursLeft == Hours.end * MinuteLength - TimeOfDay(now)
Spare == Conf.limit + ExtraTime(usr.overrides, now) - used
Left == IF Conf.limit > 0 /\ Spare < HoursLeft THEN Spare ELSE HoursLeft
Begun(k) == \A r \in Asked : r.start * MinuteLength <= TimeOfDay(now) + k

\* An instant of the day that is left, before an override expires.
Ahead(k) == k \in Nat /\ TimeOfDay(now) + k <= DayTicks - 1 /\ Standing(now + k) = Standing(now)

\* The user's overrides are a sequence.
LEMMA HeldTypes ==
    ASSUME Held
    PROVE  /\ usr # Missing /\ usr \in Person /\ usr.overrides \in Seq(Grants)
           /\ \A t : Standing(t) = InForce(usr.overrides, t)
<1>1. usr # Missing /\ usr \in Person /\ usr.overrides \in Seq(Grants)
  BY EnforcementAssumption DEF Held, Person
<1> QED BY <1>1 DEF Standing

\* The hours PermitLogin asks for and those whose end is counted down to stay
\* the same, and the latter end first.
LEMMA HoursRight ==
    ASSUME Held, now \in Nat, NEW k, Ahead(k)
    PROVE  /\ WindowHours(Conf, usr, now + k) = Hours
           /\ HoursAsked(Conf, usr, now + k) = Asked
           /\ Hours \in Asked \ {Empty} /\ Asked \subseteq TimeRange
           /\ \A r \in Asked : Hours.end <= r.end
<1> DEFINE os == usr.overrides
           H == {i \in InForce(os, now) : ~ IsEmpty(os[i].hours)}
<1>1. usr # Missing /\ os \in Seq(Grants)
  BY HeldTypes
<1>2. InForce(os, now + k) = InForce(os, now)
  BY HeldTypes DEF Ahead
<1>3. Weekday(now + k) = Weekday(now)
  BY SameDay DEF Ahead
<1>4. ConfiguredHours(Conf, now + k) = ConfiguredHours(Conf, now)
  BY <1>3 DEF ConfiguredHours, IsWeekend
<1>5. ConfiguredHours(Conf, now) \in TimeRange
  BY DEF Held, Plain, ConfiguredHours
<1>6. \A i \in DOMAIN os : os[i].hours \in TimeRange
  <2>1. \A i \in DOMAIN os : os[i] \in Grants
    BY <1>1
  <2> QED BY <2>1, EnforcementAssumption
<1>7. WindowHours(Conf, usr, now + k) = Hours
  BY <1>2, <1>4, Zenon DEF WindowHours, Hours
<1>8. HoursAsked(Conf, usr, now + k) = Asked
  BY <1>2, <1>4, Zenon DEF HoursAsked, Asked
<1>9. Hours = IF H = {} THEN ConfiguredHours(Conf, now) ELSE os[Min(H)].hours
  BY DEF Hours, WindowHours
<1>10. CASE AllowedHoursOverrideIsSet(os)
  <2>1. H # {} /\ \A i \in H : os[Min(H)].hours.end <= os[i].hours.end
    BY <1>10 DEF Held, HoursAgree
  <2>2. H \subseteq DOMAIN os /\ H \in SUBSET Nat
    BY <1>1 DEF InForce
  <2>3. Min(H) \in H
    BY <2>1, <2>2, LeastNat DEF Min
  <2>4. Asked = {os[i].hours : i \in InForce(os, now)} \ {Empty}
    BY <1>1, <1>10 DEF Asked, HoursAsked
  <2>5. \A r \in Asked : \E i \in H : r = os[i].hours
    BY <2>4 DEF IsEmpty
  <2>6. Hours = os[Min(H)].hours
    BY <1>9, <2>1
  <2>7. Hours \in Asked \ {Empty}
    BY <2>3, <2>4, <2>6 DEF IsEmpty
  <2>8. Asked \subseteq TimeRange
    BY <1>6, <2>2, <2>5
  <2>9. \A r \in Asked : Hours.end <= r.end
    BY <2>1, <2>5, <2>6
  <2> HIDE DEF H, os
  <2> QED BY <1>7, <1>8, <2>7, <2>8, <2>9
<1>11. CASE ~ AllowedHoursOverrideIsSet(os)
  <2>1. ~ IsEmpty(ConfiguredHours(Conf, now))
    BY <1>11 DEF Held, HoursAgree
  <2>2. H = {}
    BY <1>11 DEF AllowedHoursOverrideIsSet, InForce
  <2>3. Hours = ConfiguredHours(Conf, now) /\ Asked = {ConfiguredHours(Conf, now)}
    BY <1>9, <1>11, <2>2 DEF Asked, HoursAsked
  <2>4. ConfiguredHours(Conf, now).end <= ConfiguredHours(Conf, now).end
    BY <1>5, PolicyAssumption DEF TimeRange, Empty
  <2> QED BY <1>5, <1>7, <1>8, <2>1, <2>3, <2>4 DEF IsEmpty
<1> QED BY <1>10, <1>11

\* An override in force now is in force now.
LEMMA NowAhead ==
    ASSUME now \in Nat
    PROVE  Ahead(0) /\ now + 0 = now /\ TimeOfDay(now) + 0 = TimeOfDay(now)
           /\ TimeOfDay(now) \in 0 .. DayTicks - 1
BY DayTicksType DEF Ahead, TimeOfDay

\* The numbers these are.
LEMMA LeftTypes ==
    ASSUME Held, now \in Nat, used \in Nat
    PROVE  /\ \A r \in Asked : /\ r.start * MinuteLength \in Nat /\ r.end * MinuteLength \in Nat
                               /\ Hours.end * MinuteLength <= r.end * MinuteLength
           /\ Hours \in Asked /\ ~ IsEmpty(Hours) /\ Hours.end * MinuteLength \in Nat
           /\ HoursLeft \in Int /\ Spare \in Int /\ Left \in Int
           /\ HoursLeft < Unlimited /\ Conf.limit \in Int
           /\ ExtraTime(usr.overrides, now) \in Nat
           /\ TimeOfDay(now) \in 0 .. DayTicks - 1 /\ MinuteLength \in Nat \ {0}
<1>1. Hours \in Asked \ {Empty} /\ Asked \subseteq TimeRange /\ \A r \in Asked : Hours.end <= r.end
  BY NowAhead, HoursRight
<1>2. \A r \in TimeRange : r.start \in Nat /\ r.end \in Nat /\ r.end <= DayMinutes - 1
  BY PolicyAssumption DEF TimeRange, Empty
<1>3. MinuteLength \in Nat \ {0} /\ DayMinutes \in Nat \ {0}
  BY PolicyAssumption
<1>4. \A a, b, c \in Nat : a <= b => a * c <= b * c
  BY Z3
<1>5. \A r \in Asked : /\ r.start * MinuteLength \in Nat /\ r.end * MinuteLength \in Nat
                       /\ Hours.end * MinuteLength <= r.end * MinuteLength
  <2> SUFFICES ASSUME NEW r \in Asked
               PROVE  /\ r.start * MinuteLength \in Nat /\ r.end * MinuteLength \in Nat
                      /\ Hours.end * MinuteLength <= r.end * MinuteLength
    OBVIOUS
  <2>1. r.start \in Nat /\ r.end \in Nat /\ Hours.end \in Nat /\ Hours.end <= r.end
    BY <1>1, <1>2
  <2> QED BY <1>3, <1>4, <2>1
<1>6. Hours.end * MinuteLength <= DayTicks
  <2>1. Hours.end <= DayMinutes /\ Hours.end \in Nat
    BY <1>1, <1>2, <1>3
  <2> QED BY <1>3, <1>4, <2>1 DEF DayTicks
<1>7. TimeOfDay(now) \in 0 .. DayTicks - 1
  BY NowAhead
<1>8. ExtraTime(usr.overrides, now) \in Nat
  BY HeldTypes, ExtraIsSum
<1>9. HoursLeft \in Int /\ HoursLeft < Unlimited
  BY <1>1, <1>5, <1>6, <1>7, DayTicksType, PolicyAssumption DEF HoursLeft
<1>10. Spare \in Int /\ Conf.limit \in Int
  BY <1>8 DEF Spare, Held, Plain
<1> QED BY <1>1, <1>3, <1>5, <1>7, <1>8, <1>9, <1>10 DEF Left, IsEmpty

\* Permission later today, for a session that stays unlocked: within the hours
\* and, where there is one, the limit.
LEMMA PermittedLater ==
    ASSUME Held, Counted, now \in Nat, used \in Nat, NEW k, Ahead(k)
    PROVE  PermitLogin(cfg, usr, used + k, now + k) <=>
             /\ ~ Paused /\ Begun(k)
             /\ k <= HoursLeft /\ (Conf.limit > 0 => k < Spare)
<1>1. k \in Nat /\ TimeOfDay(now + k) = TimeOfDay(now) + k
  BY SameDay DEF Ahead
<1>2. usr.overrides \in Seq(Grants) /\ usr # Missing
      /\ InForce(usr.overrides, now + k) = InForce(usr.overrides, now)
  BY HeldTypes DEF Ahead
<1>3. ExtraTime(usr.overrides, now + k) = ExtraTime(usr.overrides, now)
  <2>1. Given(usr.overrides, now + k) = Given(usr.overrides, now)
    BY <1>2 DEF Given
  <2> QED BY <1>2, <2>1, ExtraIsSum
<1>4. WithinHours(Conf, usr, now + k) <=> \A r \in Asked : WithinRange(r, now + k)
  BY HoursRight DEF WithinHours
<1>5. \A r \in Asked : WithinRange(r, now + k) <=>
        r.start * MinuteLength <= TimeOfDay(now) + k /\ TimeOfDay(now) + k <= r.end * MinuteLength
  <2>1. \A r : WithinRange(r, now + k) <=>
          TimeOfDay(now) + k \in r.start * MinuteLength .. r.end * MinuteLength
    BY <1>1 DEF WithinRange
  <2> QED BY <1>1, <2>1, LeftTypes
<1>6. (\A r \in Asked : TimeOfDay(now) + k <= r.end * MinuteLength) <=> k <= HoursLeft
  <2>1. k <= HoursLeft <=> TimeOfDay(now) + k <= Hours.end * MinuteLength
    BY <1>1, LeftTypes DEF HoursLeft
  <2> QED BY <1>1, <2>1, LeftTypes
<1>7. WithinHours(Conf, usr, now + k) <=> Begun(k) /\ k <= HoursLeft
  BY <1>4, <1>5, <1>6 DEF Begun
<1>8. WithinLimit(Conf, usr, used + k, now + k) <=> (Conf.limit > 0 => k < Spare)
  <2>1. WithinLimit(Conf, usr, used + k, now + k) <=>
          (Conf.limit + ExtraTime(usr.overrides, now) > 0 =>
             used + k < Conf.limit + ExtraTime(usr.overrides, now))
    BY <1>3 DEF WithinLimit
  <2>2. Conf.limit > 0 \/ ExtraTime(usr.overrides, now) = 0
    BY DEF Counted, Held
  <2> QED BY <1>1, <2>1, <2>2, LeftTypes DEF Spare
<1>9. PermitLogin(cfg, usr, used + k, now + k) <=>
        ~ Paused /\ WithinHours(Conf, usr, now + k) /\ WithinLimit(Conf, usr, used + k, now + k)
  BY <1>2 DEF PermitLogin, Conf, Held, Paused
<1> QED BY <1>7, <1>8, <1>9

\* Permission now.
LEMMA PermittedNow ==
    ASSUME Held, Counted, now \in Nat, used \in Nat
    PROVE  Permitted <=> /\ ~ Paused /\ Begun(0)
                         /\ 0 <= HoursLeft /\ (Conf.limit > 0 => 0 < Spare)
<1>1. Ahead(0) /\ used + 0 = used /\ now + 0 = now
  BY NowAhead
<1>2. Permitted <=> PermitLogin(cfg, usr, used + 0, now + 0)
  BY <1>1 DEF Permitted
<1> QED BY <1>1, <1>2, PermittedLater

\* The countdown of a session that is permitted.
LEMMA RemainingIsLeft ==
    ASSUME Held, Counted, now \in Nat, used \in Nat, Permitted
    PROVE  Remaining = Left /\ Left \in Nat /\ (Conf.limit > 0 => Left <= Spare)
<1>1. HoursLeft \in Nat /\ (Conf.limit > 0 => Spare \in Nat)
  BY PermittedNow, LeftTypes
<1>2. usr # Missing
  BY HeldTypes
<1>3. LimitLeft(Conf, usr, used, now) = IF Conf.limit > 0 THEN {Spare} ELSE {}
  <2>1. LimitLeft(Conf, usr, used, now) = IF Conf.limit > 0 THEN {UpTo0(Spare)} ELSE {}
    BY DEF LimitLeft, Spare
  <2> QED BY <1>1, <2>1 DEF UpTo0
<1>4. WindowLeft(Conf, usr, now) = {HoursLeft}
  <2>1. ~ IsEmpty(Hours)
    BY LeftTypes
  <2>2. WindowLeft(Conf, usr, now) = {UpTo0(HoursLeft)}
    BY <2>1 DEF WindowLeft, Hours, HoursLeft
  <2> QED BY <1>1, <2>2 DEF UpTo0
<1>5. Remaining = Min({Unlimited} \union LimitLeft(Conf, usr, used, now)
                                  \union WindowLeft(Conf, usr, now))
  BY <1>2 DEF Remaining, GetTimeRemaining, Conf, Held
<1> DEFINE S == {Unlimited} \union (IF Conf.limit > 0 THEN {Spare} ELSE {}) \union {HoursLeft}
<1>6. Remaining = Min(S)
  BY <1>3, <1>4, <1>5
<1>7. Left \in S /\ \A y \in S : Left <= y
  BY <1>1, LeftTypes, PolicyAssumption DEF Left
<1>8. \A y \in S : y \in Int
  BY LeftTypes, PolicyAssumption
<1> HIDE DEF S
<1>9. Min(S) \in S /\ \A y \in S : Min(S) <= y
  BY <1>7 DEF Min
<1>10. Min(S) = Left
  BY <1>7, <1>8, <1>9
<1> QED BY <1>1, <1>6, <1>10, LeftTypes DEF Left

\* The configuration is one of those loaded.
Loaded == cfg \in Configs

THEOREM LoadedAlways == Spec => []Loaded
<1>1. Init => Loaded
  BY DEF Init, Loaded
<1>2. Loaded /\ [Next]_vars => Loaded'
  BY SameConfig DEF Loaded
<1> QED BY <1>1, <1>2, PTL DEF Spec

LEMMA PolicyPlain == ASSUME Loaded, Conf # Missing PROVE Plain(Conf)
BY EnforcementAssumption DEF Loaded, Conf, PolicyOf, Plain

LEMMA CountdownRight == ASSUME Inv, Counters, Loaded PROVE CountdownAgrees
<1> DEFINE today == DayTicks - 1 - TimeOfDay(now)
           later(k) == PermitLogin(cfg, usr, used + k, now + k)
           same(k) == Standing(now + k) = Standing(now)
<1> SUFFICES ASSUME recorded, screen = "unlocked", Permitted, Counted, HoursAgree
             PROVE  /\ \A k \in 0 .. Min({Remaining - 1, today}) : same(k) => later(k)
                    /\ Remaining + 1 <= today /\ same(Remaining + 1) => ~ later(Remaining + 1)
  BY DEF CountdownAgrees
<1>0. now \in Nat /\ TimeOfDay(now) \in 0 .. DayTicks - 1
  BY NowAhead DEF Inv, Clock
<1>1. today \in Nat /\ today < Unlimited /\ Unlimited \in Nat
  BY <1>0, DayTicksType, PolicyAssumption
<1>2. usr # Missing /\ usr \in Person /\ used \in Nat
  BY DEF Inv, Shape, Counters
<1>3. CASE Conf = Missing
  <2>1. \A k : later(k)
    BY <1>3 DEF PermitLogin, Conf
  <2>2. Remaining = Unlimited
    BY <1>3 DEF Remaining, GetTimeRemaining, Conf
  <2> QED BY <1>1, <2>1, <2>2
<1>4. CASE Conf # Missing
  <2>1. Held
    BY <1>2, <1>4, PolicyPlain DEF Held
  <2>2. Remaining = Left /\ Left \in Nat /\ (Conf.limit > 0 => Left <= Spare)
    BY <1>0, <1>2, <2>1, RemainingIsLeft
  <2>3. HoursLeft \in Int /\ Spare \in Int /\ Left <= HoursLeft
    BY <1>0, <1>2, <2>1, LeftTypes DEF Left
  <2>4. ~ Paused /\ \A k \in Nat : Begun(k)
    <3>1. ~ Paused /\ Begun(0)
      BY <1>0, <1>2, <2>1, PermittedNow
    <3>2. \A r \in Asked : r.start * MinuteLength \in Nat
      BY <1>0, <1>2, <2>1, LeftTypes
    <3> QED BY <1>0, <3>1, <3>2 DEF Begun
  <2>5. \A k \in Nat : k <= today /\ same(k) =>
          (later(k) <=> k <= HoursLeft /\ (Conf.limit > 0 => k < Spare))
    <3> SUFFICES ASSUME NEW k \in Nat, k <= today, same(k)
                 PROVE  later(k) <=> k <= HoursLeft /\ (Conf.limit > 0 => k < Spare)
      OBVIOUS
    <3>1. Ahead(k)
      BY <1>0, DayTicksType DEF Ahead
    <3> QED BY <1>0, <1>2, <2>1, <2>4, <3>1, PermittedLater
  <2>6. ASSUME NEW k \in 0 .. Min({Remaining - 1, today}), same(k) PROVE later(k)
    <3>1. Remaining - 1 \in Int
      BY <2>2
    <3>2. Min({Remaining - 1, today}) <= Remaining - 1 /\ Min({Remaining - 1, today}) <= today
          /\ Min({Remaining - 1, today}) \in Int
      <4> DEFINE S == {Remaining - 1, today}
      <4>1. \E x \in S : \A y \in S : x <= y
        BY <1>1, <3>1
      <4>2. Min(S) \in S /\ \A y \in S : Min(S) <= y
        BY <4>1, Zenon DEF Min
      <4> QED BY <1>1, <3>1, <4>2
    <3>3. k \in Nat /\ k <= today /\ k <= Left - 1
      BY <1>1, <2>2, <3>2
    <3>4. k <= HoursLeft /\ (Conf.limit > 0 => k < Spare)
      BY <2>2, <2>3, <3>3
    <3> HIDE DEF later, same
    <3> QED BY <2>5, <2>6, <3>3, <3>4
  <2>7. ASSUME Remaining + 1 <= today, same(Remaining + 1) PROVE ~ later(Remaining + 1)
    <3>1. Left + 1 \in Nat /\ Left + 1 <= today /\ same(Left + 1)
      BY <2>2, <2>7
    <3>2. ~ (Left + 1 <= HoursLeft /\ (Conf.limit > 0 => Left + 1 < Spare))
      BY <2>2, <2>3 DEF Left
    <3>3. ~ later(Left + 1)
      <4> HIDE DEF later, same
      <4> QED BY <2>5, <3>1, <3>2
    <3> QED BY <2>2, <3>3
  <2> QED BY <2>6, <2>7
<1> QED BY <1>3, <1>4

\* The countdown tells how long a session stays permitted, for any configuration,
\* overrides, minutes and days: until an override expires, where the hours agree
\* and extra time comes on top of a limit.
THEOREM CountdownAgreesAlways == Spec => []CountdownAgrees
<1>1. Inv /\ Counters /\ Loaded => CountdownAgrees
  BY CountdownRight
<1> QED BY <1>1, Invariance, CountersAlways, LoadedAlways, PTL

-----------------------------------------------------------------------------
(* One warning per threshold.  While no one does anything the countdown    *)
(* runs to a fixed time, and rounds on time come a minute apart: exactly   *)
(* one falls into the minute in which a threshold is passed.               *)

Deadline == now + Left

\* The last round that was on time.
LastRound == nextRound - MinuteLength

\* An unlocked session that rounds look at and the countdown is right about.
Watched == Enforced /\ recorded /\ screen = "unlocked" /\ ~ Paused /\ Counted /\ HoursAgree

\* A round during the calm found the session permitted, and a threshold of a minute
\* or more was warned of once if its minute was entered by then.  (The round that
\* locks would be the one that warns of a shorter one.)
WarnInv ==
    Watched =>
        /\ now - calm < LastRound => LastRound <= Deadline /\ Begun(0)
        /\ \A n \in Thresholds : MinuteLength <= n /\ now - calm < Deadline - n =>
             warnings[n] = IF Deadline - n <= LastRound THEN 1 ELSE 0

\* All that the state was found to be.
Sound == Inv /\ Counters /\ Loaded

LEMMA SoundThresholds ==
    ASSUME Sound
    PROVE  \A n \in Thresholds : n \in Int
BY EnforcementAssumption DEF Sound, Loaded, Thresholds

\* What Watched says of the policy.
LEMMA WatchedHeld ==
    ASSUME Sound, Watched
    PROVE  Held /\ Counted /\ now \in Nat /\ used \in Nat
<1>1. usr # Missing /\ usr \in Person /\ used \in Nat /\ now \in Nat
  BY DEF Sound, Inv, Shape, Clock, Counters, Watched
<1>2. Conf # Missing
  BY DEF Watched, Enforced, Conf, PolicyOf
<1> QED BY <1>1, <1>2, PolicyPlain DEF Held, Sound, Watched

\* The clock's numbers, for arithmetic.
LEMMA SoundNumbers ==
    ASSUME Sound
    PROVE  /\ now \in Nat /\ calm \in Nat /\ nextRound \in Int /\ used \in Nat
           /\ nextRound <= now + MinuteLength /\ now <= nextRound + Lag
           /\ MinuteLength \in Nat \ {0} /\ Lag \in Nat /\ Lag < MinuteLength
           /\ Watched => Left \in Int
<1>1. Watched => Left \in Int
  BY WatchedHeld, LeftTypes
<1> QED BY <1>1, Bounds DEF Sound, Inv, Clock, Counters

\* Counting begins anew.
LEMMA AnewWarns ==
    ASSUME Sound, now' \in Nat, nextRound' \in Int, nextRound' <= now' + MinuteLength,
           calm' = 0, warnings' = Unwarned, Thresholds' = Thresholds,
           Watched' => Left' \in Int
    PROVE  WarnInv'
<1> SUFFICES ASSUME Watched' PROVE WarnInv'
  BY DEF WarnInv
<1>1. ~ (now' - calm' < LastRound')
  BY SoundNumbers DEF LastRound
<1>2. ASSUME NEW n \in Thresholds', now' - calm' < Deadline' - n
      PROVE  warnings'[n] = IF Deadline' - n <= LastRound' THEN 1 ELSE 0
  <2>1. n \in Int
    BY <1>2, SoundThresholds
  <2>2. ~ (Deadline' - n <= LastRound')
    BY <1>2, <2>1, SoundNumbers DEF Deadline, LastRound
  <2> QED BY <1>2, <2>2 DEF Unwarned
<1> QED BY <1>1, <1>2 DEF WarnInv

\* Time passes: the deadline stays.
LEMMA TickWarns ==
    ASSUME Sound, WarnInv, Tick, Standing(now') = Standing(now)
    PROVE  WarnInv'
<1> SUFFICES ASSUME Watched' PROVE WarnInv'
  BY DEF WarnInv
<1>1. /\ UNCHANGED <<cfg, usr, screen, recorded, nextRound>> /\ now' = now + 1
      /\ calm' = calm + 1 /\ warnings' = warnings /\ TimeOfDay(now) < DayTicks - 1
  <2>1. calm' = calm + 1 /\ warnings' = warnings
    BY DEF Tick
  <2> QED BY <2>1 DEF Tick
<1>2. Enforced /\ recorded /\ screen = "unlocked" /\ ~ Paused /\ used' = used + 1
  BY <1>1 DEF Tick, Watched, Enforced, Paused
<1>3. /\ usr # Missing /\ usr \in Person /\ usr.overrides \in Seq(Grants)
      /\ now \in Nat /\ used \in Nat
  BY <1>2, EnforcementAssumption DEF Sound, Inv, Shape, Clock, Counters, Person
<1>4. /\ TimeOfDay(now + 1) = TimeOfDay(now) + 1 /\ Weekday(now + 1) = Weekday(now)
      /\ Ahead(1) /\ TimeOfDay(now) \in Nat
  <2>1. TimeOfDay(now) + 1 <= DayTicks - 1 /\ TimeOfDay(now) \in Nat
    BY <1>1, <1>3, NowAhead, DayTicksType
  <2>2. Standing(now + 1) = Standing(now)
    BY <1>1
  <2> QED BY <1>3, <2>1, <2>2, SameDay DEF Ahead
<1>5. InForce(usr.overrides, now + 1) = InForce(usr.overrides, now)
  BY <1>3, <1>4 DEF Ahead, Standing
<1>6. ExtraTime(usr.overrides, now + 1) = ExtraTime(usr.overrides, now)
  <2>1. Given(usr.overrides, now + 1) = Given(usr.overrides, now)
    BY <1>5 DEF Given
  <2> QED BY <1>3, <2>1, ExtraIsSum
<1>7. Conf' = Conf /\ ConfiguredHours(Conf, now + 1) = ConfiguredHours(Conf, now)
  BY <1>1, <1>4 DEF Conf, ConfiguredHours, IsWeekend
<1>8. HoursAgree /\ Counted
  <2>1. Counted
    BY <1>1, <1>6, <1>7 DEF Watched, Counted
  <2>2. HoursAgree
    BY <1>1, <1>5, <1>7, Zenon DEF Watched, HoursAgree
  <2> QED BY <2>1, <2>2
<1>9. Watched
  BY <1>2, <1>8 DEF Watched
<1>10. Held
  BY <1>9, WatchedHeld
<1>11. Hours' = Hours /\ Asked' = Asked
  <2>1. WindowHours(Conf, usr, now + 1) = Hours /\ HoursAsked(Conf, usr, now + 1) = Asked
    BY <1>3, <1>4, <1>10, HoursRight
  <2> QED BY <1>1, <1>7, <2>1 DEF Hours, Asked
<1>12. Spare' = Spare - 1 /\ HoursLeft' = HoursLeft - 1
  <2>1. Spare' = Conf.limit + ExtraTime(usr.overrides, now) - (used + 1)
    BY <1>1, <1>2, <1>6, <1>7 DEF Spare
  <2>2. HoursLeft' = Hours.end * MinuteLength - (TimeOfDay(now) + 1)
    BY <1>1, <1>4, <1>11 DEF HoursLeft
  <2>3. /\ Conf.limit \in Int /\ ExtraTime(usr.overrides, now) \in Nat
        /\ Hours.end * MinuteLength \in Nat
    BY <1>3, <1>10, LeftTypes
  <2>4. Spare' = Spare - 1
    BY <1>3, <2>1, <2>3 DEF Spare
  <2>5. HoursLeft' = HoursLeft - 1
    BY <1>4, <2>2, <2>3 DEF HoursLeft
  <2> QED BY <2>4, <2>5
<1>13. Left' = Left - 1 /\ Deadline' = Deadline
  <2>1. Left' = Left - 1
    BY <1>3, <1>7, <1>10, <1>12, LeftTypes DEF Left
  <2> QED BY <1>1, <1>3, <1>10, <2>1, LeftTypes DEF Deadline
<1>14. now' - calm' = now - calm /\ LastRound' = LastRound /\ Thresholds' = Thresholds
  BY <1>1, SoundNumbers DEF LastRound, Thresholds
<1>15. Begun(0) => Begun(0)'
  <2>1. TimeOfDay(now)' = TimeOfDay(now) + 1
    BY <1>1, <1>4
  <2>2. \A r \in Asked : r.start * MinuteLength \in Nat
    BY <1>3, <1>10, LeftTypes
  <2> QED BY <1>4, <1>11, <2>1, <2>2 DEF Begun
<1> QED BY <1>1, <1>9, <1>13, <1>14, <1>15 DEF WarnInv

\* A round that leaves the session unlocked has found it permitted, or logind
\* has refused.
LEMMA RoundWarns ==
    ASSUME Sound, WarnInv, CheckSessions, Watched' => Left' \in Int
    PROVE  WarnInv'
<1> SUFFICES ASSUME Watched' PROVE WarnInv'
  BY DEF WarnInv
<1>1. /\ UNCHANGED <<cfg, usr, used, now, recorded>>
      /\ nextRound' = nextRound + MinuteLength /\ nextRound <= now
  BY SoundNumbers DEF CheckSessions
<1>2. screen = "unlocked" /\ Enforced
  BY <1>1 DEF CheckSessions, Watched, Enforced
<1>3. Watched /\ Conf' = Conf /\ Hours' = Hours /\ Left' = Left /\ Deadline' = Deadline
      /\ Thresholds' = Thresholds /\ (Begun(0)' <=> Begun(0))
  BY <1>1, <1>2 DEF Watched, Enforced, Counted, HoursAgree, Paused, Conf, Hours, Left, Spare,
                    HoursLeft, Deadline, Thresholds, Begun, Asked
<1>4. Held /\ Counted /\ now \in Nat /\ used \in Nat
  BY <1>3, WatchedHeld
<1>5. ~ Skipped
  BY <1>3, HeldTypes, <1>4 DEF Skipped, Watched, Enforced
<1>6. \/ Permitted /\ Warn(Due)
      \/ calm' = 0 /\ warnings' = Unwarned
  <2>1. screen' = "unlocked" /\ cfg.own.lock
    BY <1>2 DEF Watched, Enforced
  <2> QED BY <1>2, <1>5, <2>1 DEF CheckSessions
<1>7. CASE calm' = 0 /\ warnings' = Unwarned
  BY <1>1, <1>3, <1>7, SoundNumbers, AnewWarns
<1>8. CASE Permitted /\ Warn(Due)
  <2>1. Remaining = Left /\ Left \in Nat /\ Left < Unlimited /\ Begun(0)
    <3>1. Remaining = Left /\ Left \in Nat /\ Left <= HoursLeft
      BY <1>4, <1>8, RemainingIsLeft, LeftTypes DEF Left
    <3>2. Begun(0)
      BY <1>4, <1>8, PermittedNow
    <3> QED BY <1>4, <3>1, <3>2, LeftTypes, PolicyAssumption
  <2>2. \A n \in Thresholds : n \in Int
    BY SoundThresholds
  <2>3. \A n \in Thresholds : n \in Due <=> Left <= n /\ n - MinuteLength < Left
    BY <2>1, <2>2, SoundNumbers DEF Due, CheckSendNotification
  <2>4. LastRound' = nextRound /\ LastRound = nextRound - MinuteLength /\ Deadline = now + Left
    BY <1>1, SoundNumbers DEF LastRound, Deadline
  <2>5. CASE now = nextRound
    <3>1. calm' = calm /\ \A n \in Thresholds :
                            warnings'[n] = warnings[n] + (IF n \in Due THEN 1 ELSE 0)
      BY <1>8, <2>5, SoundNumbers DEF Warn
    <3>2. LastRound' <= Deadline' /\ Begun(0)'
      BY <1>1, <1>3, <2>1, <2>4, <2>5, SoundNumbers
    <3>3. ASSUME NEW n \in Thresholds', MinuteLength <= n, now' - calm' < Deadline' - n
          PROVE  warnings'[n] = IF Deadline' - n <= LastRound' THEN 1 ELSE 0
      <4>1. n \in Thresholds /\ n \in Int
        BY <1>3, <2>2, <3>3
      <4>2. warnings[n] = IF Deadline - n <= LastRound THEN 1 ELSE 0
        BY <1>1, <1>3, <3>1, <3>3, <4>1 DEF WarnInv
      <4>3. warnings'[n] = (IF Deadline - n <= LastRound THEN 1 ELSE 0)
                             + (IF Left <= n /\ n - MinuteLength < Left THEN 1 ELSE 0)
        BY <2>3, <3>1, <4>1, <4>2
      <4> QED BY <1>3, <2>1, <2>4, <2>5, <4>1, <4>3, SoundNumbers
    <3> QED BY <3>2, <3>3 DEF WarnInv
  <2>6. CASE nextRound < now
    <3>1. calm' = 0 /\ \A n \in Thresholds : warnings'[n] = IF n \in Due THEN 1 ELSE 0
      BY <1>8, <2>6, SoundNumbers DEF Warn
    <3>2. ~ (now' - calm' < LastRound')
      BY <1>1, <2>4, <2>6, <3>1, SoundNumbers
    <3>3. ASSUME NEW n \in Thresholds', now' - calm' < Deadline' - n
          PROVE  warnings'[n] = IF Deadline' - n <= LastRound' THEN 1 ELSE 0
      <4>1. n \in Thresholds /\ n \in Int
        BY <1>3, <2>2, <3>3
      <4>2. n < Left /\ ~ (Deadline' - n <= LastRound')
        BY <1>1, <1>3, <2>1, <2>4, <2>6, <3>1, <3>3, <4>1, SoundNumbers
      <4>3. n \notin Due
        BY <2>1, <2>3, <4>1, <4>2
      <4> QED BY <3>1, <4>1, <4>2, <4>3
    <3> QED BY <3>2, <3>3 DEF WarnInv
  <2> QED BY <1>1, <2>5, <2>6, SoundNumbers
<1> QED BY <1>6, <1>7, <1>8

\* The round that locks comes at the first minute after the deadline, so every
\* threshold was entered in the calm.
LEMMA LockWarned ==
    ASSUME Sound, WarnInv, CheckSessions, screen = "unlocked", screen' = "locked",
           Counted, HoursAgree,
           NEW n \in Thresholds, MinuteLength <= n, calm' > n + MinuteLength
    PROVE  warnings'[n] = 1
<1>1. ~ Skipped /\ ~ Permitted /\ cfg.own.lock /\ Warn({}) /\ nextRound <= now
  <2>1. screen' # screen
    OBVIOUS
  <2> QED BY <2>1, SoundNumbers DEF CheckSessions
<1>2. Watched
  BY <1>1 DEF Watched, Skipped, Enforced
<1>3. Held /\ now \in Nat /\ used \in Nat
  BY <1>2, WatchedHeld
<1>4. n \in Int /\ MinuteLength <= n
  BY SoundThresholds
<1>5. now = nextRound /\ calm' = calm /\ calm > n + MinuteLength /\ warnings'[n] = warnings[n] + 0
  BY <1>1, <1>4, SoundNumbers DEF Warn
<1>6. LastRound = now - MinuteLength /\ Deadline = now + Left
  BY <1>5, SoundNumbers DEF LastRound, Deadline
<1>7. now - calm < LastRound
  BY <1>4, <1>5, <1>6, SoundNumbers
<1>8. LastRound <= Deadline /\ Begun(0)
  BY <1>2, <1>7 DEF WarnInv
<1>9. Left <= 0
  <2>1. ~ (0 <= HoursLeft /\ (Conf.limit > 0 => 0 < Spare))
    BY <1>1, <1>2, <1>3, <1>8, PermittedNow DEF Watched
  <2> QED BY <1>3, <2>1, LeftTypes DEF Left
<1>10. Left \in Int
  BY <1>3, LeftTypes
<1>11. now - calm < Deadline - n /\ Deadline - n <= LastRound
  BY <1>4, <1>5, <1>6, <1>8, <1>9, <1>10, SoundNumbers
<1>12. warnings[n] = 1
  BY <1>2, <1>4, <1>11 DEF WarnInv
<1> QED BY <1>5, <1>12

\* A user who was left alone is warned exactly once at each threshold of a minute or
\* more before a round locks the session: whatever the policy and the overrides,
\* wherever the thresholds lie, and however late the rounds were before.
THEOREM WarnedOnceAlways == Spec => WarnedOnce
<1>1. Init /\ Sound => WarnInv
  <2> SUFFICES ASSUME Init, Sound PROVE WarnInv
    OBVIOUS
  <2> QED BY DEF Init, WarnInv, Watched
<1>2. Sound => (Watched => Left \in Int) /\ now \in Nat
  BY SoundNumbers
<1>3. (Sound => (Watched => Left \in Int) /\ now \in Nat)'
  BY <1>2, PTL
<1>4. Sound /\ Sound' /\ WarnInv /\ [Next]_vars => WarnInv'
  <2> SUFFICES ASSUME Sound, Sound', WarnInv, [Next]_vars PROVE WarnInv'
    OBVIOUS
  <2>5. (Watched' => Left' \in Int) /\ now' \in Nat
    BY <1>3
  <2>0. Thresholds' = Thresholds
    BY SameConfig
  <2>1. CASE \E b : Disturb(b)
    <3>1. calm' = 0 /\ warnings' = Unwarned /\ nextRound' = nextRound /\ now' = now
      BY <2>1 DEF Disturb
    <3> QED BY <2>0, <2>5, <3>1, SoundNumbers, AnewWarns
  <2>2. CASE Ask \/ HandlerReads \/ UNCHANGED vars
    <3>1. UNCHANGED <<cfg, now, usr, used, screen, recorded, nextRound, calm, warnings>>
      BY <2>2 DEF Ask, HandlerReads, vars
    <3> QED BY <3>1 DEF WarnInv, Watched, Enforced, Counted, HoursAgree, Paused, Conf, Deadline,
               LastRound, Left, Spare, HoursLeft, Hours, Thresholds, Begun, Asked
  <2>3. CASE CheckSessions
    BY <2>3, <2>5, RoundWarns
  <2>4. CASE Tick
    <3>1. CASE Standing(now') = Standing(now)
      BY <2>4, <3>1, TickWarns
    <3>2. CASE Standing(now') # Standing(now)
      <4>1. calm' = 0 /\ warnings' = Unwarned /\ nextRound' = nextRound /\ now' = now + 1
        BY <2>4, <3>2 DEF Tick
      <4> QED BY <2>0, <2>5, <4>1, SoundNumbers, AnewWarns
    <3> QED BY <3>1, <3>2
  <2> QED BY <2>1, <2>2, <2>3, <2>4, Disturbing
<1>5. Sound /\ WarnInv /\ [Next]_vars =>
        (CheckSessions /\ screen = "unlocked" /\ screen' = "locked" /\ Counted /\ HoursAgree =>
           \A n \in Thresholds : MinuteLength <= n /\ calm' > n + MinuteLength =>
                                     warnings'[n] = 1)
  BY LockWarned
<1>6. Inv /\ Counters /\ Loaded => Sound
  BY DEF Sound
<1> QED BY <1>1, <1>4, <1>5, <1>6, Invariance, CountersAlways, LoadedAlways, PTL
        DEF Spec, WarnedOnce
=============================================================================
