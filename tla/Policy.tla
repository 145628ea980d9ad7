------------------------------- MODULE Policy -------------------------------
(***************************************************************************)
(* internal/eval, with the parts of internal/config and of the overrides   *)
(* it reads: whether a user may use the machine, and for how long yet.     *)
(*                                                                         *)
(* A tick of the clock stands for a second; minutes and days are shorter   *)
(* than real ones.  Clock times of ranges are minutes of the day.          *)
(***************************************************************************)
EXTENDS Integers, SequencesExt

CONSTANTS
    MinuteLength,     \* ticks per minute
    DayMinutes,       \* minutes per day
    WeekLength,       \* days per week
    DefaultWeekend,   \* Saturday and Sunday
    Missing,          \* a pointer or slice that is nil, a user that is unknown
    Unlimited         \* math.MaxInt64

DayTicks == DayMinutes * MinuteLength

ASSUME PolicyAssumption ==
    /\ {MinuteLength, DayMinutes, WeekLength} \subseteq Nat \ {0}
    /\ DefaultWeekend \subseteq 0 .. WeekLength - 1
    /\ Unlimited \in Nat /\ Unlimited > DayTicks

TimeOfDay(t) == t % DayTicks
Weekday(t) == (t \div DayTicks) % WeekLength

-----------------------------------------------------------------------------
(* Configuration: config.go.                                               *)

\* The zero TimeRange: midnight to midnight, and no parsed range.
Empty == [start |-> 0, end |-> 0]
IsEmpty(r) == r = Empty
TimeRange == {Empty} \union
    {r \in [start : 0 .. DayMinutes - 1, end : 0 .. DayMinutes - 1] : r.start < r.end}

\* Both ends belong to the range; minutes of the day have no seconds.
WithinRange(r, t) ==
    TimeOfDay(t) \in r.start * MinuteLength .. r.end * MinuteLength

IsWeekend(conf, t) ==
    Weekday(t) \in (IF conf.weekendDays \in {Missing, {}} THEN DefaultWeekend
                    ELSE conf.weekendDays)

\* What the user's section leaves out is taken from the default's.
SetDefault(conf, def) ==
    LET Or(field, unset) == IF conf[field] = unset THEN def[field] ELSE conf[field]
    IN  [limit |-> Or("limit", 0), hours |-> Or("hours", Empty),
         weekendHours |-> Or("weekendHours", Empty),
         weekendDays |-> Or("weekendDays", Missing),
         notify |-> Or("notify", Missing), lock |-> Or("lock", Missing),
         enabled |-> Or("enabled", Missing)]

\* The configuration after loading: the default's section, and the user's
\* if there is one.
LoadConfig(def, own) ==
    LET d == [def EXCEPT !.enabled = (@ = TRUE), !.lock = (@ = TRUE)]
    IN  [default |-> d, own |-> IF own = Missing THEN Missing ELSE SetDefault(own, d)]

-----------------------------------------------------------------------------
(* Overrides: override.go, user.go.                                        *)

IsExpired(o, t) == t > o.expires
InForce(os, t) == {i \in DOMAIN os : ~ IsExpired(os[i], t)}

AllowedHoursOverrideIsSet(os) == \E i \in DOMAIN os : ~ IsEmpty(os[i].hours)

ExtraTime(os, t) ==
    LET given == {i \in InForce(os, t) : os[i].extra > 0}
    IN  MinuteLength * MapThenSumSet(LAMBDA i : os[i].extra, given)

-----------------------------------------------------------------------------
(* PermitLogin and GetTimeRemaining: eval.go.                              *)

PolicyOf(cfg) ==
    IF cfg.own # Missing THEN cfg.own
    ELSE IF cfg.default.enabled THEN cfg.default ELSE Missing

ConfiguredHours(conf, t) == IF IsWeekend(conf, t) THEN conf.weekendHours ELSE conf.hours

\* The hours that are asked for: those of all overrides in force that have any,
\* which are none at all once they have expired.
HoursAsked(conf, usr, t) ==
    IF usr # Missing /\ AllowedHoursOverrideIsSet(usr.overrides)
    THEN {usr.overrides[i].hours : i \in InForce(usr.overrides, t)} \ {Empty}
    ELSE {ConfiguredHours(conf, t)}

WithinHours(conf, usr, t) == \A r \in HoursAsked(conf, usr, t) : WithinRange(r, t)

WithinLimit(conf, usr, used, t) ==
    LET limit == conf.limit + ExtraTime(usr.overrides, t)
    IN  limit > 0 => used < limit

PermitLogin(cfg, usr, used, t) ==
    LET conf == PolicyOf(cfg)
    IN  \/ conf = Missing
        \/ /\ WithinHours(conf, usr, t)
           /\ usr # Missing => ~ usr.paused /\ WithinLimit(conf, usr, used, t)

UpTo0(n) == IF n < 0 THEN 0 ELSE n

\* What the daily limit leaves: nothing if there is none.
LimitLeft(conf, usr, used, t) ==
    IF conf.limit > 0 THEN {UpTo0(conf.limit + ExtraTime(usr.overrides, t) - used)}
    ELSE {}

\* Mutant: the hours of working days end every day.
WindowHoursWorkday(conf, usr, t) ==
    LET withHours == {i \in InForce(usr.overrides, t) : ~ IsEmpty(usr.overrides[i].hours)}
    IN  IF withHours = {} THEN conf.hours ELSE usr.overrides[Min(withHours)].hours

\* The hours that end a session today: those of the first override in force
\* that has any, else the configured ones.
WindowHours(conf, usr, t) ==
    LET withHours == {i \in InForce(usr.overrides, t) : ~ IsEmpty(usr.overrides[i].hours)}
    IN  IF withHours = {} THEN ConfiguredHours(conf, t)
        ELSE usr.overrides[Min(withHours)].hours

\* What the end of those hours leaves: nothing if they are empty.
WindowLeft(conf, usr, t) ==
    LET r == WindowHours(conf, usr, t)
    IN  IF IsEmpty(r) THEN {} ELSE {UpTo0(r.end * MinuteLength - TimeOfDay(t))}

GetTimeRemaining(cfg, usr, used, t) ==
    LET conf == PolicyOf(cfg)
    IN  IF conf = Missing \/ usr = Missing THEN Unlimited
        ELSE Min({Unlimited} \union LimitLeft(conf, usr, used, t)
                             \union WindowLeft(conf, usr, t))

\* Mutant: the threshold itself is outside the window.
CheckSendNotificationBelow(remaining, notifyAt) ==
    remaining < notifyAt /\ remaining > notifyAt - MinuteLength

\* MaxInt64 seconds overflow a Duration, to minus one second.
CheckSendNotification(remaining, notifyAt) ==
    LET left == IF remaining = Unlimited THEN -1 ELSE remaining
    IN  left <= notifyAt /\ left > notifyAt - MinuteLength
=============================================================================
