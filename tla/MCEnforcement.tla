--------------------------- MODULE MCEnforcement ----------------------------
(***************************************************************************)
(* Enforcement for TLC: a Saturday of nine minutes of two ticks.           *)
(***************************************************************************)
EXTENDS Enforcement

Hours(s, e) == [start |-> s, end |-> e]

Section(limit, hours, weekendHours, notify) ==
    [limit |-> limit, hours |-> hours, weekendHours |-> weekendHours,
     weekendDays |-> Missing, notify |-> notify, lock |-> TRUE, enabled |-> TRUE]

Unset == [limit |-> 0, hours |-> Empty, weekendHours |-> Empty,
          weekendDays |-> Missing, notify |-> Missing, lock |-> Missing,
          enabled |-> Missing]

Family == Section(9, Hours(1, 8), Hours(2, 8), {2, 4})

\* A user with a section of its own, in part taken from the default's; one
\* whose Saturday is a working day; one without a limit; one without a section.
MCConfigs ==
    {LoadConfig(Family, [Unset EXCEPT !.weekendHours = Hours(1, 6)]),
     LoadConfig(Family, [Unset EXCEPT !.weekendDays = {5}, !.limit = 7]),
     LoadConfig(Unset, Section(0, Hours(0, 5), Hours(3, 7), {3})),
     LoadConfig(Family, Missing)}

\* Saturday is day 6 of the week.
Saturday == 6 * DayTicks
MCStarts == {Saturday}

\* Extra time and hours for the day, and hours for its first five minutes.
ExtraMinute == [extra |-> 1, hours |-> Empty, expires |-> Saturday + DayTicks]
Evening == [extra |-> 0, hours |-> Hours(4, 8), expires |-> Saturday + DayTicks]
Morning == [extra |-> 0, hours |-> Hours(2, 6), expires |-> Saturday + 5 * MinuteLength]
MCGrants == {ExtraMinute, Evening, Morning}

MCExpiring == {[Morning EXCEPT !.hours = Hours(2, 4)]}
=============================================================================
