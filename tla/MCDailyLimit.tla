---------------------------- MODULE MCDailyLimit -----------------------------
(***************************************************************************)
(* DailyLimit for TLC: a user with a limit of one minute, of whom an       *)
(* administrator thinks well, and interchangeable session IDs.             *)
(***************************************************************************)
EXTENDS DailyLimit

AllDay == [start |-> 0, end |-> DayLength - 1]

Section(limit) ==
    [limit |-> limit, hours |-> AllDay, weekendHours |-> AllDay,
     weekendDays |-> Missing, notify |-> Missing, lock |-> TRUE, enabled |-> TRUE]

MCConfigs == [u \in UserNames |-> P!LoadConfig(Section(0), Section(1))]

\* Extra time until the first day's second minute, or the second day's end.
MCOverrides ==
    {[extra |-> 1, hours |-> P!Empty, expires |-> t] : t \in {1, 2 * DayLength - 1}}

Symmetry == Permutations(Ids)
=============================================================================
