--------------------------- MODULE SessionRecords ---------------------------
(***************************************************************************)
(* The records of internal/session: what the daemon remembers about a user *)
(* and the operations on it, as values and operators without state.        *)
(*                                                                         *)
(* Times are natural numbers (ticks of the wall clock); Zero stands for    *)
(* time.Time{}, the "not set" that IsZero tests, so real times start at 1. *)
(* A user's []SessionRecord is the set of its records, each carrying the   *)
(* position it was appended at: order is all the code reads of a slice     *)
(* index, and RemoveOldSessions keeps the order of what it leaves.  The    *)
(* reason texts of segments and overrides are left out.                    *)
(***************************************************************************)
EXTENDS Integers, SequencesExt

CONSTANTS
    Ids,         \* logind's session object paths
    DayLength,   \* ticks per calendar day
    Overrides    \* the overrides an administrator may add (kept opaque here)

ASSUME DayLengthAssumption == DayLength \in Nat \ {0}

Zero == 0
Times == Nat \ {Zero}

Segment == [start : Times, stop : Nat]
Session == [pos : Times, id : Ids, start : Times, end : Nat,
            segs : Seq(Segment)]
\* next is the position the next appended session gets.
User == [sessions : SUBSET Session, next : Times, paused : BOOLEAN,
         overrides : Seq(Overrides)]

FreshUser == [sessions |-> {}, next |-> 1, paused |-> FALSE, overrides |-> <<>>]

-----------------------------------------------------------------------------
(* One session: segment.go and session.go                                  *)

SegIsActive(g) == g.stop = Zero
IsActive(s) == s.end = Zero
IsIdle(s) == s.segs # <<>> /\ ~ SegIsActive(Last(s.segs))

\* Mutant: a segment is added whether or not one is open.
AddSegmentAlways(s, t) ==
    [s EXCEPT !.segs = Append(@, [start |-> t, stop |-> Zero])]

\* Refused (unchanged) while the last segment is still open.
AddSegment(s, t) ==
    IF s.segs = <<>> \/ IsIdle(s)
    THEN [s EXCEPT !.segs = Append(@, [start |-> t, stop |-> Zero])]
    ELSE s

\* Mutant: the last segment is stopped again although it is closed.
EndSegmentAgain(s, t) ==
    IF s.segs # <<>> THEN [s EXCEPT !.segs[Len(s.segs)].stop = t] ELSE s

\* Only an open last segment gets a stop time: closed ones are history.
EndSegment(s, t) ==
    IF s.segs # <<>> /\ SegIsActive(Last(s.segs))
    THEN [s EXCEPT !.segs[Len(s.segs)].stop = t]
    ELSE s

\* Mutant: the session ends and its last segment goes on.
EndRunning(s, t) == [s EXCEPT !.end = t]

End(s, t) == [EndSegment(s, t) EXCEPT !.end = t]

\* Mutant: the record is created but not started.
NewSessionUnstarted(pos, id, t) ==
    [pos |-> pos, id |-> id, start |-> Zero, end |-> Zero, segs |-> <<>>]

NewSession(pos, id, t) ==
    AddSegment([pos |-> pos, id |-> id, start |-> t, end |-> Zero, segs |-> <<>>], t)

SegDuration(g, t) == (IF SegIsActive(g) THEN t ELSE g.stop) - g.start

Duration(s, t) ==
    MapThenSumSet(LAMBDA i : SegDuration(s.segs[i], t), DOMAIN s.segs)

-----------------------------------------------------------------------------
(* One user: user.go.  The lookups return the set of records the code may  *)
(* return: empty for "not found", otherwise one record.                    *)

WithId(S, id) == {s \in S : s.id = id}
Active(S) == {s \in S : IsActive(s)}
Newest(S) == {s \in S : \A r \in S : r.pos <= s.pos}
Oldest(S) == {s \in S : \A r \in S : s.pos <= r.pos}

\* Mutant: an idle record does not count as active.
IsSessionBusy(S, id) == \E s \in Active(WithId(S, id)) : ~ IsIdle(s)

IsSessionActive(S, id) == Active(WithId(S, id)) # {}

\* Mutant: the first record of the ID, whatever its state.
GetSessionByIDFirst(S, id) == Oldest(WithId(S, id))

\* logind reuses IDs: the active record of that ID, else the latest one.
GetSessionByID(S, id) ==
    IF IsSessionActive(S, id) THEN Newest(Active(WithId(S, id)))
    ELSE Newest(WithId(S, id))

GetActiveSession(S) == Newest(Active(S))

Replace(S, s, r) == (S \ {s}) \union {r}

AddSession(usr, id, t) ==
    [usr EXCEPT !.sessions = @ \union {NewSession(usr.next, id, t)},
                !.next = @ + 1]

\* Ends the first active record of that ID, if there is one.
EndSession(S, id, t) ==
    LET found == Oldest(Active(WithId(S, id)))
    IN  (S \ found) \union {End(s, t) : s \in found}

EndAllSegments(S, t) ==
    {IF IsActive(s) THEN EndSegment(s, t) ELSE s : s \in S}

\* Mutant: sessions that were idle when the power failed are passed over.
EndActiveRunning(S, t) ==
    {IF IsActive(s) /\ ~ IsIdle(s) THEN End(s, t) ELSE s : s \in S}

EndActive(S, t) == {IF IsActive(s) THEN End(s, t) ELSE s : s \in S}

Day(t) == t \div DayLength

RemoveOldSessions(S, t) == {s \in S : Day(s.start) = Day(t)}

GetTimeUsed(S, t) ==
    MapThenSumSet(LAMBDA s : Duration(s, t), RemoveOldSessions(S, t))

-----------------------------------------------------------------------------
(* What the properties say of records.                                     *)

\* Every time stamp of the record is at most t.
StampedBy(s, t) ==
    /\ s.start <= t /\ s.end <= t
    /\ \A i \in DOMAIN s.segs : s.segs[i].start <= t /\ s.segs[i].stop <= t

\* The segments are a chain of intervals that starts with the session, in
\* which only the last one may be open.
Chained(s) ==
    /\ s.segs # <<>>
    /\ s.segs[1].start = s.start
    /\ IsActive(s) \/ s.start <= s.end
    /\ \A i \in DOMAIN s.segs :
         /\ SegIsActive(s.segs[i]) => i = Len(s.segs)
         /\ SegIsActive(s.segs[i]) \/ s.segs[i].start <= s.segs[i].stop
         /\ i > 1 => s.segs[i - 1].stop <= s.segs[i].start

\* r is the same record as s, later: what was closed has kept its times.
Continues(r, s) ==
    /\ r.pos = s.pos /\ r.id = s.id /\ r.start = s.start
    /\ IsActive(s) \/ r.end = s.end
    /\ Len(s.segs) <= Len(r.segs)
    /\ \A i \in DOMAIN s.segs :
         /\ r.segs[i].start = s.segs[i].start
         /\ SegIsActive(s.segs[i]) \/ r.segs[i].stop = s.segs[i].stop
=============================================================================
