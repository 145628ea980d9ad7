------------------------ MODULE StateManager_proofs -------------------------
(***************************************************************************)
(* Proofs about StateManager, for every number of users and sessions, any  *)
(* day length and any bounds: what it keeps true and that it implements    *)
(* SessionLifecycle, each of its steps being a step of the life of one     *)
(* session, of all of them, or none.                                       *)
(***************************************************************************)
EXTENDS LifecycleRefinement, Sums

-----------------------------------------------------------------------------
(* The operations of internal/session keep records well typed.             *)

\* Appending a segment to a session yields a session.
LEMMA AddSegmentType ==
    ASSUME NEW s \in Session, NEW t \in Times
    PROVE  AddSegment(s, t) \in Session
<1> DEFINE g == [start |-> t, stop |-> Zero]
<1>1. g \in Segment
  BY DEF Segment, Times, Zero
<1>2. Append(s.segs, g) \in Seq(Segment)
  BY <1>1 DEF Session
<1>3. [s EXCEPT !.segs = Append(s.segs, g)] \in Session
  BY <1>2 DEF Session
<1> QED BY <1>3 DEF AddSegment

\* Closing the last segment of a session yields a session.
LEMMA EndSegmentType ==
    ASSUME NEW s \in Session, NEW t \in Times
    PROVE  EndSegment(s, t) \in Session
<1>1. CASE s.segs = <<>>
  BY <1>1 DEF EndSegment
<1>2. CASE s.segs # <<>>
  <2> DEFINE n == Len(s.segs)
  <2>1. /\ s.segs \in Seq(Segment)
        /\ n \in 1 .. Len(s.segs)
        /\ s.segs[n] \in Segment
    BY <1>2 DEF Session
  <2>2. [s.segs[n] EXCEPT !.stop = t] \in Segment
    BY <2>1 DEF Segment, Times, Zero
  <2>3. [s.segs EXCEPT ![n] = [s.segs[n] EXCEPT !.stop = t]] \in Seq(Segment)
    BY <2>1, <2>2
  <2>4. [s EXCEPT !.segs[Len(s.segs)].stop = t] \in Session
    BY <2>1, <2>3 DEF Session
  <2> QED BY <2>4 DEF EndSegment
<1> QED BY <1>1, <1>2

\* Ending a session yields a session.
LEMMA EndType ==
    ASSUME NEW s \in Session, NEW t \in Times
    PROVE  End(s, t) \in Session
BY EndSegmentType DEF End, Session, Times

\* The session a login creates is a session, and it is active.
LEMMA NewSessionType ==
    ASSUME NEW pos \in Times, NEW id \in Ids, NEW t \in Times
    PROVE  NewSession(pos, id, t) \in Session
<1> DEFINE s == [pos |-> pos, id |-> id, start |-> t, end |-> Zero, segs |-> <<>>]
<1>1. s \in Session
  BY DEF Session, Zero
<1> QED BY <1>1, AddSegmentType DEF NewSession

\* What the lookups return is among the records they were given.
LEMMA LookupsReturnRecords ==
    ASSUME NEW S, NEW id
    PROVE  /\ GetSessionByID(S, id) \subseteq WithId(S, id)
           /\ Oldest(Active(WithId(S, id))) \subseteq Active(WithId(S, id))
           /\ WithId(S, id) \subseteq S
BY DEF GetSessionByID, Newest, Oldest, Active, WithId

-----------------------------------------------------------------------------
(* They keep a session's segments a chain, and its times in the past.      *)

\* A chain whose times are at most t.
Good(s, t) == Chained(s) /\ StampedBy(s, t)

\* What was stamped by t is stamped by any later time.
LEMMA StampedLater ==
    ASSUME NEW s \in Session, NEW t \in Nat, NEW t2 \in Nat, t <= t2, StampedBy(s, t)
    PROVE  StampedBy(s, t2)
<1>1. s.segs \in Seq(Segment) /\ s.start \in Nat /\ s.end \in Nat
  BY DEF Session, Times
<1>2. \A i \in DOMAIN s.segs : s.segs[i].start \in Nat /\ s.segs[i].stop \in Nat
  <2>1. \A i \in DOMAIN s.segs : s.segs[i] \in Segment
    BY <1>1
  <2> QED BY <2>1 DEF Segment, Times
<1> QED BY <1>1, <1>2 DEF StampedBy

\* A segment that is appended now starts after everything recorded so far.
LEMMA AddSegmentGood ==
    ASSUME NEW s \in Session, NEW t \in Times, Good(s, t)
    PROVE  Good(AddSegment(s, t), t)
<1> DEFINE g == [start |-> t, stop |-> Zero]
           r == AddSegment(s, t)
<1>1. CASE ~ IsIdle(s)
  BY <1>1 DEF AddSegment, Good, Chained
<1>2. CASE IsIdle(s)
  <2>1. r = [s EXCEPT !.segs = Append(s.segs, g)]
    BY <1>2 DEF AddSegment
  <2>2. /\ r.start = s.start /\ r.end = s.end /\ r.segs = Append(s.segs, g)
        /\ s.segs \in Seq(Segment) /\ s.start \in Nat /\ s.end \in Nat
    BY <2>1 DEF Session, Times
  <2>3. /\ Len(r.segs) = Len(s.segs) + 1
        /\ r.segs[Len(r.segs)] = g
        /\ \A i \in DOMAIN s.segs : r.segs[i] = s.segs[i] /\ s.segs[i] \in Segment
        /\ DOMAIN s.segs = 1 .. Len(s.segs) /\ DOMAIN r.segs = 1 .. Len(r.segs)
        /\ Len(s.segs) \in Nat
    BY <2>2
  <2>4. s.segs # <<>> /\ s.segs[Len(s.segs)].stop # Zero
    BY <1>2 DEF IsIdle, Last, SegIsActive
  <2>5. StampedBy(r, t)
    BY <2>2, <2>3 DEF Good, StampedBy, Times, Zero
  <2>6. Len(s.segs) >= 1
    BY <2>2, <2>4
  <2>7. Chained(r)
    <3>1. r.segs # <<>> /\ r.segs[1].start = r.start /\ (IsActive(r) \/ r.start <= r.end)
      BY <2>2, <2>3, <2>6 DEF Good, Chained, IsActive
    <3>2. ASSUME NEW i \in DOMAIN r.segs
          PROVE  /\ SegIsActive(r.segs[i]) => i = Len(r.segs)
                 /\ SegIsActive(r.segs[i]) \/ r.segs[i].start <= r.segs[i].stop
                 /\ i > 1 => r.segs[i - 1].stop <= r.segs[i].start
      <4>1. CASE i = Len(r.segs)
        BY <4>1, <2>3, <2>6 DEF Good, StampedBy, SegIsActive, Zero
      <4>2. CASE i # Len(r.segs)
        <5>1. i \in DOMAIN s.segs /\ (i > 1 => i - 1 \in DOMAIN s.segs)
          BY <4>2, <2>3
        <5>2. ~ SegIsActive(s.segs[i])
          BY <5>1, <2>4 DEF Good, Chained, SegIsActive
        <5> QED BY <5>1, <5>2, <2>3 DEF Good, Chained
      <4> QED BY <4>1, <4>2
    <3> QED BY <3>1, <3>2 DEF Chained
  <2> QED BY <2>5, <2>7 DEF Good
<1> QED BY <1>1, <1>2

\* Closing the open segment at a time that is not before its records.
LEMMA EndSegmentGood ==
    ASSUME NEW s \in Session, NEW t \in Times, Good(s, t)
    PROVE  /\ Good(EndSegment(s, t), t)
           /\ EndSegment(s, t).start = s.start /\ EndSegment(s, t).end = s.end
           /\ EndSegment(s, t).id = s.id /\ EndSegment(s, t).pos = s.pos
<1> DEFINE n == Len(s.segs)
           r == EndSegment(s, t)
<1>1. CASE ~ SegIsActive(Last(s.segs))
  BY <1>1 DEF EndSegment
<1>2. CASE SegIsActive(Last(s.segs))
  <2>1. /\ s.segs \in Seq(Segment) /\ s.segs # <<>> /\ n \in Nat /\ n >= 1
        /\ DOMAIN s.segs = 1 .. n
    BY DEF Good, Chained, Session
  <2>2. r = [s EXCEPT !.segs[n].stop = t]
    BY <1>2, <2>1 DEF EndSegment
  <2>3. /\ r.start = s.start /\ r.end = s.end /\ r.id = s.id /\ r.pos = s.pos
        /\ r.segs = [s.segs EXCEPT ![n].stop = t]
    BY <2>2 DEF Session
  <2>4. /\ DOMAIN r.segs = 1 .. n /\ Len(r.segs) = n
        /\ \A i \in 1 .. n : s.segs[i] \in Segment
        /\ \A i \in 1 .. n : i # n => r.segs[i] = s.segs[i]
        /\ r.segs[n].stop = t /\ r.segs[n].start = s.segs[n].start
    <3>1. \A i \in 1 .. n : s.segs[i] \in Segment
      BY <2>1
    <3>2. r.segs = [s.segs EXCEPT ![n] = [s.segs[n] EXCEPT !.stop = t]]
      BY <2>3
    <3>3. [s.segs[n] EXCEPT !.stop = t] \in Segment
      <4>1. n \in 1 .. n /\ s.segs[n] \in Segment
        BY <2>1, <3>1
      <4> HIDE DEF n
      <4> QED BY <4>1 DEF Segment, Times, Zero
    <3>4. r.segs \in Seq(Segment) /\ Len(r.segs) = n
      BY <2>1, <3>2, <3>3
    <3>5. [s.segs[n] EXCEPT !.stop = t].stop = t
          /\ [s.segs[n] EXCEPT !.stop = t].start = s.segs[n].start
      BY <2>1, <3>1 DEF Segment
    <3> QED BY <2>1, <3>1, <3>2, <3>4, <3>5
  <2>5. \A i \in 1 .. n : r.segs[i].start = s.segs[i].start
    BY <2>4
  <2>6. StampedBy(r, t)
    BY <2>1, <2>3, <2>4, <2>5 DEF Good, StampedBy, Times, Zero
  <2>7. Chained(r)
    <3>1. r.segs # <<>> /\ r.segs[1].start = r.start /\ (IsActive(r) \/ r.start <= r.end)
      BY <2>1, <2>3, <2>4, <2>5 DEF Good, Chained, IsActive
    <3>2. ASSUME NEW i \in DOMAIN r.segs
          PROVE  /\ SegIsActive(r.segs[i]) => i = Len(r.segs)
                 /\ SegIsActive(r.segs[i]) \/ r.segs[i].start <= r.segs[i].stop
                 /\ i > 1 => r.segs[i - 1].stop <= r.segs[i].start
      <4>1. i \in 1 .. n /\ (i > 1 => i - 1 \in 1 .. n /\ i - 1 # n)
        BY <2>1, <2>4
      <4>2. CASE i = n
        BY <4>1, <4>2, <2>1, <2>4, <2>5 DEF Good, Chained, StampedBy, SegIsActive
      <4>3. CASE i # n
        BY <4>1, <4>3, <2>1, <2>4, <2>5 DEF Good, Chained, SegIsActive
      <4> QED BY <4>2, <4>3
    <3> QED BY <3>1, <3>2 DEF Chained
  <2> QED BY <2>3, <2>6, <2>7 DEF Good
<1> QED BY <1>1, <1>2

\* Ending a session at a time that is not before its records.
LEMMA EndGood ==
    ASSUME NEW s \in Session, NEW t \in Times, Good(s, t)
    PROVE  /\ Good(End(s, t), t) /\ ~ IsActive(End(s, t))
           /\ End(s, t).start = s.start /\ End(s, t).id = s.id
           /\ End(s, t).pos = s.pos /\ End(s, t).segs = EndSegment(s, t).segs
<1> DEFINE e == EndSegment(s, t)
           r == End(s, t)
<1>1. e \in Session
  BY EndSegmentType
<1>2. Good(e, t) /\ e.start = s.start /\ e.id = s.id /\ e.pos = s.pos
  BY EndSegmentGood
<1>3. /\ r.start = e.start /\ r.id = e.id /\ r.pos = e.pos
      /\ r.segs = e.segs /\ r.end = t
  BY <1>1 DEF End, Session
<1> HIDE DEF e, r
<1>4. r.start <= t /\ t # Zero /\ t \in Nat
  BY <1>2, <1>3 DEF Good, StampedBy, Times
<1>5. StampedBy(r, t)
  BY <1>2, <1>3, <1>4 DEF Good, StampedBy
<1>6. Chained(r) /\ ~ IsActive(r)
  BY <1>2, <1>3, <1>4 DEF Good, Chained, IsActive
<1> QED BY <1>2, <1>3, <1>5, <1>6 DEF Good, e, r

\* A login's new session.
LEMMA NewSessionGood ==
    ASSUME NEW pos \in Times, NEW id \in Ids, NEW t \in Times
    PROVE  /\ Good(NewSession(pos, id, t), t)
           /\ NewSession(pos, id, t).id = id
           /\ NewSession(pos, id, t).pos = pos
<1> DEFINE g == [start |-> t, stop |-> Zero]
           s == [pos |-> pos, id |-> id, start |-> t, end |-> Zero, segs |-> <<>>]
           r == NewSession(pos, id, t)
<1>1. /\ r.start = t /\ r.end = Zero /\ r.id = id /\ r.pos = pos
      /\ r.segs = Append(<<>>, g)
  BY DEF NewSession, AddSegment
<1>2. Len(r.segs) = 1 /\ DOMAIN r.segs = {1} /\ r.segs[1] = g
  BY <1>1
<1> HIDE DEF r
<1>3. StampedBy(r, t) /\ Chained(r)
  BY <1>1, <1>2 DEF StampedBy, Chained, IsActive, SegIsActive, Times, Zero
<1> QED BY <1>1, <1>3 DEF Good, r

-----------------------------------------------------------------------------
(* The operations on all the sessions of a user.                           *)

\* Well-typed chains stamped by t, at most one active for each ID.
GoodSet(S, t) ==
    /\ S \subseteq Session
    /\ \A s \in S : Good(s, t)
    /\ \A s, r \in Active(S) : s.id = r.id => s = r

\* A later time is a good bound too.
LEMMA GoodSetLater ==
    ASSUME NEW t \in Nat, NEW t2 \in Nat, t <= t2, NEW S, GoodSet(S, t)
    PROVE  GoodSet(S, t2)
BY StampedLater DEF GoodSet, Good

\* Dropping records keeps a set good.
LEMMA GoodSubset ==
    ASSUME NEW S, NEW t, GoodSet(S, t), NEW R \in SUBSET S
    PROVE  GoodSet(R, t)
BY DEF GoodSet, Active

\* Exchanging a record for one of the same ID and the same end.
LEMMA ReplaceGood ==
    ASSUME NEW S, NEW t, GoodSet(S, t), NEW s \in S,
           NEW r \in Session, Good(r, t), r.id = s.id, r.end = s.end
    PROVE  GoodSet(Replace(S, s, r), t)
BY DEF GoodSet, Active, IsActive, Replace

\* A login adds a session only when none of that ID is active.
LEMMA AddSessionGood ==
    ASSUME NEW usr \in User, NEW id \in Ids, NEW t \in Times,
           GoodSet(usr.sessions, t), ~ IsSessionActive(usr.sessions, id)
    PROVE  /\ AddSession(usr, id, t) \in User
           /\ GoodSet(AddSession(usr, id, t).sessions, t)
<1> DEFINE n == NewSession(usr.next, id, t)
           S == usr.sessions
<1>1. /\ S \in SUBSET Session /\ usr.next \in Times
      /\ usr.next + 1 \in Times
  BY DEF User, Times, Zero
<1>2. n \in Session /\ Good(n, t) /\ n.id = id
  BY <1>1, NewSessionType, NewSessionGood
<1> HIDE DEF n
<1>3. S \union {n} \in SUBSET Session
  BY <1>1, <1>2
<1>4. /\ AddSession(usr, id, t) \in User
      /\ AddSession(usr, id, t).sessions = S \union {n}
  BY <1>1, <1>3 DEF AddSession, User, n
<1>5. \A r \in Active(S) : r.id # id
  BY DEF IsSessionActive, Active, WithId
<1>6. GoodSet(S \union {n}, t)
  BY <1>1, <1>2, <1>5 DEF GoodSet, Active
<1> QED BY <1>4, <1>6

\* Rewriting every record of a set by an operation that keeps IDs and
\* reactivates nothing.
LEMMA RewriteGood ==
    ASSUME NEW S, NEW t, NEW t2, GoodSet(S, t), NEW f \in [S -> Session],
           \A s \in S : Good(f[s], t2) /\ f[s].id = s.id,
           \A s \in S : IsActive(f[s]) => IsActive(s)
    PROVE  GoodSet({f[s] : s \in S}, t2)
<1> DEFINE T == {f[s] : s \in S}
<1>1. T \subseteq Session /\ \A r \in T : Good(r, t2)
  OBVIOUS
<1>2. ASSUME NEW r \in Active(T), NEW q \in Active(T), r.id = q.id
      PROVE  r = q
  <2>1. PICK s \in S : r = f[s]
    BY DEF Active
  <2>2. PICK z \in S : q = f[z]
    BY DEF Active
  <2>3. s \in Active(S) /\ z \in Active(S) /\ s.id = z.id
    BY <1>2, <2>1, <2>2 DEF Active
  <2> QED BY <2>1, <2>2, <2>3 DEF GoodSet
<1> QED BY <1>1, <1>2 DEF GoodSet

\* Sleep closes the open segments of the active sessions.
LEMMA EndAllSegmentsGood ==
    ASSUME NEW t \in Times, NEW S, GoodSet(S, t)
    PROVE  GoodSet(EndAllSegments(S, t), t)
<1> DEFINE f == [s \in S |-> IF IsActive(s) THEN EndSegment(s, t) ELSE s]
<1>1. ASSUME NEW s \in S
      PROVE  /\ f[s] \in Session /\ Good(f[s], t) /\ f[s].id = s.id
             /\ IsActive(f[s]) => IsActive(s)
  BY EndSegmentGood, EndSegmentType DEF GoodSet
<1>2. f \in [S -> Session]
  BY <1>1
<1>3. EndAllSegments(S, t) = {f[s] : s \in S}
  BY DEF EndAllSegments
<1> HIDE DEF f
<1> QED BY <1>1, <1>2, <1>3, RewriteGood

\* Startup after an outage ends what was active.
LEMMA EndActiveGood ==
    ASSUME NEW t \in Times, NEW S, GoodSet(S, t)
    PROVE  GoodSet(EndActive(S, t), t)
<1> DEFINE f == [s \in S |-> IF IsActive(s) THEN End(s, t) ELSE s]
<1>1. ASSUME NEW s \in S
      PROVE  /\ f[s] \in Session /\ Good(f[s], t) /\ f[s].id = s.id
             /\ IsActive(f[s]) => IsActive(s)
  BY EndGood, EndType DEF GoodSet
<1>2. f \in [S -> Session]
  BY <1>1
<1>3. EndActive(S, t) = {f[s] : s \in S}
  BY DEF EndActive
<1> HIDE DEF f
<1> QED BY <1>1, <1>2, <1>3, RewriteGood

\* A logout ends the records it finds.
LEMMA EndSessionGood ==
    ASSUME NEW t \in Times, NEW S, GoodSet(S, t), NEW id
    PROVE  GoodSet(EndSession(S, id, t), t)
<1> DEFINE F == Oldest(Active(WithId(S, id)))
           f == [s \in S |-> IF s \in F THEN End(s, t) ELSE s]
<1>1. F \subseteq S
  BY LookupsReturnRecords DEF Active
<1>2. ASSUME NEW s \in S
      PROVE  /\ f[s] \in Session /\ Good(f[s], t) /\ f[s].id = s.id
             /\ IsActive(f[s]) => IsActive(s)
  BY EndGood, EndType DEF GoodSet
<1>3. f \in [S -> Session]
  BY <1>2
<1> HIDE DEF F
<1>4. EndSession(S, id, t) = {f[s] : s \in S}
  BY <1>1 DEF EndSession, F
<1> HIDE DEF f
<1> QED BY <1>2, <1>3, <1>4, RewriteGood

-----------------------------------------------------------------------------
(* The time a session was used, which only the clock adds to.              *)

SegTimes(s, t) == [i \in DOMAIN s.segs |-> SegDuration(s.segs[i], t)]

\* Duration as a sum of the segments' times.
LEMMA DurationIsSum ==
    ASSUME NEW s \in Session, NEW t \in Nat
    PROVE  /\ Duration(s, t) = SumOf(SegTimes(s, t), DOMAIN s.segs)
           /\ IsFiniteSet(DOMAIN s.segs)
           /\ \A i \in DOMAIN s.segs : SegTimes(s, t)[i] \in Int
<1>1. /\ DOMAIN s.segs = 1 .. Len(s.segs) /\ Len(s.segs) \in Nat
      /\ \A i \in DOMAIN s.segs : s.segs[i] \in Segment
  BY DEF Session
<1>2. IsFiniteSet(DOMAIN s.segs)
  BY <1>1, FS_Interval
<1>3. \A i \in DOMAIN s.segs : SegTimes(s, t)[i] \in Int
  BY <1>1 DEF SegTimes, SegDuration, Segment, Times
<1>4. PICK it : IsFold(it, SegTimes(s, t), DOMAIN s.segs)
  BY <1>2, <1>3, FoldExists
<1> DEFINE D == DOMAIN s.segs
<1>5. it = [r \in SUBSET D |-> IF r = {} THEN 0
                ELSE SegDuration(s.segs[Chosen(r)], t) + it[r \ {Chosen(r)}]]
  <2>1. \A r \in SUBSET D : r # {} =>
            SegTimes(s, t)[Chosen(r)] = SegDuration(s.segs[Chosen(r)], t)
    BY ChosenIn DEF SegTimes
  <2> QED BY <1>4, <2>1 DEF IsFold
<1>6. PICK jt : /\ jt = [r \in SUBSET D |-> IF r = {} THEN 0
                           ELSE SegDuration(s.segs[Chosen(r)], t) + jt[r \ {Chosen(r)}]]
                /\ Duration(s, t) = jt[D]
  BY <1>5, Zenon DEF Chosen, Duration, MapThenSumSet, MapThenFoldSet
<1>7. IsFold(jt, SegTimes(s, t), D)
  <2>1. \A r \in SUBSET D : r # {} =>
            SegTimes(s, t)[Chosen(r)] = SegDuration(s.segs[Chosen(r)], t)
    BY ChosenIn DEF SegTimes
  <2> QED BY <1>6, <2>1 DEF IsFold
<1>8. SumOf(SegTimes(s, t), D) = jt[D]
  <2> HIDE DEF D
  <2> QED BY <1>2, <1>3, <1>7, FoldIsSum DEF D
<1> QED BY <1>2, <1>3, <1>6, <1>8

\* Closing the open segment now does not change the time used until now.
LEMMA EndSegmentTime ==
    ASSUME NEW s \in Session, NEW t \in Times, Good(s, t)
    PROVE  Duration(EndSegment(s, t), t) = Duration(s, t)
<1> DEFINE n == Len(s.segs)
           r == EndSegment(s, t)
<1>1. CASE ~ SegIsActive(Last(s.segs))
  BY <1>1 DEF EndSegment
<1>2. CASE SegIsActive(Last(s.segs))
  <2>1. /\ s.segs \in Seq(Segment) /\ s.segs # <<>> /\ n \in 1 .. n /\ DOMAIN s.segs = 1 .. n
        /\ s.segs[n] \in Segment /\ SegIsActive(s.segs[n])
    BY <1>2 DEF Good, Chained, Session, Last
  <2>2. r = [s EXCEPT !.segs[n].stop = t]
    BY <1>2, <2>1 DEF EndSegment
  <2>3. r.segs = [s.segs EXCEPT ![n] = [s.segs[n] EXCEPT !.stop = t]]
    BY <2>2 DEF Session
  <2>4. DOMAIN r.segs = DOMAIN s.segs /\ \A i \in 1 .. n : i # n => r.segs[i] = s.segs[i]
    BY <2>1, <2>3
  <2>5. r.segs[n].stop = t /\ r.segs[n].start = s.segs[n].start
    BY <2>1, <2>3 DEF Segment
  <2>6. SegDuration(r.segs[n], t) = SegDuration(s.segs[n], t)
    BY <2>1, <2>5 DEF SegDuration, SegIsActive
  <2>7. \A i \in DOMAIN s.segs : SegTimes(r, t)[i] = SegTimes(s, t)[i]
    BY <2>1, <2>4, <2>6 DEF SegTimes
  <2>8. r \in Session /\ t \in Nat
    BY EndSegmentType DEF Times
  <2> HIDE DEF r
  <2>9. /\ Duration(s, t) = SumOf(SegTimes(s, t), DOMAIN s.segs)
        /\ Duration(r, t) = SumOf(SegTimes(r, t), DOMAIN s.segs)
        /\ IsFiniteSet(DOMAIN s.segs)
        /\ \A i \in DOMAIN s.segs : SegTimes(s, t)[i] \in Int
    BY <2>4, <2>8, DurationIsSum
  <2>10. SumOf(SegTimes(r, t), DOMAIN s.segs) = SumOf(SegTimes(s, t), DOMAIN s.segs)
    BY <2>7, <2>9, SumSame
  <2> QED BY <2>9, <2>10 DEF r
<1> QED BY <1>1, <1>2

\* Nor does opening one.
LEMMA AddSegmentTime ==
    ASSUME NEW s \in Session, NEW t \in Times
    PROVE  Duration(AddSegment(s, t), t) = Duration(s, t)
<1> DEFINE g == [start |-> t, stop |-> Zero]
           r == AddSegment(s, t)
           n == Len(s.segs)
<1>1. CASE ~ (s.segs = <<>> \/ IsIdle(s))
  BY <1>1 DEF AddSegment
<1>2. CASE s.segs = <<>> \/ IsIdle(s)
  <2>1. r = [s EXCEPT !.segs = Append(s.segs, g)]
    BY <1>2 DEF AddSegment
  <2>2. r.segs = Append(s.segs, g) /\ s.segs \in Seq(Segment)
    BY <2>1 DEF Session
  <2>3. /\ n \in Nat /\ DOMAIN s.segs = 1 .. n /\ DOMAIN r.segs = 1 .. n + 1
        /\ r.segs[n + 1] = g /\ \A i \in 1 .. n : r.segs[i] = s.segs[i]
    BY <2>2
  <2>4. DOMAIN r.segs = DOMAIN s.segs \union {n + 1} /\ n + 1 \notin DOMAIN s.segs
    BY <2>3
  <2>5. SegTimes(r, t)[n + 1] = 0
    BY <2>3 DEF SegTimes, SegDuration, SegIsActive, Times
  <2>6. \A i \in DOMAIN s.segs : SegTimes(r, t)[i] = SegTimes(s, t)[i]
    BY <2>3 DEF SegTimes
  <2>7. r \in Session /\ t \in Nat
    BY AddSegmentType DEF Times
  <2> HIDE DEF r, n
  <2>8. /\ Duration(s, t) = SumOf(SegTimes(s, t), DOMAIN s.segs)
        /\ Duration(r, t) = SumOf(SegTimes(r, t), DOMAIN r.segs)
        /\ IsFiniteSet(DOMAIN s.segs)
        /\ \A i \in DOMAIN s.segs : SegTimes(s, t)[i] \in Int
    BY <2>7, DurationIsSum
  <2> DEFINE D == DOMAIN s.segs
             f == SegTimes(r, t)
             h == SegTimes(s, t)
  <2>9. SumOf(f, D) = SumOf(h, D) /\ SumOf(h, D) \in Int
    BY <2>6, <2>8, SumSame, SumType
  <2>10. SumOf(f, D \union {n + 1}) = f[n + 1] + SumOf(f, D)
    <3>1. \A i \in D : f[i] \in Int
      BY <2>6, <2>8
    <3>2. f[n + 1] \in Int
      BY <2>5
    <3> HIDE DEF D, f
    <3> QED BY <2>4, <2>8, <3>1, <3>2, SumAdd DEF D
  <2> QED BY <2>4, <2>5, <2>8, <2>9, <2>10 DEF r
<1> QED BY <1>1, <1>2

\* Ending a session, too, only closes its segment.
LEMMA EndTime ==
    ASSUME NEW s \in Session, NEW t \in Times, Good(s, t)
    PROVE  Duration(End(s, t), t) = Duration(s, t)
<1>1. End(s, t).segs = EndSegment(s, t).segs
  BY EndGood
<1>2. Duration(End(s, t), t) = Duration(EndSegment(s, t), t)
  BY <1>1 DEF Duration
<1> QED BY <1>2, EndSegmentTime

\* A session that begins has used no time yet.
LEMMA NewSessionTime ==
    ASSUME NEW pos \in Times, NEW id \in Ids, NEW t \in Times
    PROVE  Duration(NewSession(pos, id, t), t) = 0
<1> DEFINE s == [pos |-> pos, id |-> id, start |-> t, end |-> Zero, segs |-> <<>>]
<1>1. s \in Session /\ t \in Nat
  BY DEF Session, Times, Zero
<1>2. DOMAIN s.segs = {}
  OBVIOUS
<1>3. Duration(s, t) = 0
  <2> HIDE DEF s
  <2> QED BY <1>1, <1>2, DurationIsSum, SumEmpty
<1> QED BY <1>1, <1>3, AddSegmentTime DEF NewSession

\* A tick adds itself to a session whose last segment is open, and to no other.
LEMMA TickTime ==
    ASSUME NEW s \in Session, NEW t \in Nat, Chained(s)
    PROVE  Duration(s, t + 1) = Duration(s, t) + (IF IsIdle(s) THEN 0 ELSE 1)
<1> DEFINE n == Len(s.segs)
           D == DOMAIN s.segs
           A == {i \in D : SegIsActive(s.segs[i])}
           f == SegTimes(s, t)
           h == SegTimes(s, t + 1)
<1>1. /\ D = 1 .. n /\ n \in D /\ \A i \in D : s.segs[i] \in Segment
  BY DEF Session, Chained
<1>2. /\ Duration(s, t) = SumOf(f, D) /\ Duration(s, t + 1) = SumOf(h, D)
      /\ IsFiniteSet(D) /\ \A i \in D : f[i] \in Int
  BY DurationIsSum
<1>3. \A i \in D : h[i] = f[i] + (IF i \in A THEN 1 ELSE 0)
  BY <1>1 DEF SegTimes, SegDuration, Segment, Times
<1>4. SumOf(h, D) = SumOf(f, D) + Cardinality(D \intersect A)
  <2> HIDE DEF D, f, h, A
  <2> QED BY <1>2, <1>3, SumCount
<1>5. D \intersect A = IF IsIdle(s) THEN {} ELSE {n}
  BY <1>1 DEF Chained, IsIdle, Last
<1>6. Cardinality(D \intersect A) = IF IsIdle(s) THEN 0 ELSE 1
  BY <1>5, FS_EmptySet, FS_Singleton
<1> QED BY <1>2, <1>4, <1>6

\* The records that count today, in a set of records.
Used(t) == [s \in Session |-> Duration(s, t)]

LEMMA DurationType ==
    ASSUME NEW s \in Session, NEW t \in Nat
    PROVE  Duration(s, t) \in Int
BY DurationIsSum, SumType

\* The time a user is charged for is a sum over the sessions begun today.
LEMMA UsedIsSum ==
    ASSUME NEW S \in SUBSET Session, IsFiniteSet(S), NEW t \in Nat
    PROVE  /\ GetTimeUsed(S, t) = SumOf(Used(t), RemoveOldSessions(S, t))
           /\ IsFiniteSet(RemoveOldSessions(S, t)) /\ RemoveOldSessions(S, t) \in SUBSET S
           /\ \A s \in S : Used(t)[s] \in Int
<1> DEFINE D == RemoveOldSessions(S, t)
<1>1. D \in SUBSET S /\ IsFiniteSet(D)
  BY FS_Subset DEF RemoveOldSessions
<1>2. \A s \in S : Used(t)[s] = Duration(s, t) /\ Used(t)[s] \in Int
  BY DurationType DEF Used
<1>3. PICK it : IsFold(it, Used(t), D)
  <2>1. \A s \in D : Used(t)[s] \in Int
    BY <1>1, <1>2
  <2> HIDE DEF D
  <2> QED BY <1>1, <2>1, FoldExists
<1>4. \A r \in SUBSET D : r # {} => Used(t)[Chosen(r)] = Duration(Chosen(r), t)
  BY <1>1, <1>2, ChosenIn
<1>5. it = [r \in SUBSET D |-> IF r = {} THEN 0
                ELSE Duration(Chosen(r), t) + it[r \ {Chosen(r)}]]
  <2> HIDE DEF D
  <2> QED BY <1>3, <1>4 DEF IsFold
<1>6. PICK jt : /\ jt = [r \in SUBSET D |-> IF r = {} THEN 0
                           ELSE Duration(Chosen(r), t) + jt[r \ {Chosen(r)}]]
                /\ GetTimeUsed(S, t) = jt[D]
  BY <1>5, Zenon DEF Chosen, GetTimeUsed, MapThenSumSet, MapThenFoldSet
<1>7. IsFold(jt, Used(t), D)
  <2> HIDE DEF D
  <2> QED BY <1>4, <1>6 DEF IsFold
<1>8. SumOf(Used(t), D) = jt[D]
  <2>1. \A s \in D : Used(t)[s] \in Int
    BY <1>1, <1>2
  <2> HIDE DEF D
  <2> QED BY <1>1, <2>1, <1>7, FoldIsSum DEF D
<1> QED BY <1>1, <1>2, <1>6, <1>8

\* Exchanging a record for one that has used as much time.
LEMMA ReplaceUsed ==
    ASSUME NEW S \in SUBSET Session, IsFiniteSet(S), NEW t \in Nat, NEW s \in S,
           NEW r \in Session, r \notin S \ {s}, r.start = s.start,
           Duration(r, t) = Duration(s, t)
    PROVE  /\ GetTimeUsed(Replace(S, s, r), t) = GetTimeUsed(S, t)
           /\ IsFiniteSet(Replace(S, s, r))
<1> DEFINE R == Replace(S, s, r)
           D == RemoveOldSessions(S, t)
           E == RemoveOldSessions(R, t)
           f == Used(t)
<1>1. R = (S \ {s}) \union {r} /\ R \in SUBSET Session
  BY DEF Replace
<1>2. IsFiniteSet(R)
  <2>1. IsFiniteSet(S \ {s})
    BY FS_RemoveElement
  <2>2. IsFiniteSet((S \ {s}) \union {r})
    BY <2>1, FS_AddElement
  <2> QED BY <1>1, <2>2
<1>3. /\ GetTimeUsed(S, t) = SumOf(f, D) /\ IsFiniteSet(D) /\ D \in SUBSET S
      /\ \A q \in D : f[q] \in Int
  BY UsedIsSum
<1>4. GetTimeUsed(R, t) = SumOf(f, E)
  <2> HIDE DEF R
  <2> QED BY <1>1, <1>2, UsedIsSum
<1>5. CASE Day(s.start) # Day(t)
  <2>1. D = E
    BY <1>1, <1>5 DEF RemoveOldSessions
  <2> QED BY <1>2, <1>3, <1>4, <2>1
<1>6. CASE Day(s.start) = Day(t)
  <2> DEFINE C == D \ {s}
  <2>1. s \in D /\ E = C \union {r} /\ r \notin C
    BY <1>1, <1>6 DEF RemoveOldSessions
  <2>2. f[s] = f[r] /\ f[r] \in Int
    BY DurationType DEF Used
  <2>3. IsFiniteSet(C) /\ \A q \in C : f[q] \in Int
    BY <1>3, FS_RemoveElement
  <2>4. SumOf(f, D) = f[s] + SumOf(f, C)
    <3> HIDE DEF D, f
    <3> QED BY <1>3, <2>1, SumRemove
  <2>5. SumOf(f, C \union {r}) = f[r] + SumOf(f, C)
    <3> HIDE DEF C, f
    <3> QED BY <2>1, <2>2, <2>3, SumAdd
  <2> QED BY <1>2, <1>3, <1>4, <2>1, <2>2, <2>4, <2>5
<1> QED BY <1>5, <1>6

\* Adding a record that has used no time.
LEMMA AddUsed ==
    ASSUME NEW S \in SUBSET Session, IsFiniteSet(S), NEW t \in Nat,
           NEW n \in Session, n \notin S, Duration(n, t) = 0
    PROVE  /\ GetTimeUsed(S \union {n}, t) = GetTimeUsed(S, t)
           /\ IsFiniteSet(S \union {n})
<1> DEFINE R == S \union {n}
           D == RemoveOldSessions(S, t)
           E == RemoveOldSessions(R, t)
           f == Used(t)
<1>1. IsFiniteSet(R) /\ R \in SUBSET Session
  BY FS_AddElement
<1>2. /\ GetTimeUsed(S, t) = SumOf(f, D) /\ IsFiniteSet(D) /\ D \in SUBSET S
      /\ \A q \in D : f[q] \in Int
  BY UsedIsSum
<1>3. GetTimeUsed(R, t) = SumOf(f, E)
  <2> HIDE DEF R
  <2> QED BY <1>1, UsedIsSum
<1>4. n \notin D /\ f[n] = 0
  BY <1>2 DEF Used
<1>5. SumOf(f, D \union {n}) = f[n] + SumOf(f, D) /\ SumOf(f, D) \in Int
  <2> HIDE DEF D, f
  <2> QED BY <1>2, <1>4, SumAdd, SumType
<1>6. E = D \/ E = D \union {n}
  BY DEF RemoveOldSessions
<1> QED BY <1>1, <1>2, <1>3, <1>4, <1>5, <1>6

\* Within a day a tick adds one for each session with an open segment.
LEMMA TickUsed ==
    ASSUME NEW S \in SUBSET Session, IsFiniteSet(S), NEW t \in Nat, \A s \in S : Chained(s),
           Day(t + 1) = Day(t)
    PROVE  GetTimeUsed(S, t + 1)
             = GetTimeUsed(S, t) + Cardinality({s \in RemoveOldSessions(S, t) : ~ IsIdle(s)})
<1> DEFINE D == RemoveOldSessions(S, t)
           A == {s \in D : ~ IsIdle(s)}
           f == Used(t)
           h == Used(t + 1)
<1>1. /\ GetTimeUsed(S, t) = SumOf(f, D) /\ IsFiniteSet(D) /\ D \in SUBSET S
      /\ \A s \in D : f[s] \in Int
  BY UsedIsSum
<1>2. RemoveOldSessions(S, t + 1) = D
  BY DEF RemoveOldSessions
<1>3. GetTimeUsed(S, t + 1) = SumOf(h, D)
  BY <1>2, UsedIsSum
<1>4. \A s \in D : h[s] = f[s] + (IF s \in A THEN 1 ELSE 0)
  BY <1>1, TickTime DEF Used
<1>5. SumOf(h, D) = SumOf(f, D) + Cardinality(D \intersect A)
  <2> HIDE DEF D, f, h, A
  <2> QED BY <1>1, <1>4, SumCount
<1>6. D \intersect A = A
  OBVIOUS
<1> QED BY <1>1, <1>3, <1>5, <1>6

\* Days follow one another.
LEMMA DaysGrow ==
    ASSUME NEW t \in Nat, NEW t2 \in Nat, t <= t2
    PROVE  Day(t) \in Nat /\ Day(t) <= Day(t2)
<1>1. DayLength \in Nat \ {0}
  BY DayLengthAssumption
<1>2. ASSUME NEW d \in Nat \ {0}, NEW q \in Int, NEW q2 \in Int, q2 < q,
             NEW r \in 0 .. d - 1, NEW r2 \in 0 .. d - 1, t = q * d + r, t2 = q2 * d + r2
      PROVE  FALSE
  <2>1. q2 + 1 <= q
    BY <1>2
  <2>2. (q2 + 1) * d <= q * d
    BY <2>1, SMTT(60)
  <2>3. (q2 + 1) * d = q2 * d + d
    BY SMTT(60)
  <2> QED BY <1>2, <2>2, <2>3
<1>3. /\ Day(t) \in Nat /\ Day(t2) \in Nat
      /\ t % DayLength \in 0 .. DayLength - 1 /\ t2 % DayLength \in 0 .. DayLength - 1
  BY <1>1, SMTT(60) DEF Day
<1>4. /\ t = Day(t) * DayLength + (t % DayLength)
      /\ t2 = Day(t2) * DayLength + (t2 % DayLength)
  BY <1>1, SMTT(60) DEF Day
<1>5. ~ (Day(t2) < Day(t))
  BY <1>1, <1>2, <1>3, <1>4
<1> QED BY <1>3, <1>5

\* With a new day the sessions of the days before no longer count.
LEMMA NewDayUsed ==
    ASSUME NEW S \in SUBSET Session, NEW t \in Nat, \A s \in S : s.start <= t,
           Day(t + 1) # Day(t)
    PROVE  RemoveOldSessions(S, t + 1) = {} /\ GetTimeUsed(S, t + 1) = 0
<1>1. ASSUME NEW s \in S PROVE Day(s.start) # Day(t + 1)
  <2>1. s.start \in Nat /\ s.start <= t /\ t <= t + 1
    BY DEF Session, Times
  <2>2. Day(s.start) <= Day(t) /\ Day(t) <= Day(t + 1)
        /\ Day(s.start) \in Nat /\ Day(t) \in Nat /\ Day(t + 1) \in Nat
    BY <2>1, DaysGrow
  <2> QED BY <2>2
<1>2. RemoveOldSessions(S, t + 1) = {}
  BY <1>1 DEF RemoveOldSessions
<1>3. GetTimeUsed({}, t + 1) = SumOf(Used(t + 1), RemoveOldSessions({}, t + 1))
  BY UsedIsSum, FS_EmptySet
<1>4. /\ RemoveOldSessions({}, t + 1) = {}
      /\ RemoveOldSessions(RemoveOldSessions(S, t + 1), t + 1) = {}
  BY <1>2 DEF RemoveOldSessions
<1>5. GetTimeUsed(S, t + 1) = GetTimeUsed({}, t + 1)
  BY <1>2, <1>4 DEF GetTimeUsed
<1> QED BY <1>2, <1>3, <1>4, <1>5, SumEmpty

\* Leaving out the sessions of the days before changes nothing.
LEMMA TodaysUsed ==
    ASSUME NEW S, NEW t
    PROVE  /\ RemoveOldSessions(RemoveOldSessions(S, t), t) = RemoveOldSessions(S, t)
           /\ GetTimeUsed(RemoveOldSessions(S, t), t) = GetTimeUsed(S, t)
<1>1. RemoveOldSessions(RemoveOldSessions(S, t), t) = RemoveOldSessions(S, t)
  BY DEF RemoveOldSessions
<1> QED BY <1>1 DEF GetTimeUsed

-----------------------------------------------------------------------------
(* The inductive invariant: what the properties say, of memory with the    *)
(* clock as bound and of the file with its modification time as bound.     *)

GoodUsers(us, t) == \A u \in UserNames : us[u] # Missing => GoodSet(us[u].sessions, t)

Inv ==
    /\ TypeOK
    /\ GoodUsers(users, now)
    /\ disk # Missing => disk.mtime <= now /\ GoodUsers(disk.users, disk.mtime)

\* A user in the map has a record of type User.
LEMMA UserMapElement ==
    ASSUME NEW us \in UserMap, NEW u \in UserNames, us[u] # Missing
    PROVE  /\ us[u] \in User
           /\ us[u].sessions \in SUBSET Session
BY DEF UserMap, User

\* The empty map is a map of good users.
LEMMA NoUsersGood == NoUsers \in UserMap /\ \A t : GoodUsers(NoUsers, t)
BY DEF NoUsers, UserMap, GoodUsers

\* Exchanging one user's sessions for good ones.
LEMMA StoreGood ==
    ASSUME NEW us \in UserMap, NEW t, GoodUsers(us, t), NEW u \in UserNames,
           NEW usr \in User, GoodSet(usr.sessions, t)
    PROVE  /\ [us EXCEPT ![u] = usr] \in UserMap
           /\ GoodUsers([us EXCEPT ![u] = usr], t)
BY DEF UserMap, GoodUsers

\* A file that is a file is not missing, and its parts have their types.
LEMMA FileElement ==
    ASSUME TypeOK, disk # Missing
    PROVE  disk \in File /\ disk.users \in UserMap /\ disk.mtime \in Times
BY DEF TypeOK, File

\* A step that writes a good map to memory, and to the file or not.
LEMMA HandlerInv ==
    ASSUME Inv, Handler, users' \in UserMap, GoodUsers(users', now),
           \/ disk' = [users |-> users', mtime |-> now]
           \/ UNCHANGED disk
    PROVE  Inv'
<1>1. TypeOK'
  BY DEF Inv, TypeOK, Handler, machineVars, File
<1>2. GoodUsers(users', now')
  BY DEF Handler, machineVars
<1>3. disk' # Missing => disk'.mtime <= now' /\ GoodUsers(disk'.users, disk'.mtime)
  BY DEF Inv, TypeOK, Times, Handler, machineVars
<1> QED BY <1>1, <1>2, <1>3 DEF Inv, GoodUsers

\* A handler without effect.
LEMMA NoEffectInv ==
    ASSUME Inv, Handler, NoEffect
    PROVE  Inv'
BY HandlerInv DEF NoEffect, Inv, TypeOK

\* A handler that exchanges one user's record.
LEMMA StoreInv ==
    ASSUME Inv, Handler, NEW u \in UserNames, NEW usr \in User,
           GoodSet(usr.sessions, now), Store(u, usr)
    PROVE  Inv'
<1>1. users' \in UserMap /\ GoodUsers(users', now)
  BY StoreGood DEF Inv, TypeOK, Store
<1> QED BY <1>1, HandlerInv DEF Store, Save

\* A handler that exchanges a known user's sessions.
LEMMA StoreSessionsInv ==
    ASSUME Inv, Handler, NEW u \in UserNames, users[u] # Missing,
           NEW S, GoodSet(S, now), StoreSessions(u, S)
    PROVE  Inv'
<1> DEFINE usr == [users[u] EXCEPT !.sessions = S]
<1>1. users[u] \in User
  BY UserMapElement DEF Inv, TypeOK
<1>2. usr \in User /\ usr.sessions = S
  BY <1>1 DEF User, GoodSet
<1>3. Store(u, usr)
  BY DEF StoreSessions
<1> HIDE DEF usr
<1> QED BY <1>2, <1>3, StoreInv

\* A step that moves the clock forward or restarts the uptime and leaves
\* the daemon's memory as it is, or empties it, keeps the invariant.
LEMMA MachineInv ==
    ASSUME Inv, TypeOK', now <= now', UNCHANGED disk,
           UNCHANGED users \/ users' = NoUsers
    PROVE  Inv'
<1>1. now \in Nat /\ now' \in Nat
  BY DEF TypeOK, Inv, Times
<1>2. GoodUsers(users', now')
  <2>1. CASE UNCHANGED users
    BY <1>1, <2>1, GoodSetLater DEF Inv, GoodUsers
  <2>2. CASE users' = NoUsers
    BY <2>2, NoUsersGood
  <2> QED BY <2>1, <2>2
<1>3. disk' # Missing => disk'.mtime <= now' /\ GoodUsers(disk'.users, disk'.mtime)
  BY <1>1, FileElement DEF Inv, Times
<1> QED BY <1>2, <1>3 DEF Inv, GoodUsers

\* A login adds a record of an ID that has no active one, or a segment to an
\* idle record.
LEMMA LoginInv ==
    ASSUME Inv, NEW u \in UserNames, NEW id \in Ids, HandleLogin(u, id)
    PROVE  Inv'
<1> DEFINE usr == IF users[u] = Missing THEN FreshUser ELSE users[u]
<1>1. usr \in User /\ GoodSet(usr.sessions, now) /\ now \in Times
  <2>1. FreshUser \in User /\ GoodSet(FreshUser.sessions, now)
    BY DEF FreshUser, User, GoodSet, Active, Times, Zero
  <2>2. users \in UserMap /\ GoodUsers(users, now) /\ now \in Times
    BY DEF Inv, TypeOK
  <2> QED BY <2>1, <2>2, UserMapElement DEF GoodUsers
<1>2. Handler
  BY DEF HandleLogin
<1>3. CASE /\ ~ IsSessionActive(usr.sessions, id)
           /\ Store(u, AddSession(usr, id, now))
  BY <1>1, <1>2, <1>3, AddSessionGood, StoreInv
<1>4. CASE \E s \in GetSessionByID(usr.sessions, id) :
             StoreSessions(u, Replace(usr.sessions, s, AddSegment(s, now)))
  <2>1. PICK s \in GetSessionByID(usr.sessions, id) :
             StoreSessions(u, Replace(usr.sessions, s, AddSegment(s, now)))
    BY <1>4
  <2>2. s \in usr.sessions /\ s \in Session /\ Good(s, now)
    BY <1>1, LookupsReturnRecords DEF GoodSet
  <2>3. users[u] # Missing
    BY <2>2 DEF FreshUser
  <2>4. AddSegment(s, now).id = s.id /\ AddSegment(s, now).end = s.end
    BY <2>2 DEF AddSegment, Session
  <2>5. GoodSet(Replace(usr.sessions, s, AddSegment(s, now)), now)
    BY <1>1, <2>2, <2>4, ReplaceGood, AddSegmentGood, AddSegmentType
  <2> HIDE DEF usr
  <2> QED BY <1>2, <2>1, <2>3, <2>5, StoreSessionsInv
<1>5. CASE NoEffect
  BY <1>2, <1>5, NoEffectInv
<1> QED BY <1>3, <1>4, <1>5 DEF HandleLogin

\* The record a lock or an unlock works on is one of the user's.
LEMMA FoundGood ==
    ASSUME Inv, NEW u \in UserNames, NEW id \in Ids, NEW s \in Found(u, id)
    PROVE  /\ users[u] # Missing /\ GoodSet(SessionsOf(u), now) /\ now \in Times
           /\ s \in SessionsOf(u) /\ s \in Session /\ Good(s, now)
<1>1. users[u] # Missing /\ s \in GetSessionByID(SessionsOf(u), id)
  BY DEF Found
<1>2. s \in SessionsOf(u)
  BY <1>1, LookupsReturnRecords
<1> QED BY <1>1, <1>2 DEF Inv, TypeOK, GoodUsers, GoodSet, SessionsOf

\* A lock closes the open segment of the record it finds, if any.
LEMMA LockInv ==
    ASSUME Inv, NEW u \in UserNames, NEW id \in Ids, HandleLock(u, id)
    PROVE  Inv'
<1>1. Handler
  BY DEF HandleLock
<1>2. CASE NoEffect
  BY <1>1, <1>2, NoEffectInv
<1>3. ASSUME NEW s \in Found(u, id),
             StoreSessions(u, Replace(SessionsOf(u), s, EndSegment(s, now)))
      PROVE  Inv'
  BY <1>1, <1>3, FoundGood, EndSegmentGood, EndSegmentType, ReplaceGood, StoreSessionsInv
<1> QED BY <1>2, <1>3 DEF HandleLock

\* An unlock opens a segment in the record it finds, ended or not.
LEMMA UnlockInv ==
    ASSUME Inv, NEW u \in UserNames, NEW id \in Ids, HandleUnlock(u, id)
    PROVE  Inv'
<1>1. Handler
  BY DEF HandleUnlock
<1>2. CASE NoEffect
  BY <1>1, <1>2, NoEffectInv
<1>3. ASSUME NEW s \in Found(u, id),
             StoreSessions(u, Replace(SessionsOf(u), s, AddSegment(s, now)))
      PROVE  Inv'
  <2>1. AddSegment(s, now).id = s.id /\ AddSegment(s, now).end = s.end
    BY FoundGood DEF AddSegment, Session
  <2> QED BY <1>1, <1>3, <2>1, FoundGood, AddSegmentGood, AddSegmentType,
             ReplaceGood, StoreSessionsInv
<1> QED BY <1>2, <1>3 DEF HandleUnlock

\* A logout ends a record of whichever user it picks.
LEMMA LogoutInv ==
    ASSUME Inv, NEW id \in Ids, HandleLogout(id)
    PROVE  Inv'
<1>1. Handler
  BY DEF HandleLogout
<1>2. CASE NoEffect
  BY <1>1, <1>2, NoEffectInv
<1>3. ASSUME NEW u \in GetUserBySession(id),
             StoreSessions(u, EndSession(SessionsOf(u), id, now))
      PROVE  Inv'
  <2>1. u \in UserNames /\ users[u] # Missing
    BY DEF GetUserBySession, ActiveOwners, Owners
  <2>2. GoodSet(SessionsOf(u), now) /\ now \in Times
    BY <2>1 DEF Inv, TypeOK, GoodUsers, SessionsOf
  <2> QED BY <1>1, <1>3, <2>1, <2>2, EndSessionGood, StoreSessionsInv
<1> QED BY <1>2, <1>3 DEF HandleLogout

\* Sleep closes the open segments of every user.
LEMMA SleepInv ==
    ASSUME Inv, HandleSleep
    PROVE  Inv'
<1>1. users \in UserMap /\ GoodUsers(users, now) /\ now \in Times
  BY DEF Inv, TypeOK
<1>2. ASSUME NEW u \in UserNames, users[u] # Missing
      PROVE  /\ GoodSet(EndAllSegments(users[u].sessions, now), now)
             /\ [users[u] EXCEPT !.sessions = EndAllSegments(@, now)] \in User
             /\ [users[u] EXCEPT !.sessions = EndAllSegments(@, now)].sessions
                  = EndAllSegments(users[u].sessions, now)
  <2>1. GoodSet(EndAllSegments(users[u].sessions, now), now)
    BY <1>1, <1>2, EndAllSegmentsGood DEF GoodUsers
  <2>2. users[u] \in User
    BY <1>1, <1>2, UserMapElement
  <2> QED BY <2>1, <2>2 DEF User, GoodSet
<1>3. users' \in UserMap /\ GoodUsers(users', now)
  BY <1>2 DEF HandleSleep, UserMap, GoodUsers
<1> QED BY <1>3, HandlerInv DEF HandleSleep, Save

\* A heartbeat moves the file's time forward only.
LEMMA HeartbeatInv ==
    ASSUME Inv, Heartbeat
    PROVE  Inv'
<1>1. now \in Times /\ now \in Nat
  BY DEF Inv, TypeOK, Times
<1>2. UNCHANGED <<machineVars, running, users>> /\ heartBeat' = now
  BY DEF Heartbeat
<1>3. CASE UNCHANGED disk
  BY <1>1, <1>2, <1>3 DEF Inv, TypeOK, machineVars, GoodUsers
<1>4. CASE disk # Missing /\ disk' = [disk EXCEPT !.mtime = now]
  <2>1. /\ disk \in File /\ disk.mtime \in Nat /\ disk.mtime <= now
        /\ GoodUsers(disk.users, disk.mtime)
    BY <1>4, FileElement DEF Inv, Times
  <2>2. disk' \in File /\ disk'.users = disk.users /\ disk'.mtime = now
    BY <1>1, <1>4, <2>1 DEF File
  <2>3. GoodUsers(disk.users, now)
    BY <1>1, <2>1, GoodSetLater DEF GoodUsers
  <2> QED BY <1>1, <1>2, <2>2, <2>3 DEF Inv, TypeOK, machineVars, GoodUsers
<1> QED BY <1>3, <1>4 DEF Heartbeat

\* What a start reads and checks is as good as what the file held: the
\* time it ends sessions at bounds every time in the file.
LEMMA NewManagerInv ==
    ASSUME Inv, NewManager
    PROVE  Inv'
<1>1. now \in Times /\ now \in Nat
  BY DEF Inv, TypeOK, Times
<1>2. UNCHANGED machineVars /\ running' = TRUE /\ heartBeat' = now /\ powered
  BY DEF NewManager
<1>3. CASE users' = NoUsers /\ disk' = [users |-> NoUsers, mtime |-> now]
  <2>1. disk' \in File /\ disk'.users = NoUsers /\ disk'.mtime = now
    BY <1>1, <1>3, NoUsersGood DEF File
  <2> QED BY <1>1, <1>2, <1>3, <2>1, NoUsersGood DEF Inv, TypeOK, machineVars
<1>4. CASE disk # Missing /\ users' = StartUpChecks(disk.users, disk.mtime) /\ UNCHANGED disk
  <2> DEFINE t == disk.mtime
             us == disk.users
             E(S) == IF SystemWasDown(t) THEN EndActive(S, t) ELSE S
  <2>1. /\ us \in UserMap /\ t \in Times /\ t \in Nat /\ t <= now
        /\ GoodUsers(us, t)
    BY <1>4, FileElement DEF Inv, Times
  <2>2. ASSUME NEW u \in UserNames, us[u] # Missing
        PROVE  /\ GoodSet(RemoveOldSessions(E(us[u].sessions), now), now)
               /\ [us[u] EXCEPT !.sessions = RemoveOldSessions(E(@), now)] \in User
               /\ [us[u] EXCEPT !.sessions = RemoveOldSessions(E(@), now)].sessions
                    = RemoveOldSessions(E(us[u].sessions), now)
    <3>1. us[u] \in User
      BY <2>1, <2>2, UserMapElement
    <3>2. GoodSet(E(us[u].sessions), t)
      BY <2>1, <2>2, EndActiveGood DEF GoodUsers
    <3> HIDE DEF E, t, us
    <3>3. RemoveOldSessions(E(us[u].sessions), now) \in SUBSET E(us[u].sessions)
      BY DEF RemoveOldSessions
    <3>4. GoodSet(RemoveOldSessions(E(us[u].sessions), now), now)
      BY <1>1, <2>1, <3>2, <3>3, GoodSubset, GoodSetLater
    <3> QED BY <3>1, <3>4 DEF User, GoodSet
  <2>3. users' = [u \in UserNames |->
                    IF us[u] = Missing THEN Missing
                    ELSE [us[u] EXCEPT !.sessions = RemoveOldSessions(E(@), now)]]
    BY <1>4 DEF StartUpChecks
  <2> HIDE DEF E, t, us
  <2>4. users' \in UserMap /\ GoodUsers(users', now)
    BY <2>2, <2>3 DEF UserMap, GoodUsers
  <2> QED BY <1>1, <1>2, <1>4, <2>4 DEF Inv, TypeOK, machineVars, GoodUsers
<1> QED BY <1>3, <1>4 DEF NewManager

\* The first state.
LEMMA InitInv ==
    ASSUME Init
    PROVE  Inv
<1>1. TypeOK
  <2>1. NoUsers \in UserMap
    BY NoUsersGood
  <2>2. now \in Times /\ since \in Nat /\ since <= now /\ heartBeat \in Nat
    BY DEF Init, Times, Zero
  <2> QED BY <2>1, <2>2 DEF Init, TypeOK
<1> QED BY <1>1, NoUsersGood DEF Init, Inv

\* The end of the daemon takes memory and leaves the file.
LEMMA DaemonStopInv ==
    ASSUME Inv, DaemonStop
    PROVE  Inv'
<1>1. TypeOK'
  <2>1. NoUsers \in UserMap /\ Zero \in Nat
    BY NoUsersGood DEF Zero
  <2>2. now' \in Times /\ since' \in Nat /\ since' <= now'
        /\ stops' \in Nat /\ outages' \in Nat
    BY DEF DaemonStop, Forget, Inv, TypeOK, Times
  <2> QED BY <2>1, <2>2 DEF DaemonStop, Forget, Inv, TypeOK
<1> QED BY <1>1, MachineInv DEF DaemonStop, Forget, Inv, TypeOK, Times

\* Time passes.
LEMMA TickInv ==
    ASSUME Inv, Tick
    PROVE  Inv'
<1>1. TypeOK' /\ now <= now'
  BY DEF Tick, Inv, TypeOK, Times, Zero
<1> QED BY <1>1, MachineInv DEF Tick

\* Nothing happens.
LEMMA StutterInv ==
    ASSUME Inv, UNCHANGED vars
    PROVE  Inv'
<1>1. TypeOK' /\ now <= now'
  BY DEF vars, machineVars, Inv, TypeOK, Times
<1> QED BY <1>1, MachineInv DEF vars

\* The state machine keeps the inductive invariant.
THEOREM Invariance == Spec => []Inv
<1>1. Init => Inv
  BY InitInv
<1>2. Inv /\ [Next]_vars => Inv'
  <2> SUFFICES ASSUME Inv, [Next]_vars PROVE Inv'
    OBVIOUS
  <2>1. CASE \E u \in UserNames, id \in Ids :
               HandleLogin(u, id) \/ HandleLock(u, id) \/ HandleUnlock(u, id)
    BY <2>1, LoginInv, LockInv, UnlockInv
  <2>2. CASE \E id \in Ids : HandleLogout(id)
    BY <2>2, LogoutInv
  <2>3. CASE HandleSleep
    BY <2>3, SleepInv
  <2>4. CASE Heartbeat
    BY <2>4, HeartbeatInv
  <2>5. CASE NewManager
    BY <2>5, NewManagerInv
  <2>6. CASE DaemonStop
    BY <2>6, DaemonStopInv
  <2>7. CASE PowerOff
    <3>1. TypeOK'
      <4>1. NoUsers \in UserMap /\ Zero \in Nat
        BY NoUsersGood DEF Zero
      <4>2. now' \in Times /\ since' \in Nat /\ since' <= now'
            /\ stops' \in Nat /\ outages' \in Nat
        BY <2>7 DEF PowerOff, Forget, Inv, TypeOK, Times
      <4> QED BY <2>7, <4>1, <4>2 DEF PowerOff, Forget, Inv, TypeOK
    <3> QED BY <2>7, <3>1, MachineInv DEF PowerOff, Forget, Inv, TypeOK, Times
  <2>8. CASE Boot
    <3>1. TypeOK'
      BY <2>8 DEF Boot, Inv, TypeOK, Times
    <3> QED BY <2>8, <3>1, MachineInv DEF Boot, Inv, TypeOK, Times
  <2>9. CASE Tick
    BY <2>9, TickInv
  <2>10. CASE UNCHANGED vars
    BY <2>10, StutterInv
  <2> QED BY <2>1, <2>2, <2>3, <2>4, <2>5, <2>6, <2>7, <2>8, <2>9, <2>10 DEF Next
<1> QED BY <1>1, <1>2, PTL DEF Spec

\* Every reachable state is well typed.
THEOREM TypeCorrect == Spec => []TypeOK
<1>1. Inv => TypeOK
  BY DEF Inv
<1> QED BY <1>1, Invariance, PTL

\* state.json never holds a time later than its modification time, so the
\* heartbeat that startUpChecks ends sessions at is never before they began.
THEOREM MtimeBoundsFile == Spec => []FileTimesBeforeMtime
<1>1. Inv => FileTimesBeforeMtime
  BY DEF Inv, FileTimesBeforeMtime, Records, GoodUsers, GoodSet, Good
<1> QED BY <1>1, Invariance, PTL

\* The intervals recorded for a session never overlap, start with it and are
\* open at most at the end, in memory and in the file.
THEOREM ChainedAlways == Spec => []SegmentsChained
<1>1. Inv => SegmentsChained
  BY DEF Inv, SegmentsChained, Records, GoodUsers, GoodSet, Good
<1> QED BY <1>1, Invariance, PTL

\* The first and the last active record of a session ID are the same one.
THEOREM OneActiveAlways == Spec => []OneActivePerId
<1>1. Inv => OneActivePerId
  BY DEF Inv, OneActivePerId, GoodUsers, GoodSet, SessionsOf
<1> QED BY <1>1, Invariance, PTL

-----------------------------------------------------------------------------
(* While the daemon runs, records only grow.                               *)

\* A record continues itself.
LEMMA ContinuesRefl ==
    ASSUME NEW s \in Session
    PROVE  Continues(s, s)
BY DEF Continues, Session

\* An appended segment leaves the others as they are.
LEMMA AddSegmentContinues ==
    ASSUME NEW s \in Session, NEW t \in Times
    PROVE  Continues(AddSegment(s, t), s)
<1> DEFINE g == [start |-> t, stop |-> Zero]
           r == [s EXCEPT !.segs = Append(s.segs, g)]
<1>1. /\ r.pos = s.pos /\ r.id = s.id /\ r.start = s.start /\ r.end = s.end
      /\ r.segs = Append(s.segs, g) /\ s.segs \in Seq(Segment)
  BY DEF Session
<1>2. /\ Len(s.segs) <= Len(r.segs)
      /\ \A i \in DOMAIN s.segs : r.segs[i] = s.segs[i]
  BY <1>1
<1> HIDE DEF r
<1>3. Continues(r, s)
  BY <1>1, <1>2 DEF Continues
<1> QED BY <1>3, ContinuesRefl DEF AddSegment, r

\* Closing the open segment changes only its stop time.
LEMMA EndSegmentContinues ==
    ASSUME NEW s \in Session, NEW t \in Times
    PROVE  Continues(EndSegment(s, t), s)
<1>1. CASE s.segs # <<>> /\ SegIsActive(Last(s.segs))
  <2> DEFINE n == Len(s.segs)
             g == [s.segs[n] EXCEPT !.stop = t]
             r == [s EXCEPT !.segs[n].stop = t]
  <2>1. /\ s.segs \in Seq(Segment) /\ n \in 1 .. n /\ DOMAIN s.segs = 1 .. n
        /\ s.segs[n] \in Segment
    BY <1>1 DEF Session
  <2>2. /\ r.pos = s.pos /\ r.id = s.id /\ r.start = s.start /\ r.end = s.end
        /\ r.segs = [s.segs EXCEPT ![n] = g]
    BY DEF Session
  <2>3. g \in Segment /\ g.start = s.segs[n].start
    <3> HIDE DEF n
    <3> QED BY <2>1 DEF Segment, Times, Zero
  <2> HIDE DEF g
  <2>4. Len(r.segs) = n /\ r.segs[n] = g /\ \A i \in 1 .. n : i # n => r.segs[i] = s.segs[i]
    BY <2>1, <2>2, <2>3
  <2>5. SegIsActive(s.segs[n])
    BY <1>1 DEF Last
  <2> HIDE DEF r
  <2>6. Continues(r, s)
    BY <2>1, <2>2, <2>3, <2>4, <2>5 DEF Continues
  <2> QED BY <1>1, <2>6 DEF EndSegment, r
<1>2. CASE ~ (s.segs # <<>> /\ SegIsActive(Last(s.segs)))
  BY <1>2, ContinuesRefl DEF EndSegment
<1> QED BY <1>1, <1>2

\* Ending an active session closes what is open and sets the end.
LEMMA EndContinues ==
    ASSUME NEW s \in Session, NEW t \in Times, IsActive(s)
    PROVE  Continues(End(s, t), s)
<1> DEFINE e == EndSegment(s, t)
<1>1. e \in Session /\ Continues(e, s)
  BY EndSegmentType, EndSegmentContinues
<1>2. /\ End(s, t).pos = e.pos /\ End(s, t).id = e.id
      /\ End(s, t).start = e.start /\ End(s, t).segs = e.segs
  BY <1>1 DEF End, Session
<1> HIDE DEF e
<1> QED BY <1>1, <1>2 DEF Continues

\* Every record of S is continued by one of R.
Grown(R, S) == \A s \in S : \E r \in R : Continues(r, s)

\* The history clause of one step, for every user.
AllGrown == \A u \in UserNames : users[u] # Missing =>
               users'[u] # Missing /\ Grown(users'[u].sessions, SessionsOf(u))

\* Users that a step leaves alone keep their records.
LEMMA UnchangedGrown ==
    ASSUME TypeOK, NEW u \in UserNames, users[u] # Missing, users'[u] = users[u]
    PROVE  users'[u] # Missing /\ Grown(users'[u].sessions, SessionsOf(u))
<1>1. SessionsOf(u) \subseteq Session
  BY UserMapElement DEF TypeOK, SessionsOf
<1> QED BY <1>1, ContinuesRefl DEF Grown, SessionsOf

\* A handler that gives one user sessions that continue the old ones.
LEMMA StoreGrown ==
    ASSUME TypeOK, NEW u \in UserNames, NEW usr \in User, Store(u, usr),
           users[u] # Missing => Grown(usr.sessions, SessionsOf(u))
    PROVE  AllGrown
<1>1. usr # Missing
  BY MissingAssumption
<1>2. ASSUME NEW v \in UserNames, users[v] # Missing
      PROVE  users'[v] # Missing /\ Grown(users'[v].sessions, SessionsOf(v))
  <2>1. CASE v = u
    BY <1>1, <1>2, <2>1 DEF Store, TypeOK, UserMap
  <2>2. CASE v # u
    <3>1. users'[v] = users[v]
      BY <2>2 DEF Store, TypeOK, UserMap
    <3> QED BY <1>2, <3>1, UnchangedGrown
  <2> QED BY <2>1, <2>2
<1> QED BY <1>2 DEF AllGrown

\* The same for a known user of whom only the sessions change.
LEMMA StoreSessionsGrown ==
    ASSUME TypeOK, NEW u \in UserNames, users[u] # Missing,
           NEW S \in SUBSET Session, Grown(S, SessionsOf(u)), StoreSessions(u, S)
    PROVE  AllGrown
<1> DEFINE usr == [users[u] EXCEPT !.sessions = S]
<1>1. users[u] \in User
  BY UserMapElement DEF TypeOK
<1>2. usr \in User /\ usr.sessions = S
  BY <1>1 DEF User
<1>3. Store(u, usr)
  BY DEF StoreSessions
<1> HIDE DEF usr
<1> QED BY <1>2, <1>3, StoreGrown

\* Exchanging one record for its continuation.
LEMMA ReplaceGrown ==
    ASSUME NEW S \in SUBSET Session, NEW s \in S, NEW r \in Session, Continues(r, s)
    PROVE  Grown(Replace(S, s, r), S) /\ Replace(S, s, r) \in SUBSET Session
BY ContinuesRefl DEF Grown, Replace

\* No step that begins and ends with the daemon running takes back a record:
\* signals that are late, repeated or about unknown sessions included.
THEOREM HistoryAlwaysKept == Spec => HistoryKept
<1> DEFINE Kept == running /\ running' =>
             \A u \in UserNames : users[u] # Missing =>
                /\ users'[u] # Missing
                /\ \A s \in SessionsOf(u) :
                     \E r \in users'[u].sessions : Continues(r, s)
<1>1. Inv /\ [Next]_vars => Kept
  <2> SUFFICES ASSUME Inv, [Next]_vars, running, running' PROVE AllGrown
    BY DEF AllGrown, Grown
  <2>1. TypeOK /\ users \in UserMap /\ now \in Times
    BY DEF Inv, TypeOK
  <2>2. ASSUME UNCHANGED users PROVE AllGrown
    BY <2>1, <2>2, UnchangedGrown DEF AllGrown
  <2>3. ASSUME NEW u \in UserNames, NEW id \in Ids, HandleLogin(u, id)
        PROVE  AllGrown
    <3> DEFINE usr == IF users[u] = Missing THEN FreshUser ELSE users[u]
    <3>1. usr \in User /\ usr.sessions \in SUBSET Session /\ usr.next \in Times
      <4>1. FreshUser \in User
        BY DEF FreshUser, User, Times, Zero
      <4>2. usr \in User
        BY <2>1, <4>1, UserMapElement
      <4> HIDE DEF usr
      <4> QED BY <4>2 DEF User
    <3>2. CASE Store(u, AddSession(usr, id, now))
      <4>1. /\ AddSession(usr, id, now) \in User
            /\ usr.sessions \subseteq AddSession(usr, id, now).sessions
        <5> HIDE DEF usr
        <5>1. NewSession(usr.next, id, now) \in Session
          BY <2>1, <3>1, NewSessionType
        <5>2. usr.next + 1 \in Times
          BY <3>1 DEF Times, Zero
        <5> QED BY <3>1, <5>1, <5>2 DEF AddSession, User
      <4>2. users[u] # Missing => Grown(AddSession(usr, id, now).sessions, SessionsOf(u))
        BY <3>1, <4>1, ContinuesRefl DEF Grown, SessionsOf
      <4> QED BY <2>1, <3>2, <4>1, <4>2, StoreGrown
    <3>3. ASSUME NEW s \in GetSessionByID(usr.sessions, id),
                 StoreSessions(u, Replace(usr.sessions, s, AddSegment(s, now)))
          PROVE  AllGrown
      <4>1. s \in usr.sessions /\ s \in Session
        BY <3>1, LookupsReturnRecords
      <4>2. users[u] # Missing /\ usr.sessions = SessionsOf(u)
        BY <4>1 DEF FreshUser, SessionsOf
      <4> HIDE DEF usr
      <4> QED BY <2>1, <3>1, <3>3, <4>1, <4>2, AddSegmentType, AddSegmentContinues,
                 ReplaceGrown, StoreSessionsGrown
    <3>4. CASE NoEffect
      BY <2>2, <3>4 DEF NoEffect
    <3> QED BY <2>3, <3>2, <3>3, <3>4 DEF HandleLogin
  <2>4. ASSUME NEW u \in UserNames, NEW id \in Ids,
               HandleLock(u, id) \/ HandleUnlock(u, id)
        PROVE  AllGrown
    <3>1. ASSUME NEW s \in Found(u, id),
                 \/ StoreSessions(u, Replace(SessionsOf(u), s, EndSegment(s, now)))
                 \/ StoreSessions(u, Replace(SessionsOf(u), s, AddSegment(s, now)))
          PROVE  AllGrown
      <4>1. /\ users[u] # Missing /\ SessionsOf(u) \in SUBSET Session
            /\ s \in SessionsOf(u) /\ s \in Session
        BY FoundGood DEF GoodSet
      <4> QED BY <2>1, <3>1, <4>1, AddSegmentType, AddSegmentContinues, EndSegmentType,
                 EndSegmentContinues, ReplaceGrown, StoreSessionsGrown
    <3>2. CASE NoEffect
      BY <2>2, <3>2 DEF NoEffect
    <3> QED BY <2>4, <3>1, <3>2 DEF HandleLock, HandleUnlock
  <2>5. ASSUME NEW id \in Ids, HandleLogout(id) PROVE AllGrown
    <3>1. ASSUME NEW u \in GetUserBySession(id),
                 StoreSessions(u, EndSession(SessionsOf(u), id, now))
          PROVE  AllGrown
      <4> DEFINE S == SessionsOf(u)
                 F == Oldest(Active(WithId(S, id)))
      <4>1. u \in UserNames /\ users[u] # Missing
        BY DEF GetUserBySession, ActiveOwners, Owners
      <4>2. S \in SUBSET Session
        BY <2>1, <4>1, UserMapElement DEF SessionsOf
      <4>3. F \subseteq S /\ \A s \in F : IsActive(s)
        BY LookupsReturnRecords DEF Active
      <4> HIDE DEF F, S
      <4>4. EndSession(S, id, now) = (S \ F) \union {End(s, now) : s \in F}
        BY DEF EndSession, F
      <4>5. EndSession(S, id, now) \in SUBSET Session
        BY <2>1, <4>2, <4>3, <4>4, EndType
      <4>6. Grown(EndSession(S, id, now), S)
        BY <2>1, <4>2, <4>3, <4>4, EndContinues, ContinuesRefl DEF Grown
      <4> QED BY <2>1, <3>1, <4>1, <4>5, <4>6, StoreSessionsGrown DEF S
    <3>2. CASE NoEffect
      BY <2>2, <3>2 DEF NoEffect
    <3> QED BY <2>5, <3>1, <3>2 DEF HandleLogout
  <2>6. CASE HandleSleep
    <3>1. ASSUME NEW u \in UserNames, users[u] # Missing
          PROVE  /\ users'[u] # Missing
                 /\ users'[u].sessions = EndAllSegments(SessionsOf(u), now)
      <4>1. users[u] \in User
        BY <2>1, <3>1, UserMapElement
      <4>2. users'[u] = [users[u] EXCEPT !.sessions = EndAllSegments(@, now)]
        BY <2>6, <3>1 DEF HandleSleep
      <4>3. EndAllSegments(SessionsOf(u), now) \in SUBSET Session
        BY <2>1, <4>1, EndSegmentType DEF EndAllSegments, SessionsOf, User
      <4>4. users'[u] \in User /\ users'[u].sessions = EndAllSegments(SessionsOf(u), now)
        BY <4>1, <4>2, <4>3 DEF User, SessionsOf
      <4> QED BY <4>4, MissingAssumption
    <3>2. ASSUME NEW u \in UserNames, users[u] # Missing
          PROVE  Grown(EndAllSegments(SessionsOf(u), now), SessionsOf(u))
      <4>1. SessionsOf(u) \subseteq Session
        BY <2>1, <3>2, UserMapElement DEF SessionsOf
      <4> QED BY <2>1, <4>1, EndSegmentContinues, ContinuesRefl DEF Grown, EndAllSegments
    <3> QED BY <3>1, <3>2 DEF AllGrown
  <2>7. CASE Heartbeat
    BY <2>2, <2>7 DEF Heartbeat
  <2>8. CASE NewManager \/ DaemonStop \/ PowerOff
    BY <2>8 DEF NewManager, DaemonStop, PowerOff, Forget
  <2>9. CASE Boot \/ Tick \/ UNCHANGED vars
    BY <2>2, <2>9 DEF Boot, Tick, vars
  <2> QED BY <2>3, <2>4, <2>5, <2>6, <2>7, <2>8, <2>9 DEF Next
<1>2. Inv /\ [Next]_vars => [Kept]_vars
  BY <1>1
<1>3. Spec => [][Kept]_vars
  BY <1>2, Invariance, PTL DEF Spec
<1> QED BY <1>3 DEF HistoryKept

-----------------------------------------------------------------------------
(* A power loss ends every session, as long as the daemon is not restarted *)
(* while the machine stays on.                                             *)

\* No active session in us began before b.
Begun(us, b) == \A u \in UserNames : us[u] # Missing =>
                   \A s \in Active(us[u].sessions) : b <= s.start

\* While the daemon is down, whatever touched the file did so before the
\* machine came up: the next start takes the machine to have been down.
BootInv ==
    /\ Inv
    /\ ~ running => users = NoUsers
    /\ ~ running /\ disk # Missing =>
         IF powered THEN disk.mtime < since ELSE disk.mtime <= since
    /\ Begun(users, since)

\* Exchanging one user's record for one whose active sessions began since b.
LEMMA StoreBegun ==
    ASSUME users \in UserMap, NEW b, Begun(users, b), NEW u \in UserNames, NEW usr \in User,
           Store(u, usr), \A s \in Active(usr.sessions) : b <= s.start
    PROVE  Begun(users', b)
<1>1. users' = [users EXCEPT ![u] = usr]
  BY DEF Store
<1>2. users'[u] = usr /\ \A v \in UserNames : v # u => users'[v] = users[v]
  BY <1>1 DEF UserMap
<1> QED BY <1>2 DEF Begun

\* The same for a known user of whom only the sessions change.
LEMMA StoreSessionsBegun ==
    ASSUME users \in UserMap, NEW b, Begun(users, b), NEW u \in UserNames,
           users[u] # Missing, NEW R \in SUBSET Session, StoreSessions(u, R),
           \A s \in Active(R) : b <= s.start
    PROVE  Begun(users', b)
<1> DEFINE usr == [users[u] EXCEPT !.sessions = R]
<1>1. users[u] \in User
  BY UserMapElement
<1>2. usr \in User /\ usr.sessions = R
  BY <1>1 DEF User
<1>3. Store(u, usr)
  BY DEF StoreSessions
<1> HIDE DEF usr
<1> QED BY <1>2, <1>3, StoreBegun

\* Exchanging a record for one of the same start and end.
LEMMA ReplaceBegun ==
    ASSUME Inv, NEW b, Begun(users, b), NEW u \in UserNames, users[u] # Missing,
           NEW s \in SessionsOf(u), NEW r \in Session, r.start = s.start, r.end = s.end,
           StoreSessions(u, Replace(SessionsOf(u), s, r))
    PROVE  Begun(users', b)
<1>1. users \in UserMap /\ SessionsOf(u) \in SUBSET Session
  BY UserMapElement DEF Inv, TypeOK, SessionsOf
<1>2. Replace(SessionsOf(u), s, r) \in SUBSET Session
  BY <1>1 DEF Replace
<1>3. \A q \in Active(Replace(SessionsOf(u), s, r)) : b <= q.start
  BY DEF Active, IsActive, Replace, Begun, SessionsOf
<1> QED BY <1>1, <1>2, <1>3, StoreSessionsBegun

\* A session that becomes active does so now, and none changes its start.
LEMMA HandlersBegun ==
    ASSUME Inv, Begun(users, since),
           \/ \E u \in UserNames, id \in Ids :
                HandleLogin(u, id) \/ HandleLock(u, id) \/ HandleUnlock(u, id)
           \/ \E id \in Ids : HandleLogout(id)
           \/ HandleSleep
    PROVE  Begun(users', since)
<1>1. users \in UserMap /\ GoodUsers(users, now) /\ now \in Times /\ since <= now
  BY DEF Inv, TypeOK
<1>2. ASSUME NEW u \in UserNames, NEW id \in Ids, HandleLogin(u, id)
      PROVE  Begun(users', since)
  <2> DEFINE usr == IF users[u] = Missing THEN FreshUser ELSE users[u]
  <2>1. /\ usr \in User /\ GoodSet(usr.sessions, now)
        /\ \A s \in Active(usr.sessions) : since <= s.start
    <3>1. FreshUser \in User /\ GoodSet(FreshUser.sessions, now) /\ Active(FreshUser.sessions) = {}
      BY DEF FreshUser, User, GoodSet, Active, Times, Zero
    <3> QED BY <1>1, <3>1, UserMapElement DEF GoodUsers, Begun
  <2>2. CASE /\ ~ IsSessionActive(usr.sessions, id)
             /\ Store(u, AddSession(usr, id, now))
    <3> HIDE DEF usr
    <3>1. AddSession(usr, id, now) \in User
      BY <1>1, <2>1, <2>2, AddSessionGood
    <3>2. /\ NewSession(usr.next, id, now).start = now
          /\ AddSession(usr, id, now).sessions
               = usr.sessions \union {NewSession(usr.next, id, now)}
      BY <2>1 DEF NewSession, AddSegment, AddSession, User
    <3>3. \A s \in Active(AddSession(usr, id, now).sessions) : since <= s.start
      BY <1>1, <2>1, <3>2 DEF Active
    <3> QED BY <1>1, <2>2, <3>1, <3>3, StoreBegun
  <2>3. ASSUME NEW s \in GetSessionByID(usr.sessions, id),
               StoreSessions(u, Replace(usr.sessions, s, AddSegment(s, now)))
        PROVE  Begun(users', since)
    <3>1. s \in usr.sessions /\ s \in Session
      BY <2>1, LookupsReturnRecords DEF GoodSet
    <3>2. users[u] # Missing /\ usr.sessions = SessionsOf(u)
      BY <3>1 DEF FreshUser, SessionsOf
    <3> HIDE DEF usr
    <3>3. AddSegment(s, now).start = s.start /\ AddSegment(s, now).end = s.end
      BY <3>1 DEF AddSegment, Session
    <3> QED BY <1>1, <2>3, <3>1, <3>2, <3>3, AddSegmentType, ReplaceBegun
  <2> QED BY <1>2, <2>2, <2>3 DEF HandleLogin, NoEffect
<1>3. ASSUME NEW u \in UserNames, NEW id \in Ids, HandleLock(u, id) \/ HandleUnlock(u, id)
      PROVE  Begun(users', since)
  <2>1. ASSUME NEW s \in Found(u, id),
               StoreSessions(u, Replace(SessionsOf(u), s, EndSegment(s, now)))
        PROVE  Begun(users', since)
    BY <1>1, <2>1, FoundGood, EndSegmentGood, EndSegmentType, ReplaceBegun
  <2>2. ASSUME NEW s \in Found(u, id),
               StoreSessions(u, Replace(SessionsOf(u), s, AddSegment(s, now)))
        PROVE  Begun(users', since)
    <3>1. AddSegment(s, now).start = s.start /\ AddSegment(s, now).end = s.end
      BY FoundGood DEF AddSegment, Session
    <3> QED BY <1>1, <2>2, <3>1, FoundGood, AddSegmentType, ReplaceBegun
  <2> QED BY <1>3, <2>1, <2>2 DEF HandleLock, HandleUnlock, NoEffect
<1>4. ASSUME NEW id \in Ids, HandleLogout(id) PROVE Begun(users', since)
  <2>1. ASSUME NEW u \in GetUserBySession(id),
               StoreSessions(u, EndSession(SessionsOf(u), id, now))
        PROVE  Begun(users', since)
    <3>1. u \in UserNames /\ users[u] # Missing
      BY DEF GetUserBySession, ActiveOwners, Owners
    <3>2. GoodSet(SessionsOf(u), now)
      BY <1>1, <3>1 DEF GoodUsers, SessionsOf
    <3>3. EndSession(SessionsOf(u), id, now) \in SUBSET Session
      BY <1>1, <3>2, EndSessionGood DEF GoodSet
    <3>4. \A s \in Active(EndSession(SessionsOf(u), id, now)) : s \in Active(SessionsOf(u))
      <4> DEFINE S == SessionsOf(u)
                 F == Oldest(Active(WithId(S, id)))
      <4>1. F \subseteq S
        BY LookupsReturnRecords DEF Active
      <4>2. \A s \in F : ~ IsActive(End(s, now))
        BY <1>1, <3>2, <4>1, EndGood DEF GoodSet
      <4>3. EndSession(S, id, now) = (S \ F) \union {End(s, now) : s \in F}
        BY DEF EndSession
      <4> HIDE DEF F, S
      <4> QED BY <4>1, <4>2, <4>3 DEF Active, S
    <3>5. \A s \in Active(EndSession(SessionsOf(u), id, now)) : since <= s.start
      BY <3>1, <3>4 DEF Begun, SessionsOf
    <3> QED BY <1>1, <2>1, <3>1, <3>3, <3>5, StoreSessionsBegun
  <2> QED BY <1>4, <2>1 DEF HandleLogout, NoEffect
<1>5. ASSUME HandleSleep PROVE Begun(users', since)
  <2> SUFFICES ASSUME NEW u \in UserNames, users'[u] # Missing,
                      NEW r \in Active(users'[u].sessions)
               PROVE  since <= r.start
    BY DEF Begun
  <2>1. users[u] # Missing /\ users'[u] = [users[u] EXCEPT !.sessions = EndAllSegments(@, now)]
    BY <1>5 DEF HandleSleep
  <2>2. users[u] \in User /\ GoodSet(users[u].sessions, now)
    BY <1>1, <2>1, UserMapElement DEF GoodUsers
  <2>3. r \in Active(EndAllSegments(users[u].sessions, now))
    BY <2>1, <2>2 DEF User
  <2>4. PICK s \in users[u].sessions : r = IF IsActive(s) THEN EndSegment(s, now) ELSE s
    BY <2>3 DEF EndAllSegments, Active
  <2>5. IsActive(s) /\ r.start = s.start
    BY <1>1, <2>2, <2>3, <2>4, EndSegmentGood DEF Active, GoodSet
  <2> QED BY <2>1, <2>4, <2>5 DEF Begun, Active
<1> QED BY <1>2, <1>3, <1>4, <1>5

\* A start after the machine was down ends every session of the file.
LEMMA StartBegun ==
    ASSUME BootInv, NewManager
    PROVE  Begun(users', since) /\ \A u \in UserNames : users'[u] # Missing =>
                                     Active(users'[u].sessions) = {}
<1>1. CASE users' = NoUsers
  BY <1>1 DEF Begun, NoUsers
<1>2. CASE disk # Missing /\ users' = StartUpChecks(disk.users, disk.mtime) /\ UNCHANGED disk
  <2> DEFINE us == disk.users
             t == disk.mtime
  <2>1. /\ us \in UserMap /\ t \in Times /\ GoodUsers(us, t) /\ t < since
        /\ now \in Nat /\ since \in Nat
    BY <1>2, FileElement DEF BootInv, Inv, TypeOK, NewManager, Times
  <2>2. SystemWasDown(t)
    BY <2>1 DEF SystemWasDown, Times
  <2>3. users' = [u \in UserNames |->
            IF us[u] = Missing THEN Missing
            ELSE [us[u] EXCEPT !.sessions = RemoveOldSessions(EndActive(@, t), now)]]
    BY <1>2, <2>2 DEF StartUpChecks
  <2> HIDE DEF us, t
  <2>4. ASSUME NEW u \in UserNames, users'[u] # Missing
        PROVE  Active(users'[u].sessions) = {}
    <3>1. us[u] # Missing /\ us[u] \in User /\ GoodSet(us[u].sessions, t)
      BY <2>1, <2>3, <2>4, UserMapElement DEF GoodUsers
    <3>2. users'[u].sessions = RemoveOldSessions(EndActive(us[u].sessions, t), now)
      BY <2>3, <3>1 DEF User
    <3>3. \A s \in EndActive(us[u].sessions, t) : ~ IsActive(s)
      BY <2>1, <3>1, EndGood DEF EndActive, GoodSet
    <3> QED BY <3>2, <3>3 DEF RemoveOldSessions, Active
  <2> QED BY <2>4 DEF Begun
<1> QED BY <1>1, <1>2 DEF NewManager

\* If the daemon ends only with the machine, the file is older than the boot at
\* every start.
LEMMA BootInvariance == ASSUME MaxStops = 0 PROVE Spec => []BootInv
<1>1. Init => BootInv
  BY InitInv DEF Init, BootInv, Begun, NoUsers
<1>2. BootInv /\ Inv' /\ [Next]_vars => BootInv'
  <2> SUFFICES ASSUME BootInv, Inv', [Next]_vars PROVE BootInv'
    OBVIOUS
  <2>1. /\ Inv /\ now \in Nat /\ since \in Nat /\ since <= now
        /\ disk # Missing => disk.mtime \in Nat /\ disk.mtime <= now
    BY FileElement DEF BootInv, Inv, TypeOK, Times
  <2>2. CASE \/ \E u \in UserNames, id \in Ids :
                  HandleLogin(u, id) \/ HandleLock(u, id) \/ HandleUnlock(u, id)
             \/ \E id \in Ids : HandleLogout(id)
             \/ HandleSleep
    <3>1. Begun(users', since)
      BY <2>1, <2>2, HandlersBegun DEF BootInv
    <3>2. running' /\ UNCHANGED since
      BY <2>2 DEF HandleLogin, HandleLock, HandleUnlock, HandleLogout, HandleSleep, Handler,
         machineVars
    <3> QED BY <3>1, <3>2 DEF BootInv, Begun
  <2>3. CASE Heartbeat
    BY <2>3 DEF BootInv, Heartbeat, machineVars, Begun
  <2>4. CASE NewManager
    <3>1. running' /\ UNCHANGED since
      BY <2>4 DEF NewManager, machineVars
    <3>2. Begun(users', since)
      BY <2>4, StartBegun
    <3> QED BY <3>1, <3>2 DEF BootInv, Begun
  <2>5. CASE DaemonStop
    BY <2>5 DEF DaemonStop, BootInv, Inv, TypeOK
  <2>6. CASE PowerOff
    BY <2>1, <2>6 DEF PowerOff, Forget, BootInv, Begun, NoUsers
  <2>7. CASE Boot
    <3>1. ~ running
      BY <2>7 DEF Boot, BootInv, Inv, TypeOK
    <3> QED BY <2>1, <2>7, <3>1 DEF Boot, BootInv, Begun, NoUsers
  <2>8. CASE Tick \/ UNCHANGED vars
    BY <2>8 DEF Tick, vars, machineVars, BootInv, Begun
  <2> QED BY <2>2, <2>3, <2>4, <2>5, <2>6, <2>7, <2>8 DEF Next
<1> QED BY <1>1, <1>2, Invariance, PTL DEF Spec

\* A daemon that ends only with the machine starts after each boot with every
\* session ended, so no session is taken to have gone on over a power loss.
THEOREM NoneOutlivesBoot == ASSUME MaxStops = 0 PROVE Spec => []NoSessionOutlivesBoot
<1>1. BootInv => NoSessionOutlivesBoot
  BY DEF BootInv, Begun, NoSessionOutlivesBoot, Records, Active
<1> QED BY <1>1, BootInvariance, PTL

-----------------------------------------------------------------------------
(* The status of a session among the records of one user.                  *)

StatusOf(S, id) ==
    IF Active(WithId(S, id)) = {} THEN "closed"
    ELSE IF \E s \in Active(WithId(S, id)) : IsIdle(s) THEN "idle" ELSE "running"

SavedUsers == IF disk = Missing THEN NoUsers ELSE disk.users

\* An ID without an active record is closed, one with a single active record
\* has the status of that record.
LEMMA StatusCases ==
    ASSUME NEW S, NEW id
    PROVE  /\ Active(WithId(S, id)) = {} => StatusOf(S, id) = "closed"
           /\ \A s : Active(WithId(S, id)) = {s} =>
                StatusOf(S, id) = IF IsIdle(s) THEN "idle" ELSE "running"
           /\ StatusOf(S, id) \in {"closed", "idle", "running"}
BY DEF StatusOf

\* The status of a session in a map of users.
LEMMA StatusInCases ==
    ASSUME NEW us, NEW u \in UserNames, NEW id \in Ids
    PROVE  /\ Statuses(us)[<<u, id>>] = StatusIn(us, u, id)
           /\ us[u] = Missing => StatusIn(us, u, id) = "closed"
           /\ us[u] # Missing => StatusIn(us, u, id) = StatusOf(us[u].sessions, id)
           /\ StatusIn(us, u, id) \in {"closed", "idle", "running"}
<1>1. Statuses(us)[<<u, id>>] = StatusIn(us, u, id)
  BY DEF Statuses
<1> QED BY <1>1 DEF StatusIn, StatusOf

\* In a good set an ID has no active record or exactly one.
LEMMA OneActive ==
    ASSUME NEW S, NEW t, GoodSet(S, t), NEW s \in S, IsActive(s)
    PROVE  Active(WithId(S, s.id)) = {s}
BY DEF GoodSet, Active, WithId

\* Exchanging a record for one of the same ID and end touches the status of
\* that ID only, and only if the record is active.
LEMMA ReplaceStatus ==
    ASSUME NEW S, NEW t, GoodSet(S, t), NEW s \in S, NEW r, r.id = s.id, r.end = s.end
    PROVE  /\ \A id \in Ids : id # s.id \/ ~ IsActive(s) =>
                StatusOf(Replace(S, s, r), id) = StatusOf(S, id)
           /\ IsActive(s) =>
                StatusOf(Replace(S, s, r), s.id) = IF IsIdle(r) THEN "idle" ELSE "running"
<1> DEFINE R == Replace(S, s, r)
<1>1. ASSUME NEW id \in Ids, id # s.id \/ ~ IsActive(s)
      PROVE  Active(WithId(R, id)) = Active(WithId(S, id))
  BY <1>1 DEF Active, WithId, IsActive, Replace
<1>2. ASSUME IsActive(s) PROVE Active(WithId(R, s.id)) = {r}
  BY <1>2 DEF GoodSet, Active, WithId, IsActive, Replace
<1> HIDE DEF R
<1>3. ASSUME NEW id \in Ids, id # s.id \/ ~ IsActive(s)
      PROVE  StatusOf(R, id) = StatusOf(S, id)
  BY <1>1, <1>3 DEF StatusOf
<1> QED BY <1>2, <1>3, StatusCases DEF R

\* The record GetSessionByID returns is the active one of its ID, if any is.
LEMMA FoundActive ==
    ASSUME NEW S, NEW t, GoodSet(S, t), NEW id \in Ids, NEW s \in GetSessionByID(S, id)
    PROVE  /\ s \in S /\ s.id = id
           /\ IsActive(s) => StatusOf(S, id) = IF IsIdle(s) THEN "idle" ELSE "running"
           /\ IsSessionActive(S, id) => IsActive(s)
<1>1. s \in S /\ s.id = id
  BY LookupsReturnRecords DEF WithId
<1>2. IsSessionActive(S, id) => IsActive(s)
  BY DEF GetSessionByID, Newest, Active
<1> QED BY <1>1, <1>2, OneActive, StatusCases

\* Opening a segment makes a session run, closing its last one makes it idle.
LEMMA SegmentStatus ==
    ASSUME NEW s \in Session, NEW t \in Times, Chained(s)
    PROVE  /\ ~ IsIdle(AddSegment(s, t)) /\ IsIdle(EndSegment(s, t))
           /\ AddSegment(s, t).id = s.id /\ AddSegment(s, t).end = s.end
           /\ EndSegment(s, t).id = s.id /\ EndSegment(s, t).end = s.end
<1> DEFINE n == Len(s.segs)
           g == [start |-> t, stop |-> Zero]
<1>1. s.segs \in Seq(Segment) /\ s.segs # <<>> /\ n \in 1 .. n /\ s.segs[n] \in Segment
  BY DEF Chained, Session
<1>2. ASSUME IsIdle(s)
      PROVE  /\ ~ IsIdle(AddSegment(s, t))
             /\ AddSegment(s, t).id = s.id /\ AddSegment(s, t).end = s.end
  <2>1. /\ AddSegment(s, t).segs = Append(s.segs, g)
        /\ AddSegment(s, t).id = s.id /\ AddSegment(s, t).end = s.end
    BY <1>2 DEF AddSegment, Session
  <2>2. Last(Append(s.segs, g)) = g
    BY <1>1 DEF Last
  <2> QED BY <2>1, <2>2 DEF IsIdle, SegIsActive
<1>3. ASSUME ~ IsIdle(s) PROVE AddSegment(s, t) = s
  BY <1>1, <1>3 DEF AddSegment
<1>4. CASE ~ IsIdle(s)
  <2>1. SegIsActive(Last(s.segs))
    BY <1>1, <1>4 DEF IsIdle
  <2>2. EndSegment(s, t) = [s EXCEPT !.segs[n].stop = t]
    BY <1>1, <2>1 DEF EndSegment
  <2>3. /\ EndSegment(s, t).id = s.id /\ EndSegment(s, t).end = s.end
        /\ EndSegment(s, t).segs = [s.segs EXCEPT ![n] = [s.segs[n] EXCEPT !.stop = t]]
    BY <2>2 DEF Session
  <2>4. /\ [s.segs[n] EXCEPT !.stop = t] \in Segment
        /\ [s.segs[n] EXCEPT !.stop = t].stop = t
    <3>1. n \in 1 .. n /\ s.segs[n] \in Segment
      BY <1>1
    <3> HIDE DEF n
    <3> QED BY <3>1 DEF Segment, Times, Zero
  <2>5. EndSegment(s, t).segs \in Seq(Segment) /\ Len(EndSegment(s, t).segs) = n
    BY <1>1, <2>3, <2>4
  <2>6. EndSegment(s, t).segs # <<>> /\ Last(EndSegment(s, t).segs).stop = t
    BY <1>1, <2>3, <2>4, <2>5 DEF Last
  <2>7. IsIdle(EndSegment(s, t))
    BY <2>6 DEF IsIdle, SegIsActive, Times
  <2> QED BY <1>3, <1>4, <2>3, <2>7
<1>5. CASE IsIdle(s)
  <2>1. EndSegment(s, t) = s
    BY <1>5 DEF EndSegment, IsIdle
  <2> QED BY <1>2, <1>5, <2>1
<1> QED BY <1>4, <1>5

-----------------------------------------------------------------------------
(* What those operations do to the status of each of them.                 *)

\* A login's new session runs; no other status changes.
LEMMA AddSessionStatus ==
    ASSUME NEW usr \in User, NEW id \in Ids, NEW t \in Times,
           ~ IsSessionActive(usr.sessions, id)
    PROVE  \A j \in Ids : StatusOf(AddSession(usr, id, t).sessions, j)
               = IF j = id THEN "running" ELSE StatusOf(usr.sessions, j)
<1> DEFINE n == NewSession(usr.next, id, t)
           S == usr.sessions
           g == [start |-> t, stop |-> Zero]
           R == AddSession(usr, id, t).sessions
<1>1. n.id = id /\ n.end = Zero /\ n.segs = Append(<<>>, g)
  BY DEF NewSession, AddSegment
<1>2. Last(Append(<<>>, g)) = g
  BY DEF Last
<1>3. IsActive(n) /\ ~ IsIdle(n) /\ n.id = id
  BY <1>1, <1>2 DEF IsActive, IsIdle, SegIsActive
<1>4. AddSession(usr, id, t).sessions = S \union {n}
  BY DEF AddSession, User
<1> HIDE DEF n
<1>5. Active(WithId(R, id)) = {n}
  BY <1>3, <1>4 DEF IsSessionActive, Active, WithId
<1>6. \A j \in Ids : j # id => Active(WithId(R, j)) = Active(WithId(S, j))
  BY <1>3, <1>4 DEF Active, WithId
<1> HIDE DEF R, S
<1>7. \A j \in Ids : j # id => StatusOf(R, j) = StatusOf(S, j)
  BY <1>6 DEF StatusOf
<1> QED BY <1>3, <1>5, <1>7, StatusCases DEF R, S

\* A logout closes the session, if it was not closed.
LEMMA EndSessionStatus ==
    ASSUME NEW S, NEW t \in Times, GoodSet(S, t), NEW id \in Ids
    PROVE  \A j \in Ids : StatusOf(EndSession(S, id, t), j)
               = IF j = id THEN "closed" ELSE StatusOf(S, j)
<1> DEFINE F == Oldest(Active(WithId(S, id)))
           R == EndSession(S, id, t)
<1>1. F = Active(WithId(S, id))
  <2>1. CASE Active(WithId(S, id)) = {}
    BY <2>1 DEF Oldest
  <2>2. CASE \E s \in S : IsActive(s) /\ s.id = id
    <3>1. PICK s \in S : IsActive(s) /\ s.id = id
      BY <2>2
    <3>2. Active(WithId(S, id)) = {s} /\ s.pos \in Nat
      BY <3>1, OneActive DEF GoodSet, Session, Times
    <3> QED BY <3>2 DEF Oldest
  <2> QED BY <2>1, <2>2 DEF Active, WithId
<1>2. R = (S \ F) \union {End(s, t) : s \in F}
  BY DEF EndSession
<1>3. \A s \in F : ~ IsActive(End(s, t)) /\ s \in S /\ s.id = id
  BY <1>1, EndGood DEF GoodSet, Active, WithId
<1> HIDE DEF R
<1>4. Active(WithId(R, id)) = {}
  BY <1>1, <1>2, <1>3 DEF Active, WithId
<1> HIDE DEF F
<1>5. \A j \in Ids : j # id => Active(WithId(R, j)) = Active(WithId(S, j))
  BY <1>2, <1>3 DEF Active, WithId
<1>6. \A j \in Ids : j # id => StatusOf(R, j) = StatusOf(S, j)
  BY <1>5 DEF StatusOf
<1> QED BY <1>4, <1>6, StatusCases DEF R

\* Sleep makes every running session idle.
LEMMA EndAllSegmentsStatus ==
    ASSUME NEW S, NEW t \in Times, GoodSet(S, t)
    PROVE  \A j \in Ids : StatusOf(EndAllSegments(S, t), j)
               = IF StatusOf(S, j) = "running" THEN "idle" ELSE StatusOf(S, j)
<1> DEFINE R == EndAllSegments(S, t)
<1>1. \A s \in S : /\ IsIdle(EndSegment(s, t)) /\ EndSegment(s, t).id = s.id
                   /\ IsActive(EndSegment(s, t)) <=> IsActive(s)
  BY SegmentStatus DEF GoodSet, Good, IsActive
<1>2. R = {IF IsActive(s) THEN EndSegment(s, t) ELSE s : s \in S}
  BY DEF EndAllSegments
<1> HIDE DEF R
<1>3. ASSUME NEW j \in Ids
      PROVE  /\ Active(WithId(R, j)) = {} <=> Active(WithId(S, j)) = {}
             /\ \A r \in Active(WithId(R, j)) : IsIdle(r)
  BY <1>1, <1>2 DEF Active, WithId
<1> QED BY <1>3 DEF StatusOf, R

\* A start finds each session as it was in the file, or closes it.
LEMMA StartStatus ==
    ASSUME NEW S, NEW t \in Times, GoodSet(S, t), NEW id \in Ids, NEW d \in Times,
           NEW R, \/ R = RemoveOldSessions(S, d)
                  \/ R = RemoveOldSessions(EndActive(S, t), d)
    PROVE  StatusOf(R, id) \in {"closed", StatusOf(S, id)}
<1>1. CASE R = RemoveOldSessions(S, d)
  <2>1. Active(WithId(R, id)) \subseteq Active(WithId(S, id))
    BY <1>1 DEF RemoveOldSessions, Active, WithId
  <2>2. \A s \in Active(WithId(S, id)) : Active(WithId(S, id)) = {s}
    BY OneActive DEF Active, WithId
  <2>3. Active(WithId(R, id)) \in {{}, Active(WithId(S, id))}
    BY <2>1, <2>2
  <2> QED BY <2>3 DEF StatusOf
<1>2. CASE R = RemoveOldSessions(EndActive(S, t), d)
  <2>1. \A s \in EndActive(S, t) : ~ IsActive(s)
    BY EndGood DEF EndActive, GoodSet
  <2>2. Active(WithId(R, id)) = {}
    BY <1>2, <2>1 DEF RemoveOldSessions, Active, WithId
  <2> QED BY <2>2, StatusCases
<1> QED BY <1>1, <1>2

-----------------------------------------------------------------------------
(* What each handler does to the status of each session in memory.         *)

\* The sessions a handler starts from: none for an unknown user.
RecordsOf(u) == IF users[u] = Missing THEN {} ELSE SessionsOf(u)

\* The status of a session in memory is that among its user's records.
LEMMA StatusInMemory ==
    ASSUME NEW u \in UserNames, NEW id \in Ids
    PROVE  StatusIn(users, u, id) = StatusOf(RecordsOf(u), id)
<1>1. Active(WithId({}, id)) = {}
  BY DEF Active, WithId
<1>2. users[u] = Missing => StatusIn(users, u, id) = "closed"
  BY DEF StatusIn
<1>3. users[u] # Missing => StatusIn(users, u, id) = StatusOf(users[u].sessions, id)
  BY DEF StatusIn, StatusOf
<1> QED BY <1>1, <1>2, <1>3, StatusCases DEF RecordsOf, SessionsOf

\* An ID has a status other than closed exactly when it has an active record.
LEMMA StatusActive ==
    ASSUME NEW u \in UserNames, NEW id \in Ids
    PROVE  StatusIn(users, u, id) # "closed"
             <=> users[u] # Missing /\ IsSessionActive(SessionsOf(u), id)
BY DEF StatusIn, IsSessionActive, SessionsOf

\* A handler that exchanges one user's record.
LEMMA StoreStatus ==
    ASSUME users \in UserMap, NEW u \in UserNames, NEW usr \in User, Store(u, usr)
    PROVE  \A v \in UserNames, j \in Ids : StatusIn(users', v, j) =
               IF v = u THEN StatusOf(usr.sessions, j) ELSE StatusIn(users, v, j)
<1>1. users' = [users EXCEPT ![u] = usr] /\ usr # Missing
  BY MissingAssumption DEF Store
<1>2. users'[u] = usr /\ \A v \in UserNames : v # u => users'[v] = users[v]
  BY <1>1 DEF UserMap
<1>3. \A v \in UserNames, j \in Ids : v # u => StatusIn(users', v, j) = StatusIn(users, v, j)
  BY <1>2 DEF StatusIn
<1>4. \A j \in Ids : StatusIn(users', u, j) = StatusOf(usr.sessions, j)
  BY <1>1, <1>2 DEF StatusIn, StatusOf
<1> QED BY <1>3, <1>4

\* The same for a known user of whom only the sessions change.
LEMMA StoreSessionsStatus ==
    ASSUME users \in UserMap, NEW u \in UserNames, users[u] # Missing,
           NEW R \in SUBSET Session, StoreSessions(u, R)
    PROVE  \A v \in UserNames, j \in Ids : StatusIn(users', v, j) =
               IF v = u THEN StatusOf(R, j) ELSE StatusIn(users, v, j)
<1> DEFINE usr == [users[u] EXCEPT !.sessions = R]
<1>1. users[u] \in User
  BY UserMapElement
<1>2. usr \in User /\ usr.sessions = R
  BY <1>1 DEF User
<1>3. Store(u, usr)
  BY DEF StoreSessions
<1> HIDE DEF usr
<1> QED BY <1>2, <1>3, StoreStatus

\* A handler that exchanges a record for one of the same ID and end.
LEMMA ReplaceEffect ==
    ASSUME Inv, NEW u \in UserNames, users[u] # Missing,
           NEW s \in SessionsOf(u), NEW r \in Session, r.id = s.id, r.end = s.end,
           StoreSessions(u, Replace(SessionsOf(u), s, r))
    PROVE  \A v \in UserNames, j \in Ids : StatusIn(users', v, j) =
               IF v = u /\ j = s.id /\ IsActive(s)
               THEN (IF IsIdle(r) THEN "idle" ELSE "running") ELSE StatusIn(users, v, j)
<1> DEFINE S == SessionsOf(u)
           R == Replace(S, s, r)
<1>1. GoodSet(S, now) /\ S \in SUBSET Session /\ s \in Session /\ users \in UserMap
  BY DEF Inv, TypeOK, GoodUsers, SessionsOf, GoodSet
<1>2. R \in SUBSET Session
  BY <1>1 DEF Replace
<1>3. /\ \A id \in Ids : id # s.id \/ ~ IsActive(s) => StatusOf(R, id) = StatusOf(S, id)
      /\ IsActive(s) => StatusOf(R, s.id) = IF IsIdle(r) THEN "idle" ELSE "running"
  BY <1>1, ReplaceStatus
<1>4. \A j \in Ids : StatusIn(users, u, j) = StatusOf(S, j)
  BY StatusInMemory DEF RecordsOf
<1>5. \A v \in UserNames, j \in Ids : StatusIn(users', v, j) =
          IF v = u THEN StatusOf(R, j) ELSE StatusIn(users, v, j)
  BY <1>1, <1>2, StoreSessionsStatus
<1> HIDE DEF R, S
<1> QED BY <1>3, <1>4, <1>5

\* A login makes its session run.
LEMMA LoginEffect ==
    ASSUME Inv, NEW u \in UserNames, NEW id \in Ids, HandleLogin(u, id)
    PROVE  \A v \in UserNames, j \in Ids : StatusIn(users', v, j) =
               IF v = u /\ j = id THEN "running" ELSE StatusIn(users, v, j)
<1> DEFINE usr == IF users[u] = Missing THEN FreshUser ELSE users[u]
<1>1. usr \in User /\ GoodSet(usr.sessions, now) /\ now \in Times /\ users \in UserMap
  <2>1. FreshUser \in User /\ GoodSet(FreshUser.sessions, now)
    BY DEF FreshUser, User, GoodSet, Active, Times, Zero
  <2>2. users \in UserMap /\ GoodUsers(users, now) /\ now \in Times
    BY DEF Inv, TypeOK
  <2> QED BY <2>1, <2>2, UserMapElement DEF GoodUsers
<1>2. usr.sessions = RecordsOf(u)
  BY DEF RecordsOf, SessionsOf, FreshUser
<1>3. \A j \in Ids : StatusIn(users, u, j) = StatusOf(usr.sessions, j)
  BY <1>2, StatusInMemory
<1>4. CASE /\ ~ IsSessionActive(usr.sessions, id)
           /\ Store(u, AddSession(usr, id, now))
  <2> HIDE DEF usr
  <2>1. AddSession(usr, id, now) \in User
    BY <1>1, <1>4, AddSessionGood
  <2>2. \A j \in Ids : StatusOf(AddSession(usr, id, now).sessions, j)
            = IF j = id THEN "running" ELSE StatusOf(usr.sessions, j)
    BY <1>1, <1>4, AddSessionStatus
  <2>3. \A v \in UserNames, j \in Ids : StatusIn(users', v, j) =
            IF v = u THEN StatusOf(AddSession(usr, id, now).sessions, j)
            ELSE StatusIn(users, v, j)
    BY <1>1, <1>4, <2>1, StoreStatus
  <2> QED BY <1>3, <2>2, <2>3
<1>5. ASSUME IsSessionActive(usr.sessions, id),
             NEW s \in GetSessionByID(usr.sessions, id),
             \/ StoreSessions(u, Replace(usr.sessions, s, AddSegment(s, now)))
             \/ ~ IsIdle(s) /\ NoEffect
      PROVE  \A v \in UserNames, j \in Ids : StatusIn(users', v, j) =
                 IF v = u /\ j = id THEN "running" ELSE StatusIn(users, v, j)
  <2>1. /\ s \in usr.sessions /\ s \in Session /\ Good(s, now)
        /\ s.id = id /\ IsActive(s)
        /\ StatusOf(usr.sessions, id) = IF IsIdle(s) THEN "idle" ELSE "running"
    <3> HIDE DEF usr
    <3> QED BY <1>1, <1>5, FoundActive DEF GoodSet
  <2>2. users[u] # Missing /\ usr.sessions = SessionsOf(u)
    BY <2>1 DEF FreshUser, SessionsOf
  <2> HIDE DEF usr
  <2>3. CASE StoreSessions(u, Replace(usr.sessions, s, AddSegment(s, now)))
    BY <1>1, <2>1, <2>2, <2>3, AddSegmentType, SegmentStatus, ReplaceEffect DEF Good
  <2>4. CASE ~ IsIdle(s) /\ NoEffect
    BY <1>3, <2>1, <2>4 DEF NoEffect
  <2> QED BY <1>5, <2>3, <2>4
<1> QED BY <1>4, <1>5 DEF HandleLogin

\* A lock suspends its session, an unlock resumes it.
LEMMA LockEffect ==
    ASSUME Inv, NEW u \in UserNames, NEW id \in Ids
    PROVE  /\ HandleLock(u, id) =>
                \A v \in UserNames, j \in Ids : StatusIn(users', v, j) =
                    IF v = u /\ j = id /\ StatusIn(users, u, id) # "closed" THEN "idle"
                    ELSE StatusIn(users, v, j)
           /\ HandleUnlock(u, id) =>
                \A v \in UserNames, j \in Ids : StatusIn(users', v, j) =
                    IF v = u /\ j = id /\ StatusIn(users, u, id) # "closed" THEN "running"
                    ELSE StatusIn(users, v, j)
<1>1. StatusIn(users, u, id) # "closed" => Found(u, id) # {}
  <2> SUFFICES ASSUME StatusIn(users, u, id) # "closed" PROVE Found(u, id) # {}
    OBVIOUS
  <2>1. users[u] # Missing /\ IsSessionActive(SessionsOf(u), id)
    BY StatusActive
  <2>2. PICK s \in SessionsOf(u) : s.id = id /\ IsActive(s)
    BY <2>1 DEF IsSessionActive, Active, WithId
  <2>3. GoodSet(SessionsOf(u), now)
    BY <2>1 DEF Inv, GoodUsers, SessionsOf
  <2>4. Active(WithId(SessionsOf(u), id)) = {s} /\ s.pos \in Nat
    BY <2>2, <2>3, OneActive DEF GoodSet, Session, Times
  <2>5. s \in Found(u, id)
    BY <2>1, <2>4 DEF Found, GetSessionByID, Newest
  <2> QED BY <2>5
<1>2. ASSUME NEW s \in Found(u, id)
      PROVE  /\ users[u] # Missing /\ now \in Times /\ s \in SessionsOf(u)
             /\ s \in Session /\ Good(s, now) /\ s.id = id
             /\ IsActive(s) <=> StatusIn(users, u, id) # "closed"
  <2>1. /\ users[u] # Missing /\ now \in Times /\ s \in SessionsOf(u)
        /\ s \in Session /\ Good(s, now) /\ GoodSet(SessionsOf(u), now)
    BY FoundGood
  <2>2. s \in GetSessionByID(SessionsOf(u), id)
    BY DEF Found
  <2>3. s.id = id /\ (IsSessionActive(SessionsOf(u), id) => IsActive(s))
    BY <2>1, <2>2, FoundActive
  <2>4. IsActive(s) => IsSessionActive(SessionsOf(u), id)
    BY <2>1, <2>3 DEF IsSessionActive, Active, WithId
  <2> QED BY <2>1, <2>3, <2>4, StatusActive
<1>3. ASSUME HandleLock(u, id)
      PROVE  \A v \in UserNames, j \in Ids : StatusIn(users', v, j) =
                 IF v = u /\ j = id /\ StatusIn(users, u, id) # "closed" THEN "idle"
                 ELSE StatusIn(users, v, j)
  <2>1. CASE Found(u, id) = {} /\ NoEffect
    BY <1>1, <2>1 DEF NoEffect
  <2>2. ASSUME NEW s \in Found(u, id),
               StoreSessions(u, Replace(SessionsOf(u), s, EndSegment(s, now)))
        PROVE  \A v \in UserNames, j \in Ids : StatusIn(users', v, j) =
                   IF v = u /\ j = id /\ StatusIn(users, u, id) # "closed" THEN "idle"
                   ELSE StatusIn(users, v, j)
    <3>1. /\ EndSegment(s, now) \in Session /\ IsIdle(EndSegment(s, now))
          /\ EndSegment(s, now).id = s.id /\ EndSegment(s, now).end = s.end
      BY <1>2, EndSegmentType, SegmentStatus DEF Good
    <3> QED BY <1>2, <2>2, <3>1, ReplaceEffect
  <2> QED BY <1>3, <2>1, <2>2 DEF HandleLock
<1>4. ASSUME HandleUnlock(u, id)
      PROVE  \A v \in UserNames, j \in Ids : StatusIn(users', v, j) =
                 IF v = u /\ j = id /\ StatusIn(users, u, id) # "closed" THEN "running"
                 ELSE StatusIn(users, v, j)
  <2>1. CASE Found(u, id) = {} /\ NoEffect
    BY <1>1, <2>1 DEF NoEffect
  <2>2. ASSUME NEW s \in Found(u, id),
               StoreSessions(u, Replace(SessionsOf(u), s, AddSegment(s, now)))
        PROVE  \A v \in UserNames, j \in Ids : StatusIn(users', v, j) =
                   IF v = u /\ j = id /\ StatusIn(users, u, id) # "closed" THEN "running"
                   ELSE StatusIn(users, v, j)
    <3>1. /\ AddSegment(s, now) \in Session /\ ~ IsIdle(AddSegment(s, now))
          /\ AddSegment(s, now).id = s.id /\ AddSegment(s, now).end = s.end
      BY <1>2, AddSegmentType, SegmentStatus DEF Good
    <3> QED BY <1>2, <2>2, <3>1, ReplaceEffect
  <2> QED BY <1>4, <2>1, <2>2 DEF HandleUnlock
<1> QED BY <1>3, <1>4

\* A logout closes its session for one owner, one with an active record if
\* there is any.
LEMMA LogoutEffect ==
    ASSUME Inv, NEW id \in Ids, HandleLogout(id)
    PROVE  \/ /\ UNCHANGED users
              /\ \A v \in UserNames : StatusIn(users, v, id) = "closed"
           \/ \E u \in UserNames :
                /\ \A v \in UserNames, j \in Ids : StatusIn(users', v, j) =
                     IF v = u /\ j = id THEN "closed" ELSE StatusIn(users, v, j)
                /\ (\E v \in UserNames : StatusIn(users, v, id) # "closed") =>
                     StatusIn(users, u, id) # "closed"
<1>1. \A v \in UserNames : StatusIn(users, v, id) # "closed" <=> v \in ActiveOwners(id)
  BY StatusActive DEF ActiveOwners, Owners, IsSessionActive, Active
<1>2. CASE Owners(id) = {} /\ NoEffect
  BY <1>1, <1>2 DEF ActiveOwners, NoEffect
<1>3. ASSUME NEW u \in GetUserBySession(id),
             StoreSessions(u, EndSession(SessionsOf(u), id, now))
      PROVE  /\ u \in UserNames
             /\ \A v \in UserNames, j \in Ids : StatusIn(users', v, j) =
                  IF v = u /\ j = id THEN "closed" ELSE StatusIn(users, v, j)
             /\ (\E v \in UserNames : StatusIn(users, v, id) # "closed") =>
                  StatusIn(users, u, id) # "closed"
  <2>1. u \in UserNames /\ users[u] # Missing
    BY DEF GetUserBySession, ActiveOwners, Owners
  <2>2. GoodSet(SessionsOf(u), now) /\ now \in Times /\ users \in UserMap
    BY <2>1 DEF Inv, TypeOK, GoodUsers, SessionsOf
  <2>3. EndSession(SessionsOf(u), id, now) \in SUBSET Session
    BY <2>2, EndSessionGood DEF GoodSet
  <2>4. \A j \in Ids : StatusOf(EndSession(SessionsOf(u), id, now), j)
            = IF j = id THEN "closed" ELSE StatusOf(SessionsOf(u), j)
    BY <2>2, EndSessionStatus
  <2>5. \A j \in Ids : StatusIn(users, u, j) = StatusOf(SessionsOf(u), j)
    BY <2>1, StatusInMemory DEF RecordsOf
  <2>6. \A v \in UserNames, j \in Ids : StatusIn(users', v, j) =
            IF v = u THEN StatusOf(EndSession(SessionsOf(u), id, now), j)
            ELSE StatusIn(users, v, j)
    BY <1>3, <2>1, <2>2, <2>3, StoreSessionsStatus
  <2>7. (\E v \in UserNames : StatusIn(users, v, id) # "closed") =>
            StatusIn(users, u, id) # "closed"
    BY <1>1, <2>1 DEF GetUserBySession
  <2> QED BY <2>1, <2>4, <2>5, <2>6, <2>7
<1> QED BY <1>2, <1>3 DEF HandleLogout

\* Sleep suspends every session that runs.
LEMMA SleepEffect ==
    ASSUME Inv, HandleSleep
    PROVE  \A v \in UserNames, j \in Ids : StatusIn(users', v, j) =
               IF StatusIn(users, v, j) = "running" THEN "idle" ELSE StatusIn(users, v, j)
<1>1. users \in UserMap /\ now \in Times /\ GoodUsers(users, now)
  BY DEF Inv, TypeOK
<1> TAKE u \in UserNames, id \in Ids
<1>2. CASE users[u] = Missing
  BY <1>2 DEF HandleSleep, StatusIn
<1>3. CASE users[u] # Missing
  <2> DEFINE S == EndAllSegments(users[u].sessions, now)
  <2>1. GoodSet(S, now) /\ users[u] \in User
    BY <1>1, <1>3, EndAllSegmentsGood, UserMapElement DEF GoodUsers
  <2>2. users'[u] = [users[u] EXCEPT !.sessions = S]
    BY <1>3 DEF HandleSleep
  <2>3. users'[u] \in User /\ users'[u].sessions = S
    BY <2>1, <2>2 DEF User, GoodSet
  <2>4. users'[u] # Missing
    BY <2>3, MissingAssumption
  <2>5. StatusIn(users', u, id) = StatusOf(S, id)
    BY <2>3, <2>4 DEF StatusIn, StatusOf
  <2>6. StatusIn(users, u, id) = StatusOf(users[u].sessions, id)
    BY <1>3 DEF StatusIn, StatusOf
  <2> QED BY <1>1, <1>3, <2>5, <2>6, EndAllSegmentsStatus DEF GoodUsers
<1> QED BY <1>2, <1>3

\* A handler saves what it has done to memory, or has done nothing.
LEMMA HandlersSave ==
    ASSUME \/ \E u \in UserNames, id \in Ids :
                HandleLogin(u, id) \/ HandleLock(u, id) \/ HandleUnlock(u, id)
           \/ \E id \in Ids : HandleLogout(id)
           \/ HandleSleep
    PROVE  running /\ UNCHANGED running /\ (Save(users') \/ NoEffect)
BY DEF HandleLogin, HandleLock, HandleUnlock, HandleLogout, HandleSleep, Handler,
   StoreSessions, Store

-----------------------------------------------------------------------------
(* Steps of the manager as steps of the lives of sessions.                 *)

SessionKeys == UserNames \X Ids
LiveStatuses == Statuses(users)
SavedStatuses == Statuses(SavedUsers)

\* A daemon that does not run remembers no one.
LifeInv == Inv /\ (~ running => users = NoUsers)

\* The statuses before and after a step, key by key.
LEMMA StatusesPrimed ==
    /\ LiveStatuses' = [k \in SessionKeys |-> StatusIn(users', k[1], k[2])]
    /\ LiveStatuses = [k \in SessionKeys |-> StatusIn(users, k[1], k[2])]
    /\ SavedStatuses' = [k \in SessionKeys |-> StatusIn(SavedUsers', k[1], k[2])]
    /\ UNCHANGED SavedUsers => UNCHANGED SavedStatuses
BY DEF LiveStatuses, SavedStatuses, Statuses, SessionKeys, StatusIn, Active, WithId,
       IsActive, IsIdle, SegIsActive

\* A save that succeeds writes the statuses of memory, one that fails none.
LEMMA SavePersists ==
    ASSUME users' \in UserMap, now \in Times, Save(users')
    PROVE  SavedStatuses' = LiveStatuses' \/ UNCHANGED SavedStatuses
<1>1. CASE UNCHANGED disk
  BY <1>1, StatusesPrimed DEF SavedUsers
<1>2. CASE disk' = [users |-> users', mtime |-> now]
  <2>1. [users |-> users', mtime |-> now] \in File
    BY DEF File
  <2>2. disk' # Missing
    BY <1>2, <2>1, MissingFileAssumption
  <2>3. SavedUsers' = users'
    BY <1>2, <2>2 DEF SavedUsers
  <2> QED BY <2>3, StatusesPrimed
<1> QED BY <1>1, <1>2 DEF Save

\* A step of the running daemon that changes the status of one session moves
\* it along closed, idle and running, or saves what is in memory, or nothing.
LEMMA OneMoves ==
    ASSUME running, UNCHANGED running, NEW u \in UserNames, NEW id \in Ids,
           \A v \in UserNames, j \in Ids : <<v, j>> # <<u, id>> =>
               StatusIn(users', v, j) = StatusIn(users, v, j),
           SavedStatuses' = LiveStatuses' \/ UNCHANGED SavedStatuses,
           \/ StatusIn(users', u, id) = StatusIn(users, u, id)
           \/ StatusIn(users', u, id) = "running"
           \/ StatusIn(users', u, id) = "closed"
           \/ StatusIn(users', u, id) = "idle" /\ StatusIn(users, u, id) = "running"
    PROVE  [Lifecycle!Next]_<<running, LiveStatuses, SavedStatuses>>
<1> DEFINE k == <<u, id>>
           to == StatusIn(users', u, id)
<1>1. k \in SessionKeys /\ LiveStatuses[k] = StatusIn(users, u, id)
  BY StatusesPrimed DEF SessionKeys
<1>2. LiveStatuses' = [LiveStatuses EXCEPT ![k] = to]
  <2>1. ASSUME NEW q \in SessionKeys, q # k
        PROVE  StatusIn(users', q[1], q[2]) = StatusIn(users, q[1], q[2])
    BY <2>1 DEF SessionKeys
  <2>2. /\ LiveStatuses' = [q \in SessionKeys |-> StatusIn(users', q[1], q[2])]
        /\ LiveStatuses = [q \in SessionKeys |-> StatusIn(users, q[1], q[2])]
        /\ StatusIn(users', k[1], k[2]) = to
    BY StatusesPrimed
  <2> HIDE DEF k, to
  <2> QED BY <1>1, <2>1, <2>2
<1>3. to \in {"closed", "idle", "running"} /\ LiveStatuses[k] \in {"closed", "idle", "running"}
  BY <1>1, StatusInCases
<1> HIDE DEF to, k
<1>4. CASE LiveStatuses[k] = to
  <2>1. UNCHANGED LiveStatuses
    BY <1>2, <1>4, StatusesPrimed
  <2>2. CASE SavedStatuses' = LiveStatuses'
    BY <2>1, <2>2 DEF Lifecycle!Next, Lifecycle!Resave, LiveStatuses,
       SavedStatuses, SavedUsers
  <2> QED BY <2>1, <2>2
<1>5. CASE LiveStatuses[k] # to /\ to = "running"
  <2>1. Lifecycle!Start(k)
    BY <1>2, <1>3, <1>5 DEF Lifecycle!Start, Lifecycle!Move, Lifecycle!Persist,
       LiveStatuses, SavedStatuses, SavedUsers
  <2> QED BY <1>1, <2>1 DEF Lifecycle!Next, SessionKeys
<1>6. CASE LiveStatuses[k] # to /\ to = "closed"
  <2>1. Lifecycle!Close(k)
    BY <1>2, <1>3, <1>6 DEF Lifecycle!Close, Lifecycle!Move, Lifecycle!Persist,
       LiveStatuses, SavedStatuses, SavedUsers
  <2> QED BY <1>1, <2>1 DEF Lifecycle!Next, SessionKeys
<1>7. CASE to = "idle" /\ LiveStatuses[k] = "running"
  <2>1. Lifecycle!Suspend(k)
    BY <1>2, <1>7 DEF Lifecycle!Suspend, Lifecycle!Move, Lifecycle!Persist,
       LiveStatuses, SavedStatuses, SavedUsers
  <2> QED BY <1>1, <2>1 DEF Lifecycle!Next, SessionKeys
<1> QED BY <1>1, <1>4, <1>5, <1>6, <1>7 DEF to

LifeStep == [Lifecycle!Next]_<<running, LiveStatuses, SavedStatuses>>

\* A step that leaves the daemon, its users and the users in the file alone.
LEMMA Unmoved ==
    ASSUME UNCHANGED <<running, users, SavedUsers>>
    PROVE  LifeStep
BY StatusesPrimed DEF LifeStep

-----------------------------------------------------------------------------
(* One lemma per action.                                                   *)

\* A handler that changes the status of one session as the lives allow.
LEMMA HandlerMoves ==
    ASSUME Inv, Inv', running, UNCHANGED running, Save(users') \/ NoEffect,
           NEW u \in UserNames, NEW id \in Ids, NEW to,
           \A v \in UserNames, j \in Ids : StatusIn(users', v, j) =
               IF v = u /\ j = id THEN to ELSE StatusIn(users, v, j),
           \/ to \in {"running", "closed", StatusIn(users, u, id)}
           \/ to = "idle" /\ StatusIn(users, u, id) = "running"
    PROVE  LifeStep
<1>1. SavedStatuses' = LiveStatuses' \/ UNCHANGED SavedStatuses
  <2>1. CASE Save(users')
    BY <2>1, SavePersists DEF Inv, TypeOK
  <2>2. CASE NoEffect
    BY <2>2, StatusesPrimed DEF NoEffect, SavedUsers
  <2> QED BY <2>1, <2>2
<1>2. StatusIn(users', u, id) = to
  OBVIOUS
<1>3. \A v \in UserNames, j \in Ids : <<v, j>> # <<u, id>> =>
          StatusIn(users', v, j) = StatusIn(users, v, j)
  OBVIOUS
<1> QED BY <1>1, <1>2, <1>3, OneMoves DEF LifeStep

\* A login starts a session that is closed or idle.
LEMMA LoginMoves ==
    ASSUME Inv, NEW u \in UserNames, NEW id \in Ids, HandleLogin(u, id)
    PROVE  LifeStep
BY LoginInv, HandlersSave, LoginEffect, HandlerMoves

\* A lock suspends a running session; an unlock resumes an idle one.
LEMMA LockMoves ==
    ASSUME Inv, NEW u \in UserNames, NEW id \in Ids, HandleLock(u, id) \/ HandleUnlock(u, id)
    PROVE  LifeStep
<1> DEFINE was == StatusIn(users, u, id)
<1>1. was \in {"closed", "idle", "running"}
  BY StatusInCases
<1>2. running /\ UNCHANGED running /\ (Save(users') \/ NoEffect)
  BY HandlersSave
<1>3. CASE HandleLock(u, id)
  <2> DEFINE to == IF was = "closed" THEN "closed" ELSE "idle"
  <2>1. \A v \in UserNames, j \in Ids : StatusIn(users', v, j) =
            IF v = u /\ j = id THEN to ELSE StatusIn(users, v, j)
    BY <1>3, LockEffect
  <2> QED BY <1>1, <1>2, <1>3, <2>1, LockInv, HandlerMoves
<1>4. CASE HandleUnlock(u, id)
  <2> DEFINE to == IF was = "closed" THEN "closed" ELSE "running"
  <2>1. \A v \in UserNames, j \in Ids : StatusIn(users', v, j) =
            IF v = u /\ j = id THEN to ELSE StatusIn(users, v, j)
    BY <1>4, LockEffect
  <2> QED BY <1>1, <1>2, <1>4, <2>1, UnlockInv, HandlerMoves
<1> QED BY <1>3, <1>4

\* A logout closes the session of the owner it picks.
LEMMA LogoutMoves ==
    ASSUME Inv, NEW id \in Ids, HandleLogout(id)
    PROVE  LifeStep
<1>1. Inv' /\ running /\ UNCHANGED running /\ (Save(users') \/ NoEffect)
  BY LogoutInv, HandlersSave
<1>2. ASSUME NEW u \in UserNames,
             \A v \in UserNames, j \in Ids : StatusIn(users', v, j) =
                 IF v = u /\ j = id THEN "closed" ELSE StatusIn(users, v, j)
      PROVE  LifeStep
  BY <1>1, <1>2, HandlerMoves
<1>3. CASE UNCHANGED users /\ \A v \in UserNames : StatusIn(users, v, id) = "closed"
  <2>1. UNCHANGED LiveStatuses /\ (SavedStatuses' = LiveStatuses' \/ UNCHANGED SavedStatuses)
    BY <1>1, <1>3, StatusesPrimed, SavePersists DEF NoEffect, SavedUsers, Inv, TypeOK
  <2>2. CASE SavedStatuses' = LiveStatuses'
    BY <1>1, <2>1, <2>2 DEF LifeStep, Lifecycle!Next, Lifecycle!Resave, LiveStatuses,
       SavedStatuses, SavedUsers
  <2> QED BY <1>1, <2>1, <2>2 DEF LifeStep
<1> QED BY <1>2, <1>3, LogoutEffect

\* Sleep suspends every session that runs.
LEMMA SleepMoves ==
    ASSUME Inv, HandleSleep
    PROVE  LifeStep
<1> DEFINE suspended(v) == IF v = "running" THEN "idle" ELSE v
<1>1. \A u \in UserNames, id \in Ids :
          StatusIn(users', u, id) = suspended(StatusIn(users, u, id))
  BY SleepEffect
<1>2. LiveStatuses' = [k \in SessionKeys |-> suspended(LiveStatuses[k])]
  BY <1>1, StatusesPrimed DEF SessionKeys
<1>3. users' \in UserMap /\ now \in Times
  BY SleepInv DEF Inv, TypeOK
<1>4. SavedStatuses' = LiveStatuses' \/ UNCHANGED SavedStatuses
  BY <1>3, SavePersists DEF HandleSleep
<1>5. Lifecycle!SuspendAll
  BY <1>2, <1>4 DEF Lifecycle!SuspendAll, Lifecycle!Persist, HandleSleep, Handler,
     LiveStatuses, SavedStatuses, SavedUsers, SessionKeys
<1> QED BY <1>5 DEF LifeStep, Lifecycle!Next

\* A start takes each session as it was saved, or closes it.
LEMMA NewManagerMoves ==
    ASSUME LifeInv, NewManager
    PROVE  LifeStep
<1>1. now \in Times /\ ~ running /\ running' = TRUE
  BY DEF LifeInv, Inv, TypeOK, NewManager
<1>2. \A u \in UserNames, id \in Ids : StatusIn(NoUsers, u, id) = "closed"
  BY DEF StatusIn, NoUsers
<1>3. ASSUME UNCHANGED SavedStatuses,
             \A u \in UserNames, id \in Ids :
                 StatusIn(users', u, id) \in {"closed", StatusIn(SavedUsers, u, id)}
      PROVE  LifeStep
  <2>1. /\ LiveStatuses' = [k \in SessionKeys |-> StatusIn(users', k[1], k[2])]
        /\ SavedStatuses = [k \in SessionKeys |-> StatusIn(SavedUsers, k[1], k[2])]
    BY DEF LiveStatuses, SavedStatuses, Statuses, SessionKeys, StatusIn, Active, WithId,
       IsActive, IsIdle, SegIsActive
  <2>2. \A k \in SessionKeys : LiveStatuses'[k] \in {SavedStatuses[k], "closed"}
    BY <1>3, <2>1 DEF SessionKeys
  <2>3. \A k \in SessionKeys : StatusIn(users', k[1], k[2]) \in {"closed", "idle", "running"}
    BY DEF StatusIn
  <2>4. LiveStatuses' \in [SessionKeys -> {"closed", "idle", "running"}]
    BY <2>1, <2>3
  <2>5. Lifecycle!Restart
    BY <1>1, <1>3, <2>2, <2>4 DEF Lifecycle!Restart, Lifecycle!Status,
       LiveStatuses, SavedStatuses, SavedUsers, SessionKeys
  <2> QED BY <2>5 DEF LifeStep, Lifecycle!Next
<1>4. CASE disk = Missing /\ users' = NoUsers /\ disk' = [users |-> NoUsers, mtime |-> now]
  <2>1. disk' \in File
    BY <1>1, <1>4, NoUsersGood DEF File
  <2>2. SavedUsers' = NoUsers /\ SavedUsers = NoUsers
    BY <1>4, <2>1, MissingFileAssumption DEF SavedUsers
  <2> QED BY <1>2, <1>3, <1>4, <2>2, StatusesPrimed
<1>5. CASE disk # Missing /\ users' = StartUpChecks(disk.users, disk.mtime) /\ UNCHANGED disk
  <2> DEFINE us == disk.users
             t == disk.mtime
             E(S) == IF SystemWasDown(t) THEN EndActive(S, t) ELSE S
  <2>1. us \in UserMap /\ t \in Times /\ GoodUsers(us, t)
    BY <1>5, FileElement DEF LifeInv, Inv
  <2>2. SavedUsers = us /\ UNCHANGED SavedUsers
    BY <1>5 DEF SavedUsers
  <2>3. ASSUME NEW u \in UserNames, NEW id \in Ids
        PROVE  StatusIn(users', u, id) \in {"closed", StatusIn(us, u, id)}
    <3>1. CASE us[u] = Missing
      BY <1>5, <3>1 DEF StartUpChecks, StatusIn
    <3>2. CASE us[u] # Missing
      <4> DEFINE R == RemoveOldSessions(E(us[u].sessions), now)
      <4>1. us[u] \in User /\ GoodSet(us[u].sessions, t)
        BY <2>1, <3>2, UserMapElement DEF GoodUsers
      <4>2. users'[u] = [us[u] EXCEPT !.sessions = R]
        BY <1>5, <3>2 DEF StartUpChecks
      <4>3. \/ R = RemoveOldSessions(us[u].sessions, now)
            \/ R = RemoveOldSessions(EndActive(us[u].sessions, t), now)
        OBVIOUS
      <4>4. StatusOf(R, id) \in {"closed", StatusOf(us[u].sessions, id)}
        <5> HIDE DEF R
        <5> QED BY <1>1, <2>1, <4>1, <4>3, StartStatus
      <4>5. R \in SUBSET Session
        BY <2>1, <4>1, EndActiveGood DEF RemoveOldSessions, GoodSet
      <4> HIDE DEF R
      <4>6. users'[u] \in User /\ users'[u].sessions = R
        BY <4>1, <4>2, <4>5 DEF User
      <4>7. users'[u] # Missing
        BY <4>6, MissingAssumption
      <4>8. StatusIn(users', u, id) = StatusOf(R, id)
        BY <4>6, <4>7 DEF StatusIn, StatusOf
      <4>9. StatusIn(us, u, id) = StatusOf(us[u].sessions, id)
        BY <3>2 DEF StatusIn, StatusOf
      <4> QED BY <4>4, <4>8, <4>9
    <3> QED BY <3>1, <3>2
  <2> HIDE DEF us
  <2>4. UNCHANGED SavedStatuses
    BY <2>2, StatusesPrimed
  <2> QED BY <1>3, <2>2, <2>3, <2>4
<1> QED BY <1>4, <1>5 DEF NewManager

\* The daemon's end, with or without the machine's, forgets every session.
LEMMA ForgetMoves ==
    ASSUME LifeInv, DaemonStop \/ PowerOff
    PROVE  LifeStep
<1>1. running' = FALSE /\ users' = NoUsers /\ UNCHANGED disk
  BY DEF DaemonStop, PowerOff, Forget
<1>2. LiveStatuses' = [k \in SessionKeys |-> "closed"]
  <2>1. \A k \in SessionKeys : StatusIn(NoUsers, k[1], k[2]) = "closed"
    BY DEF StatusIn, NoUsers, SessionKeys
  <2> QED BY <1>1, <2>1, StatusesPrimed
<1>3. UNCHANGED SavedStatuses
  BY <1>1, StatusesPrimed DEF SavedUsers
<1>4. CASE running
  <2>1. Lifecycle!Down
    BY <1>1, <1>2, <1>3, <1>4 DEF Lifecycle!Down, Lifecycle!AllClosed,
       LiveStatuses, SavedStatuses, SavedUsers, SessionKeys
  <2> QED BY <2>1 DEF LifeStep, Lifecycle!Next
<1>5. CASE ~ running
  BY <1>1, <1>5, Unmoved DEF LifeInv, Inv, TypeOK, SavedUsers
<1> QED BY <1>4, <1>5

\* A heartbeat changes no user in the file.
LEMMA HeartbeatMoves ==
    ASSUME Inv, Heartbeat
    PROVE  LifeStep
<1>1. UNCHANGED <<running, users>>
  BY DEF Heartbeat
<1>2. CASE UNCHANGED disk
  BY <1>1, <1>2, Unmoved DEF SavedUsers
<1>3. CASE disk # Missing /\ disk' = [disk EXCEPT !.mtime = now]
  <2>1. disk \in File /\ now \in Times
    BY <1>3 DEF Inv, TypeOK
  <2>2. disk' \in File /\ disk'.users = disk.users
    BY <1>3, <2>1 DEF File
  <2>3. UNCHANGED SavedUsers
    BY <1>3, <2>2, MissingFileAssumption DEF SavedUsers
  <2> QED BY <1>1, <2>3, Unmoved
<1> QED BY <1>2, <1>3 DEF Heartbeat

-----------------------------------------------------------------------------
(* The refinement.                                                         *)

\* The first state is the first state of the abstract specification.
LEMMA InitMaps ==
    ASSUME Init
    PROVE  Lifecycle!Init
<1>1. users = NoUsers /\ SavedUsers = NoUsers /\ running = FALSE
  BY DEF Init, SavedUsers
<1>2. \A k \in SessionKeys : StatusIn(NoUsers, k[1], k[2]) = "closed"
  BY DEF StatusIn, NoUsers, SessionKeys
<1> QED BY <1>1, <1>2 DEF Lifecycle!Init, Lifecycle!AllClosed, Statuses, SavedUsers, SessionKeys

\* Every step of the manager is a step of the abstract specification, or none.
LEMMA StepMaps ==
    ASSUME LifeInv, [Next]_vars
    PROVE  LifeStep
<1>1. Inv
  BY DEF LifeInv
<1>2. CASE \E u \in UserNames, id \in Ids :
             HandleLogin(u, id) \/ HandleLock(u, id) \/ HandleUnlock(u, id)
  BY <1>1, <1>2, LoginMoves, LockMoves
<1>3. CASE \E id \in Ids : HandleLogout(id)
  BY <1>1, <1>3, LogoutMoves
<1>4. CASE HandleSleep
  BY <1>1, <1>4, SleepMoves
<1>5. CASE Heartbeat
  BY <1>1, <1>5, HeartbeatMoves
<1>6. CASE NewManager
  BY <1>6, NewManagerMoves
<1>7. CASE DaemonStop \/ PowerOff
  BY <1>7, ForgetMoves
<1>8. CASE Boot \/ Tick \/ UNCHANGED vars
  BY <1>8, Unmoved DEF Boot, Tick, vars, machineVars, SavedUsers
<1> QED BY <1>2, <1>3, <1>4, <1>5, <1>6, <1>7, <1>8 DEF Next

\* A daemon that does not run has no users in memory: only its handlers and
\* its start write them, and every way it ends empties them.
LEMMA LifeInvariance == Spec => []LifeInv
<1>1. Init => (~ running => users = NoUsers)
  BY DEF Init
<1>2. (~ running => users = NoUsers) /\ [Next]_vars => (~ running => users = NoUsers)'
  BY DEF Next, vars, machineVars, HandleLogin, HandleLock, HandleUnlock, HandleLogout,
     HandleSleep, Handler, Heartbeat, NewManager, DaemonStop, PowerOff, Forget, Boot, Tick,
     NoUsers
<1> QED BY <1>1, <1>2, Invariance, PTL DEF Spec, LifeInv

\* Signals, saves that fail, restarts and outages included, the manager never
\* does anything to a session but what SessionLifecycle allows.
THEOREM Refinement == Spec => ImplementsLifecycle
<1>1. Init => Lifecycle!Init
  BY InitMaps
<1>2. LifeInv /\ [Next]_vars => [Lifecycle!Next]_<<running, LiveStatuses, SavedStatuses>>
  BY StepMaps DEF LifeStep
<1> QED BY <1>1, <1>2, LifeInvariance, PTL
        DEF Spec, ImplementsLifecycle, Lifecycle!Spec, LiveStatuses, SavedStatuses, SavedUsers
=============================================================================
