-------------------------- MODULE IpcCalls_proofs --------------------------
(***************************************************************************)
(* Proofs about IpcCalls, for any number of calls and session IDs.         *)
(*                                                                         *)
(* The heap comes first: an array holds either session records or          *)
(* overrides, never both, and what an append, a removal or a change of     *)
(* records does to one array leaves every other slice readable (Keeps) and *)
(* the arrays of the other kind alone (Touches).  On this rest the shape   *)
(* of memory, and with it the four invariants of the run.                  *)
(***************************************************************************)
EXTENDS IpcCalls, TLAPS

\* Arrays allocated for elements of V: the slots not yet used hold nothing.
ArraysOf(V) == {s \in Seq(V \union {Missing}) : s # <<>> /\ s[1] \in V}

Heaps == Seq(ArraysOf(Record) \union ArraysOf(Callers))

\* The slice h is readable as a slice of elements of V.
SliceOf(V, hp, h) ==
    /\ h \in Slice
    /\ \/ h = Nil
       \/ /\ h.addr \in DOMAIN hp /\ hp[h.addr] \in ArraysOf(V)
          /\ h.len \in 0 .. Len(hp[h.addr])
          /\ \A i \in 1 .. h.len : hp[h.addr][i] \in V

\* What can be read from the heap hp can be read from hp2.
Keeps(hp, hp2) ==
    \A h \in Slice : /\ SliceOf(Record, hp, h) => SliceOf(Record, hp2, h)
                     /\ SliceOf(Callers, hp, h) => SliceOf(Callers, hp2, h)

\* The array a is the same, or one for elements of V before and after.
Touched(V, hp, hp2, a) ==
    \/ a \in DOMAIN hp /\ hp2[a] = hp[a]
    \/ hp2[a] \in ArraysOf(V) /\ (a \in DOMAIN hp => hp[a] \in ArraysOf(V))
Touches(V, hp, hp2) ==
    /\ DOMAIN hp \subseteq DOMAIN hp2
    /\ \A a \in DOMAIN hp2 : Touched(V, hp, hp2, a)

Kinds == {Record, Callers}

-----------------------------------------------------------------------------
(* The heap.                                                               *)

LEMMA KindsApart ==
    ASSUME NEW V \in Kinds, NEW W \in Kinds, NEW s \in ArraysOf(V), s \in ArraysOf(W)
    PROVE  V = W
BY NamesAssumption DEF Kinds, ArraysOf

LEMMA NoneOfAKind == ASSUME NEW V \in Kinds PROVE Missing \notin V
BY NamesAssumption DEF Kinds, Threads

LEMMA HeapArray ==
    ASSUME NEW hp \in Heaps, NEW a \in DOMAIN hp
    PROVE  /\ a \in Nat /\ a # 0 /\ a <= Len(hp)
           /\ hp[a] \in ArraysOf(Record) \union ArraysOf(Callers)
           /\ Len(hp[a]) \in Nat /\ DOMAIN hp[a] = 1 .. Len(hp[a])
BY DEF Heaps, ArraysOf

\* Replacing an array by one of the same kind and length, where no element is
\* lost, keeps every slice readable.
LEMMA ReplaceArray ==
    ASSUME NEW V \in Kinds, NEW hp \in Heaps, NEW a \in DOMAIN hp, hp[a] \in ArraysOf(V),
           NEW s \in ArraysOf(V), Len(s) = Len(hp[a]),
           \A i \in 1 .. Len(s) : hp[a][i] \in V => s[i] \in V
    PROVE  LET hp2 == [hp EXCEPT ![a] = s]
           IN  hp2 \in Heaps /\ Keeps(hp, hp2) /\ Touches(V, hp, hp2)
<1> DEFINE hp2 == [hp EXCEPT ![a] = s]
<1>1. hp2 \in Heaps
  BY DEF Heaps, Kinds
<1>2. DOMAIN hp2 = DOMAIN hp /\ hp2[a] = s /\ \A b \in DOMAIN hp : b # a => hp2[b] = hp[b]
  BY DEF Heaps
<1> HIDE DEF hp2
<1>3. ASSUME NEW W \in Kinds, NEW h \in Slice, SliceOf(W, hp, h)
      PROVE  SliceOf(W, hp2, h)
  <2>1. CASE h = Nil
    BY <2>1 DEF SliceOf
  <2>2. CASE h # Nil /\ h.addr # a
    BY <1>2, <1>3, <2>2 DEF SliceOf
  <2>3. CASE h # Nil /\ h.addr = a
    <3>1. hp[a] \in ArraysOf(W) /\ h.len \in 0 .. Len(hp[a])
          /\ \A i \in 1 .. h.len : hp[a][i] \in W
      BY <1>3, <2>3 DEF SliceOf
    <3>2. W = V
      BY <3>1, KindsApart
    <3>3. Len(s) \in Nat
      BY DEF ArraysOf
    <3> QED
      BY <1>2, <2>3, <3>1, <3>2, <3>3 DEF SliceOf
  <2> QED
    BY <2>1, <2>2, <2>3
<1>4. Keeps(hp, hp2)
  BY <1>3 DEF Keeps, Kinds
<1>5. Touches(V, hp, hp2)
  BY <1>2 DEF Touches, Touched
<1> QED
  BY <1>1, <1>4, <1>5 DEF hp2

\* A new array keeps every slice readable.
LEMMA NewArray ==
    ASSUME NEW V \in Kinds, NEW hp \in Heaps, NEW s \in ArraysOf(V)
    PROVE  LET hp2 == Append(hp, s)
           IN  hp2 \in Heaps /\ Keeps(hp, hp2) /\ Touches(V, hp, hp2)
<1> DEFINE hp2 == Append(hp, s)
<1>1. hp2 \in Heaps
  BY DEF Heaps, Kinds
<1>2. /\ DOMAIN hp2 = 1 .. Len(hp) + 1 /\ DOMAIN hp = 1 .. Len(hp) /\ Len(hp) \in Nat
      /\ hp2[Len(hp) + 1] = s /\ \A b \in DOMAIN hp : hp2[b] = hp[b]
  BY DEF Heaps
<1> HIDE DEF hp2
<1>3. ASSUME NEW W \in Kinds, NEW h \in Slice, SliceOf(W, hp, h)
      PROVE  SliceOf(W, hp2, h)
  BY <1>2, <1>3 DEF SliceOf
<1>4. Keeps(hp, hp2)
  BY <1>3 DEF Keeps, Kinds
<1>5. Touches(V, hp, hp2)
  BY <1>2 DEF Touches, Touched
<1> QED
  BY <1>1, <1>4, <1>5 DEF hp2

\* append either writes the slot after the slice ...
InPlace(V, hp, h, x, g) ==
    /\ h.addr \in DOMAIN hp /\ hp[h.addr] \in ArraysOf(V)
    /\ h.len + 1 \in 1 .. Len(hp[h.addr])
    /\ g.heap = [hp EXCEPT ![h.addr] = [hp[h.addr] EXCEPT ![h.len + 1] = x]]
    /\ g.slice = [addr |-> h.addr, len |-> h.len + 1]

\* ... or copies the slice and the new element to a new array s.
CopiedTo(s, V, hp, h, x, g) ==
    /\ g.heap = Append(hp, s)
    /\ g.slice = [addr |-> Len(hp) + 1, len |-> h.len + 1]
    /\ h.len \in Nat /\ Len(s) >= h.len + 1
    /\ \A i \in 1 .. h.len : h.addr \in DOMAIN hp /\ i \in DOMAIN hp[h.addr]
                               /\ s[i] = hp[h.addr][i] /\ s[i] \in V
    /\ s[h.len + 1] = x /\ \A i \in h.len + 2 .. Len(s) : s[i] = Missing

LEMMA AppendCases ==
    ASSUME NEW V \in Kinds, NEW hp \in Heaps, NEW h, SliceOf(V, hp, h), NEW x \in V,
           NEW g, g = GoAppend(hp, h, x)
    PROVE  InPlace(V, hp, h, x, g) \/ \E s \in ArraysOf(V) : CopiedTo(s, V, hp, h, x, g)
<1>1. h \in Slice /\ h.addr \in Nat /\ h.len \in Nat
  BY DEF SliceOf, Slice
<1>2. CASE h.len < Capacity(hp, h)
  <2>1. h.addr # 0 /\ h # Nil /\ h.len < Len(hp[h.addr])
    BY <1>2, <1>1 DEF Capacity, Nil
  <2>2. h.addr \in DOMAIN hp /\ hp[h.addr] \in ArraysOf(V) /\ Len(hp[h.addr]) \in Nat
    BY <2>1, HeapArray DEF SliceOf
  <2>3. [h EXCEPT !.len = @ + 1] = [addr |-> h.addr, len |-> h.len + 1]
    BY <1>1 DEF Slice
  <2> QED
    BY <1>1, <1>2, <2>1, <2>2, <2>3 DEF GoAppend, InPlace
<1>3. CASE ~ (h.len < Capacity(hp, h))
  <2> DEFINE n == IF h.len = 0 THEN 1 ELSE 2 * h.len
             s == [i \in 1 .. n |-> IF i <= h.len THEN hp[h.addr][i]
                                    ELSE IF i = h.len + 1 THEN x ELSE Missing]
  <2>1. n \in Nat /\ n >= h.len + 1
    BY <1>1
  <2>2. g.heap = Append(hp, s) /\ g.slice = [addr |-> Len(hp) + 1, len |-> h.len + 1]
    BY <1>3 DEF GoAppend
  <2>3. \A i \in 1 .. h.len : h.addr \in DOMAIN hp /\ i \in DOMAIN hp[h.addr]
                                 /\ hp[h.addr][i] \in V
    <3>1. CASE h = Nil
      BY <3>1 DEF Nil
    <3>2. CASE h # Nil
      BY <3>2, HeapArray DEF SliceOf
    <3> QED
      BY <3>1, <3>2
  <2> HIDE DEF n
  <2>4. /\ Len(s) = n /\ s \in Seq(V \union {Missing}) /\ s # <<>>
    <3>1. \A i \in 1 .. n : s[i] \in V \union {Missing}
      BY <1>1, <2>1, <2>3
    <3>2. s \in [1 .. n -> V \union {Missing}]
      BY <3>1
    <3>3. s \in Seq(V \union {Missing}) /\ Len(s) = n
      BY <2>1, <3>2
    <3> QED
      BY <3>3, <2>1, <1>1
  <2>5. s[1] \in V
    <3>1. CASE h.len = 0
      BY <3>1, <2>1
    <3>2. CASE h.len # 0
      BY <3>2, <1>1, <2>1, <2>3
    <3> QED
      BY <3>1, <3>2
  <2>6. s \in ArraysOf(V)
    BY <2>4, <2>5 DEF ArraysOf
  <2>7. /\ \A i \in 1 .. h.len : s[i] = hp[h.addr][i]
        /\ s[h.len + 1] = x /\ \A i \in h.len + 2 .. n : s[i] = Missing
    BY <1>1, <2>1
  <2> HIDE DEF s
  <2> QED
    BY <1>1, <2>1, <2>2, <2>3, <2>4, <2>6, <2>7 DEF CopiedTo
<1> QED
  BY <1>2, <1>3

LEMMA AppendKept ==
    ASSUME NEW V \in Kinds, NEW hp \in Heaps, NEW h, SliceOf(V, hp, h), NEW x \in V,
           NEW g, g = GoAppend(hp, h, x)
    PROVE  /\ g.heap \in Heaps /\ SliceOf(V, g.heap, g.slice)
           /\ Keeps(hp, g.heap) /\ Touches(V, hp, g.heap)
<1>1. h \in Slice /\ h.addr \in Nat /\ h.len \in Nat
  BY DEF SliceOf, Slice
<1>2. CASE InPlace(V, hp, h, x, g)
  <2> USE DEF InPlace
  <2> DEFINE s == [hp[h.addr] EXCEPT ![h.len + 1] = x]
  <2>1. /\ s \in Seq(V \union {Missing}) /\ Len(s) = Len(hp[h.addr]) /\ s # <<>>
        /\ Len(s) \in Nat
    BY <1>2 DEF ArraysOf
  <2>2. s[h.len + 1] = x /\ \A i \in 1 .. Len(s) : i # h.len + 1 => s[i] = hp[h.addr][i]
    BY <1>2, <2>1, HeapArray
  <2> HIDE DEF s
  <2>3. s[1] \in V
    BY <1>1, <1>2, <2>1, <2>2 DEF ArraysOf
  <2>4. s \in ArraysOf(V)
    BY <2>1, <2>3 DEF ArraysOf
  <2>5. \A i \in 1 .. Len(s) : hp[h.addr][i] \in V => s[i] \in V
    BY <2>2
  <2>6. g.heap = [hp EXCEPT ![h.addr] = s]
    BY <1>2 DEF s
  <2>7. g.heap \in Heaps /\ Keeps(hp, g.heap) /\ Touches(V, hp, g.heap)
    BY <1>2, <2>1, <2>4, <2>5, <2>6, ReplaceArray
  <2>8. g.heap[h.addr] = s /\ h.addr \in DOMAIN g.heap
    BY <1>2, <2>6 DEF Heaps
  <2>9. \A i \in 1 .. h.len : hp[h.addr][i] \in V
    BY <1>1 DEF SliceOf, Nil
  <2>10. \A i \in 1 .. h.len + 1 : s[i] \in V
    BY <1>1, <1>2, <2>1, <2>2, <2>9
  <2>11. g.slice \in Slice /\ g.slice.addr = h.addr /\ g.slice.len = h.len + 1
    BY <1>1, <1>2 DEF Slice
  <2>12. /\ g.slice.addr \in DOMAIN g.heap /\ g.heap[g.slice.addr] = s
         /\ g.slice.len \in 0 .. Len(s)
         /\ \A i \in 1 .. g.slice.len : s[i] \in V
    BY <1>1, <1>2, <2>1, <2>8, <2>10, <2>11
  <2>13. SliceOf(V, g.heap, g.slice)
    BY <2>4, <2>11, <2>12 DEF SliceOf
  <2> QED
    BY <2>7, <2>13
<1>3. CASE \E s \in ArraysOf(V) : CopiedTo(s, V, hp, h, x, g)
  <2>1. PICK s \in ArraysOf(V) : CopiedTo(s, V, hp, h, x, g)
    BY <1>3
  <2> USE DEF CopiedTo
  <2>2. Len(s) \in Nat
    BY DEF ArraysOf
  <2>3. g.heap \in Heaps /\ Keeps(hp, g.heap) /\ Touches(V, hp, g.heap)
    BY <2>1, NewArray
  <2>4. g.heap[Len(hp) + 1] = s /\ Len(hp) + 1 \in DOMAIN g.heap /\ Len(hp) \in Nat
    BY <2>1 DEF Heaps
  <2>5. g.slice \in Slice /\ g.slice.addr = Len(hp) + 1 /\ g.slice.len = h.len + 1
    BY <1>1, <2>1, <2>4 DEF Slice
  <2>6. \A i \in 1 .. h.len + 1 : s[i] \in V
    BY <1>1, <2>1
  <2> QED
    BY <1>1, <2>1, <2>2, <2>3, <2>4, <2>5, <2>6 DEF SliceOf
<1> QED
  BY <1>2, <1>3, AppendCases

\* Removing an element shifts the ones after it; those past the slice stay, so
\* longer slices of the same array remain readable.
LEMMA RemoveKept ==
    ASSUME NEW hp \in Heaps, NEW h, SliceOf(Callers, hp, h), NEW i \in 1 .. h.len,
           NEW g, g = GoRemove(hp, h, i)
    PROVE  /\ g.heap \in Heaps /\ SliceOf(Callers, g.heap, g.slice)
           /\ Keeps(hp, g.heap) /\ Touches(Callers, hp, g.heap)
<1> DEFINE old == hp[h.addr]
           n == Len(old)
           s == [j \in 1 .. n |-> IF j \in i .. h.len - 1 THEN old[j + 1] ELSE old[j]]
<1>1. h \in Slice /\ h.addr \in Nat /\ h.len \in Nat
  BY DEF SliceOf, Slice
<1>2. h # Nil
  BY <1>1 DEF Nil
<1>3. /\ h.addr \in DOMAIN hp /\ old \in ArraysOf(Callers) /\ n \in Nat
      /\ DOMAIN old = 1 .. n /\ h.len <= n /\ h.len >= 1 /\ i \in Nat /\ i >= 1
      /\ i <= h.len /\ \A j \in 1 .. h.len : old[j] \in Callers
  BY <1>1, <1>2, HeapArray DEF SliceOf
<1>4. g.heap = [hp EXCEPT ![h.addr] = s]
  BY <1>3 DEF GoRemove
<1>5. g.slice \in Slice /\ g.slice.addr = h.addr /\ g.slice.len = h.len - 1
  BY <1>1, <1>3 DEF GoRemove, Slice
<1>6. \A j \in 1 .. n : old[j] \in Callers \union {Missing}
  BY <1>3 DEF ArraysOf
<1> HIDE DEF n, old
<1>7. \A j \in 1 .. n : /\ s[j] \in Callers \union {Missing}
                        /\ old[j] \in Callers => s[j] \in Callers
                        /\ j <= h.len => s[j] \in Callers
  BY <1>1, <1>3, <1>6
<1>8. s \in Seq(Callers \union {Missing}) /\ Len(s) = n /\ s # <<>> /\ s[1] \in Callers
  <2>1. s \in [1 .. n -> Callers \union {Missing}]
    BY <1>7
  <2>2. s \in Seq(Callers \union {Missing}) /\ Len(s) = n
    BY <1>3, <2>1
  <2> QED
    BY <1>1, <1>3, <1>7, <2>2
<1> HIDE DEF s
<1>9. s \in ArraysOf(Callers)
  BY <1>8 DEF ArraysOf
<1>10. g.heap \in Heaps /\ Keeps(hp, g.heap) /\ Touches(Callers, hp, g.heap)
  BY <1>3, <1>4, <1>7, <1>8, <1>9, ReplaceArray DEF Kinds, n, old
<1>11. g.heap[h.addr] = s /\ h.addr \in DOMAIN g.heap
  BY <1>3, <1>4 DEF Heaps
<1>12. SliceOf(Callers, g.heap, g.slice)
  BY <1>1, <1>3, <1>5, <1>7, <1>8, <1>9, <1>11 DEF SliceOf
<1> QED
  BY <1>10, <1>12

\* A signal leaves a record a record, of the same session.
LEMMA RecordAfter ==
    ASSUME NEW r \in Record, NEW name \in Events
    PROVE  /\ After(name, r) \in Record /\ After(name, r).id = r.id
           /\ r.status = "ended" \/ name = "Logout" => After(name, r).status = "ended"
<1> DEFINE new == CASE name = "Logout" -> "ended"
                    [] name \in {"Lock", "Sleep"} -> "idle"
                    [] name \in {"Unlock", "Login"} -> "running"
<1>1. name \in {"Login", "Logout", "Lock", "Unlock", "Sleep"}
  BY CallsAssumption
<1>2. new \in {"running", "idle", "ended"} /\ (name = "Logout" => new = "ended")
  BY <1>1
<1> HIDE DEF new
<1>3. After(name, r) = IF r.status = "ended" THEN r ELSE [r EXCEPT !.status = new]
  BY DEF After, new
<1> QED
  BY <1>2, <1>3 DEF Record

\* Changing records of a slice in place keeps every slice readable.
LEMMA ChangeKept ==
    ASSUME NEW hp \in Heaps, NEW h, SliceOf(Record, hp, h), h.addr # 0,
           NEW name \in Events, NEW which \in SUBSET (1 .. h.len),
           NEW hp2, hp2 = [hp EXCEPT ![h.addr] = [i \in DOMAIN @ |->
                       IF i \in which THEN After(name, @[i]) ELSE @[i]]]
    PROVE  hp2 \in Heaps /\ Keeps(hp, hp2) /\ Touches(Record, hp, hp2)
<1> DEFINE old == hp[h.addr]
           n == Len(old)
           s == [i \in 1 .. n |-> IF i \in which THEN After(name, old[i]) ELSE old[i]]
<1>1. h \in Slice /\ h.addr \in Nat /\ h.len \in Nat /\ h # Nil
  BY DEF SliceOf, Slice, Nil
<1>2. /\ h.addr \in DOMAIN hp /\ old \in ArraysOf(Record) /\ n \in Nat
      /\ DOMAIN old = 1 .. n /\ h.len <= n /\ \A i \in 1 .. h.len : old[i] \in Record
  BY <1>1, HeapArray DEF SliceOf
<1>3. hp2 = [hp EXCEPT ![h.addr] = s]
  BY <1>2
<1>4. \A i \in 1 .. n : old[i] \in Record \union {Missing}
  BY <1>2 DEF ArraysOf
<1> HIDE DEF n, old
<1>5. \A i \in 1 .. n : /\ s[i] \in Record \union {Missing}
                        /\ old[i] \in Record => s[i] \in Record
  <2> TAKE i \in 1 .. n
  <2>1. CASE i \in which
    <3>1. old[i] \in Record
      BY <1>1, <1>2, <2>1
    <3>2. s[i] = After(name, old[i])
      BY <2>1
    <3> HIDE DEF s
    <3> QED
      BY <3>1, <3>2, RecordAfter
  <2>2. CASE i \notin which
    BY <1>4, <2>2
  <2> QED
    BY <2>1, <2>2
<1>6. old[1] \in Record /\ n >= 1
  BY <1>2 DEF ArraysOf, n
<1>7. s \in Seq(Record \union {Missing}) /\ Len(s) = n /\ s # <<>> /\ s[1] \in Record
  <2>1. s \in [1 .. n -> Record \union {Missing}]
    BY <1>5
  <2>2. s \in Seq(Record \union {Missing}) /\ Len(s) = n
    BY <1>2, <2>1
  <2> QED
    BY <1>2, <1>5, <1>6, <2>2
<1> HIDE DEF s
<1>8. s \in ArraysOf(Record)
  BY <1>7 DEF ArraysOf
<1>9. /\ hp[h.addr] \in ArraysOf(Record) /\ Len(s) = Len(hp[h.addr])
      /\ \A i \in 1 .. Len(s) : hp[h.addr][i] \in Record => s[i] \in Record
  BY <1>2, <1>5, <1>7 DEF n, old
<1>10. Record \in Kinds
  BY DEF Kinds
<1>11. LET new == [hp EXCEPT ![h.addr] = s]
       IN  new \in Heaps /\ Keeps(hp, new) /\ Touches(Record, hp, new)
  BY <1>2, <1>8, <1>9, <1>10, ReplaceArray
<1> QED
  BY <1>3, <1>11

-----------------------------------------------------------------------------
(* The threads and the shape of memory.                                    *)

CallerPcs == {"idle", "getState", "read", "modify", "write", "save", "marshal",
              "lock", "returned", "refused", "failed"}
WatcherPcs == {"idle", "enter", "hread", "hwrite", "hsave"}
Signal == [name : Events, id : Ids]

CallerAt(c) ==
    /\ pc[c] \in CallerPcs /\ (pc[c] # "idle" => job[c] \in Ops)
    /\ pc[c] \in {"modify", "write", "save", "marshal"} => copy[c] # Missing
    /\ pc[c] \in {"save", "marshal", "lock"} => entry # Missing

WatcherAt ==
    /\ pc[Watcher] \in WatcherPcs /\ (pc[Watcher] # "idle" => job[Watcher] \in Signal)
    /\ pc[Watcher] = "hwrite" => copy[Watcher] # Missing

\* The mutex is held by the one thread that is between taking and releasing it.
Mutex == mu \in Threads \union {Missing} /\ \A t \in Threads : mu = t <=> InMutex(t)

Control ==
    /\ pc \in [Threads -> CallerPcs \union WatcherPcs]
    /\ job \in [Threads -> Ops \union Signal \union {Missing}]
    /\ (\A c \in Callers : CallerAt(c)) /\ WatcherAt /\ Mutex

Counters ==
    /\ logind \in [Ids -> {"new", "open", "gone"}]
    /\ {asked, early} \subseteq SUBSET Ids /\ behind \in BOOLEAN /\ events \in 0 .. MaxEvents

UserAt(hp, u) ==
    /\ u \in User
    /\ SliceOf(Record, hp, u.sessions) /\ SliceOf(Callers, hp, u.overrides)

UserOrNone(hp, u) == u = Missing \/ UserAt(hp, u)

Memory ==
    /\ heap \in Heaps /\ UserOrNone(heap, entry)
    /\ copy \in [Threads -> User \union {Missing}]
    /\ \A t \in Threads : UserOrNone(heap, copy[t])

Inv == Control /\ Counters /\ Memory

LEMMA UserKept ==
    ASSUME NEW hp, NEW hp2, Keeps(hp, hp2), NEW u, UserOrNone(hp, u)
    PROVE  UserOrNone(hp2, u)
BY DEF Keeps, UserOrNone, UserAt, User

LEMMA NewUserAt == ASSUME NEW hp PROVE UserAt(hp, NewUser) /\ NewUser # Missing
<1>1. Nil \in Slice /\ NewUser \in User
  BY DEF Nil, Slice, NewUser, User
<1>2. NewUser.sessions = Nil /\ NewUser.overrides = Nil
  BY DEF NewUser
<1> QED
  BY <1>1, <1>2, NamesAssumption DEF UserAt, SliceOf

LEMMA InitInv == Init => Inv
<1> SUFFICES ASSUME Init PROVE Inv
  OBVIOUS
<1> USE DEF Init
<1>1. Control
  BY NamesAssumption DEF Control, CallerAt, WatcherAt, Mutex, InMutex, CallerPcs, WatcherPcs,
     Threads
<1>2. Counters
  <2>1. logind \in [Ids -> {"new", "open", "gone"}]
    OBVIOUS
  <2>2. asked = {} /\ early \subseteq Ids /\ behind = FALSE /\ events = 0
    OBVIOUS
  <2>3. 0 \in 0 .. MaxEvents
    BY CallsAssumption
  <2> HIDE DEF Init
  <2> QED
    BY <2>1, <2>2, <2>3 DEF Counters
<1>3. heap \in Heaps /\ UserOrNone(heap, entry)
  <2>1. CASE heap = <<>> /\ entry = Missing
    BY <2>1 DEF Heaps, UserOrNone
  <2>2. ASSUME NEW id \in Ids,
               heap = << <<[id |-> id, status |-> "running"]>> >>,
               entry = [NewUser EXCEPT !.sessions = [addr |-> 1, len |-> 1]]
        PROVE  heap \in Heaps /\ UserOrNone(heap, entry)
    <3> DEFINE r == [id |-> id, status |-> "running"]
    <3>1. r \in Record
      BY DEF Record
    <3> HIDE DEF r
    <3>2. heap = << <<r>> >>
      BY <2>2 DEF r
    <3>3. <<r>> \in ArraysOf(Record)
      BY <3>1 DEF ArraysOf
    <3>4. heap \in Heaps
      BY <3>2, <3>3 DEF Heaps
    <3>5. entry = [sessions |-> [addr |-> 1, len |-> 1], overrides |-> Nil,
                   paused |-> FALSE]
      BY <2>2 DEF NewUser
    <3>6. entry \in User /\ entry.sessions \in Slice
          /\ entry.sessions.addr = 1 /\ entry.sessions.len = 1 /\ entry.overrides = Nil
      BY <3>5 DEF User, Slice, Nil
    <3>7. SliceOf(Record, heap, entry.sessions)
      BY <3>1, <3>2, <3>3, <3>6 DEF SliceOf
    <3>8. SliceOf(Callers, heap, entry.overrides)
      BY <3>6 DEF SliceOf, Slice, Nil
    <3> QED
      BY <3>4, <3>6, <3>7, <3>8 DEF UserOrNone, UserAt
  <2> QED
    BY <2>1, <2>2
<1>4. Memory
  BY <1>3 DEF Memory, UserOrNone
<1> QED
  BY <1>1, <1>2, <1>4 DEF Inv

\* A caller's step to another place, taking, keeping or releasing the mutex.
LEMMA CallerMoves ==
    ASSUME Control, NEW c \in Callers, NEW l \in CallerPcs, Goto(c, l),
           job' \in [Threads -> Ops \union Signal \union {Missing}], l # "idle",
           job'[c] \in Ops, \A t \in Threads \ {c} : job'[t] = job[t] /\ copy'[t] = copy[t],
           l \in {"modify", "write", "save", "marshal"} => copy'[c] # Missing,
           l \in {"save", "marshal", "lock"} => entry' # Missing,
           entry # Missing => entry' # Missing,
           \/ l = "marshal" /\ mu = Missing /\ mu' = c
           \/ l # "marshal" /\ pc[c] = "marshal" /\ mu' = Missing
           \/ l # "marshal" /\ pc[c] # "marshal" /\ mu' = mu
    PROVE  Control'
<1>1. c \in Threads /\ c # Watcher /\ Watcher \in Threads /\ Missing \notin Threads
  BY NamesAssumption DEF Threads
<1>2. /\ pc' \in [Threads -> CallerPcs \union WatcherPcs] /\ pc'[c] = l
      /\ \A t \in Threads : t # c => pc'[t] = pc[t]
  BY <1>1 DEF Control, Goto
<1>3. \A d \in Callers : CallerAt(d)'
  BY <1>1, <1>2 DEF Control, CallerAt, Threads
<1>4. WatcherAt'
  BY <1>1, <1>2 DEF Control, WatcherAt
<1>5. InMutex(c) <=> pc[c] = "marshal"
  BY DEF InMutex, Control, CallerAt, CallerPcs
<1>6. InMutex(c)' <=> l = "marshal"
  BY <1>2 DEF InMutex, CallerPcs
<1>7. \A t \in Threads : t # c => (InMutex(t)' <=> InMutex(t))
  BY <1>2 DEF InMutex
<1>8. Mutex'
  BY <1>1, <1>5, <1>6, <1>7 DEF Control, Mutex
<1> QED
  BY <1>2, <1>3, <1>4, <1>8 DEF Control

LEMMA MemorySame ==
    Memory /\ UNCHANGED <<heap, entry, copy>> => Memory'
BY DEF Memory

LEMMA CountersSame ==
    Counters /\ UNCHANGED <<logind, early, asked, behind, events>> => Counters'
BY DEF Counters

LEMMA CallInv == ASSUME Inv, NEW c \in Callers, Call(c) PROVE Inv'
<1>1. c \in Threads
  BY DEF Threads
<1>2. PICK op \in Ops : job' = [job EXCEPT ![c] = op]
  BY DEF Call
<1>3. Control'
  BY <1>1, <1>2, CallerMoves DEF Inv, Control, Call, CallerPcs
<1> QED
  BY <1>3, MemorySame, CountersSame DEF Inv, Call

LEMMA GetStateInv == ASSUME Inv, NEW c \in Callers, GetState(c) PROVE Inv'
<1>1. Control'
  BY CallerMoves DEF Inv, Control, CallerAt, GetState, CallerPcs
<1> QED
  BY <1>1, MemorySame, CountersSame DEF Inv, GetState

LEMMA ReadInv == ASSUME Inv, NEW c \in Callers, Read(c) PROVE Inv'
<1> DEFINE usr == IF entry = Missing /\ job[c] = "Add" THEN NewUser ELSE entry
<1>1. c \in Threads
  BY DEF Threads
<1>2. UserOrNone(heap, usr)
  BY NewUserAt DEF Inv, Memory, UserOrNone
<1> HIDE DEF usr
<1>3. CASE \E l \in {"refused", "returned"} : Goto(c, l) /\ UNCHANGED copy
  <2>1. Control'
    BY <1>3, CallerMoves DEF Inv, Control, CallerAt, Read, CallerPcs
  <2> QED
    BY <1>3, <2>1, MemorySame, CountersSame DEF Inv, Read
<1>4. CASE Goto(c, "modify") /\ copy' = [copy EXCEPT ![c] = usr] /\ usr # Missing
  <2>1. /\ copy' \in [Threads -> User \union {Missing}] /\ copy'[c] = usr
        /\ \A t \in Threads : t # c => copy'[t] = copy[t]
    BY <1>1, <1>2, <1>4 DEF Inv, Memory, UserOrNone, UserAt
  <2>2. Control'
    BY <1>4, <2>1, CallerMoves DEF Inv, Control, CallerAt, Read, CallerPcs
  <2>3. Memory'
    BY <1>2, <2>1 DEF Inv, Memory, Read
  <2> QED
    BY <2>2, <2>3, CountersSame DEF Inv, Read
<1> QED
  BY <1>3, <1>4 DEF Read, usr

\* The pieces of Modify: what the caller's copy and the heap become.
LEMMA SetPausedKept ==
    ASSUME Inv, NEW c \in Callers, copy[c] # Missing, SetPaused(c)
    PROVE  /\ copy'[c] # Missing /\ copy'[c].sessions = copy[c].sessions
           /\ copy'[c].overrides = copy[c].overrides /\ heap' = heap
           /\ copy' \in [Threads -> User \union {Missing}] /\ UserAt(heap', copy'[c])
           /\ \A t \in Threads : t # c => copy'[t] = copy[t]
<1>1. c \in Threads /\ Missing \notin User
  BY NamesAssumption DEF Threads
<1>2. copy[c] \in User /\ UserAt(heap, copy[c]) /\ copy \in [Threads -> User \union {Missing}]
  BY <1>1 DEF Inv, Memory, UserOrNone
<1> DEFINE new == [copy[c] EXCEPT !.paused = (job[c] = "Pause")]
<1>3. /\ new \in User /\ new.sessions = copy[c].sessions
      /\ new.overrides = copy[c].overrides
  BY <1>2 DEF User
<1>4. copy' = [copy EXCEPT ![c] = new] /\ heap' = heap
  BY DEF SetPaused
<1> HIDE DEF new
<1> QED
  BY <1>1, <1>2, <1>3, <1>4 DEF UserAt

LEMMA SetOverridesKept ==
    ASSUME Inv, NEW c \in Callers, copy[c] # Missing, NEW g, SetOverrides(c, g),
           SliceOf(Callers, g.heap, g.slice), Keeps(heap, g.heap)
    PROVE  /\ copy'[c] # Missing /\ copy'[c].sessions = copy[c].sessions
           /\ copy'[c].overrides = g.slice /\ heap' = g.heap
           /\ copy' \in [Threads -> User \union {Missing}] /\ UserAt(heap', copy'[c])
           /\ \A t \in Threads : t # c => copy'[t] = copy[t]
<1>1. c \in Threads /\ Missing \notin User
  BY NamesAssumption DEF Threads
<1>2. copy[c] \in User /\ UserAt(heap, copy[c]) /\ copy \in [Threads -> User \union {Missing}]
  BY <1>1 DEF Inv, Memory, UserOrNone
<1> DEFINE new == [copy[c] EXCEPT !.overrides = g.slice]
<1>3. g.slice \in Slice
  BY DEF SliceOf
<1>4. /\ new \in User /\ new.sessions = copy[c].sessions /\ new.overrides = g.slice
  BY <1>2, <1>3 DEF User
<1>5. copy' = [copy EXCEPT ![c] = new] /\ heap' = g.heap
  BY DEF SetOverrides
<1> HIDE DEF new
<1>6. UserOrNone(g.heap, copy[c])
  BY <1>2, UserKept DEF UserOrNone
<1> QED
  BY <1>1, <1>2, <1>4, <1>5, <1>6 DEF UserAt, UserOrNone

LEMMA HeapSame == ASSUME NEW hp \in Heaps PROVE Keeps(hp, hp) /\ Touches(Callers, hp, hp)
BY DEF Keeps, Touches, Touched

\* A method changes its own copy and arrays of overrides.
LEMMA ModifyKept ==
    ASSUME Inv, NEW c \in Callers, Modify(c)
    PROVE  /\ copy'[c] # Missing /\ copy'[c].sessions = copy[c].sessions
           /\ copy' \in [Threads -> User \union {Missing}] /\ UserAt(heap', copy'[c])
           /\ \A t \in Threads : t # c => copy'[t] = copy[t]
           /\ heap' \in Heaps /\ Keeps(heap, heap') /\ Touches(Callers, heap, heap')
<1>1. copy[c] # Missing /\ heap \in Heaps
  BY DEF Inv, Control, CallerAt, Memory, Modify
<1>2. SliceOf(Callers, heap, copy[c].overrides) /\ copy[c].overrides.len \in Nat
  BY <1>1 DEF Inv, Memory, UserOrNone, UserAt, Threads, SliceOf, Slice
<1>3. CASE SetPaused(c)
  BY <1>1, <1>3, SetPausedKept, HeapSame
<1>4. CASE SetOverrides(c, GoAppend(heap, copy[c].overrides, c))
  <2> DEFINE g == GoAppend(heap, copy[c].overrides, c)
  <2>1. /\ g.heap \in Heaps /\ SliceOf(Callers, g.heap, g.slice)
        /\ Keeps(heap, g.heap) /\ Touches(Callers, heap, g.heap)
    BY <1>1, <1>2, AppendKept DEF Kinds
  <2>2. SetOverrides(c, g)
    BY <1>4
  <2> HIDE DEF g
  <2> QED
    BY <1>1, <2>1, <2>2, SetOverridesKept
<1>5. ASSUME NEW i \in 1 .. copy[c].overrides.len,
             SetOverrides(c, GoRemove(heap, copy[c].overrides, i))
      PROVE  /\ copy'[c] # Missing /\ copy'[c].sessions = copy[c].sessions
             /\ copy' \in [Threads -> User \union {Missing}] /\ UserAt(heap', copy'[c])
             /\ \A t \in Threads : t # c => copy'[t] = copy[t]
             /\ heap' \in Heaps /\ Keeps(heap, heap') /\ Touches(Callers, heap, heap')
  <2> DEFINE g == GoRemove(heap, copy[c].overrides, i)
  <2>1. /\ g.heap \in Heaps /\ SliceOf(Callers, g.heap, g.slice)
        /\ Keeps(heap, g.heap) /\ Touches(Callers, heap, g.heap)
    BY <1>1, <1>2, RemoveKept
  <2>2. SetOverrides(c, g)
    BY <1>5
  <2> HIDE DEF g
  <2> QED
    BY <1>1, <2>1, <2>2, SetOverridesKept
<1> QED
  BY <1>3, <1>4, <1>5 DEF Modify

LEMMA ModifyInv == ASSUME Inv, NEW c \in Callers, Modify(c) PROVE Inv'
<1>1. Control'
  <2>1. c \in Threads
    BY DEF Threads
  <2> QED
    BY <2>1, ModifyKept, CallerMoves DEF Inv, Control, CallerAt, Modify, CallerPcs
<1>2. Memory'
  <2>1. \A t \in Threads : UserOrNone(heap', copy[t])
    BY ModifyKept, UserKept DEF Inv, Memory
  <2>2. UserOrNone(heap', entry)
    BY ModifyKept, UserKept DEF Inv, Memory
  <2>3. \A t \in Threads : UserOrNone(heap', copy'[t])
    BY <2>1, ModifyKept DEF UserOrNone
  <2> QED
    BY <2>2, <2>3, ModifyKept DEF Memory, Modify
<1> QED
  BY <1>1, <1>2, CountersSame DEF Inv, Modify

LEMMA WriteInv == ASSUME Inv, NEW c \in Callers, Write(c) PROVE Inv'
<1>1. Control'
  BY CallerMoves DEF Inv, Control, CallerAt, Write, CallerPcs
<1>2. Memory'
  BY DEF Inv, Memory, Write, Threads
<1> QED
  BY <1>1, <1>2, CountersSame DEF Inv, Write

LEMMA StartSaveInv == ASSUME Inv, NEW c \in Callers, StartSave(c) PROVE Inv'
<1>1. Control'
  BY CallerMoves DEF Inv, Control, CallerAt, StartSave, CallerPcs
<1> QED
  BY <1>1, MemorySame, CountersSame DEF Inv, StartSave

LEMMA FinishSaveInv == ASSUME Inv, NEW c \in Callers, FinishSave(c) PROVE Inv'
<1>1. c \in Threads
  BY DEF Threads
<1>2. /\ copy' \in [Threads -> User \union {Missing}]
      /\ copy'[c] = Missing /\ \A t \in Threads : t # c => copy'[t] = copy[t]
  BY <1>1 DEF Inv, Memory, FinishSave
<1>3. PICK l \in {"lock", "returned", "failed"} : Goto(c, l)
  BY DEF FinishSave
<1>4. Control'
  BY <1>2, <1>3, CallerMoves DEF Inv, Control, CallerAt, FinishSave, CallerPcs
<1>5. Memory'
  BY <1>2 DEF Inv, Memory, UserOrNone, FinishSave
<1>6. Counters'
  BY DEF Inv, Counters, FinishSave
<1> QED
  BY <1>4, <1>5, <1>6 DEF Inv

\* The sessions logind is asked to lock are sessions.
LEMMA LastActiveType == ASSUME Inv, entry # Missing PROVE LastActive(heap, entry) \subseteq Ids
<1>1. SliceOf(Record, heap, entry.sessions)
  BY DEF Inv, Memory, UserOrNone, UserAt
<1>2. \A i \in 1 .. entry.sessions.len : heap[entry.sessions.addr][i] \in Record
  <2>1. CASE entry.sessions = Nil
    BY <2>1 DEF Nil
  <2>2. CASE entry.sessions # Nil
    BY <1>1, <2>2 DEF SliceOf
  <2> QED
    BY <2>1, <2>2
<1> QED
  BY <1>2 DEF LastActive, Record

LEMMA LockPausedInv == ASSUME Inv, NEW c \in Callers, LockPaused(c) PROVE Inv'
<1>1. entry # Missing
  BY DEF Inv, Control, CallerAt, LockPaused
<1>2. Control'
  BY CallerMoves DEF Inv, Control, CallerAt, LockPaused, CallerPcs
<1>3. Counters'
  BY <1>1, LastActiveType DEF Inv, Counters, LockPaused
<1> QED
  BY <1>2, <1>3, MemorySame DEF Inv, LockPaused

\* A step of the watcher to another place.
LEMMA WatcherMoves ==
    ASSUME Control, NEW l \in WatcherPcs, Goto(Watcher, l),
           job' \in [Threads -> Ops \union Signal \union {Missing}],
           l # "idle" => job'[Watcher] \in Signal,
           \A c \in Callers : job'[c] = job[c] /\ copy'[c] = copy[c],
           l = "hwrite" => copy'[Watcher] # Missing, entry # Missing => entry' # Missing,
           \/ l = "hread" /\ mu = Missing /\ mu' = Watcher
           \/ l \in {"hwrite", "hsave"} /\ InMutex(Watcher) /\ mu' = mu
           \/ l = "idle" /\ InMutex(Watcher) /\ mu' = Missing
           \/ l = "enter" /\ ~ InMutex(Watcher) /\ mu' = mu
    PROVE  Control'
<1>1. /\ Watcher \in Threads /\ Missing \notin Threads
      /\ \A c \in Callers : c \in Threads /\ c # Watcher
  BY NamesAssumption DEF Threads
<1>2. /\ pc' \in [Threads -> CallerPcs \union WatcherPcs] /\ pc'[Watcher] = l
      /\ \A t \in Threads : t # Watcher => pc'[t] = pc[t]
  BY <1>1 DEF Control, Goto
<1>3. \A c \in Callers : CallerAt(c)'
  BY <1>1, <1>2 DEF Control, CallerAt
<1>4. WatcherAt'
  BY <1>1, <1>2 DEF Control, WatcherAt
<1>5. InMutex(Watcher)' <=> l \in {"hread", "hwrite", "hsave"}
  BY <1>2 DEF InMutex, WatcherPcs
<1>6. \A t \in Threads : t # Watcher => (InMutex(t)' <=> InMutex(t))
  BY <1>2 DEF InMutex
<1>7. Mutex'
  BY <1>1, <1>5, <1>6 DEF Control, Mutex
<1> QED
  BY <1>2, <1>3, <1>4, <1>7 DEF Control

LEMMA ReceiveInv == ASSUME Inv, Receive PROVE Inv'
<1>1. Watcher \in Threads
  BY DEF Threads
<1>2. PICK name \in Events, id \in Ids :
         /\ job' = [job EXCEPT ![Watcher] = [name |-> name, id |-> id]]
         /\ \/ logind' = [logind EXCEPT ![id] = "open"]
            \/ logind' = [logind EXCEPT ![id] = "gone"]
            \/ logind' = logind
  BY CallsAssumption DEF Receive
<1>3. [name |-> name, id |-> id] \in Signal
  BY DEF Signal
<1>4. Control'
  <2>1. /\ job' \in [Threads -> Ops \union Signal \union {Missing}]
        /\ job'[Watcher] \in Signal
        /\ \A c \in Callers : job'[c] = job[c]
    BY <1>1, <1>2, <1>3, NamesAssumption DEF Inv, Control, Threads
  <2>2. ~ InMutex(Watcher)
    BY DEF InMutex, Receive
  <2> QED
    BY <2>1, <2>2, WatcherMoves DEF Inv, Receive, WatcherPcs
<1>5. Counters'
  <2>1. events' \in 0 .. MaxEvents
    BY CallsAssumption DEF Inv, Counters, Receive
  <2>2. logind' \in [Ids -> {"new", "open", "gone"}]
    BY <1>2 DEF Inv, Counters
  <2> QED
    BY <2>1, <2>2 DEF Inv, Counters, Receive
<1> QED
  BY <1>4, <1>5, MemorySame DEF Inv, Receive

LEMMA EnterInv == ASSUME Inv, Enter PROVE Inv'
<1>1. Control'
  BY WatcherMoves DEF Inv, Control, WatcherAt, Enter, WatcherPcs
<1> QED
  BY <1>1, MemorySame, CountersSame DEF Inv, Enter

\* What the watcher reads is the entry, or a new user if it handles a login.
LEMMA HandlerReadCases ==
    ASSUME Inv, HandlerRead
    PROVE  /\ copy' \in [Threads -> User \union {Missing}]
           /\ \A c \in Callers : copy'[c] = copy[c]
           /\ \/ /\ copy'[Watcher] = Missing /\ mu' = Missing /\ Goto(Watcher, "idle")
                 /\ \/ entry = Missing
                    \/ /\ job[Watcher].name \in {"Logout", "Lock", "Unlock"}
                       /\ Found(entry, job[Watcher].id) = {}
              \/ /\ copy'[Watcher] = Missing /\ mu' = mu /\ Goto(Watcher, "hsave")
                 /\ entry = Missing
              \/ /\ copy'[Watcher] # Missing /\ mu' = mu /\ Goto(Watcher, "hwrite")
                 /\ UserAt(heap, copy'[Watcher])
                 /\ entry # Missing => copy'[Watcher] = entry
<1> DEFINE name == job[Watcher].name
           usr == IF entry = Missing /\ name = "Login" THEN NewUser ELSE entry
           goal == Onward(name, usr)
<1>1. Watcher \in Threads /\ \A c \in Callers : c \in Threads /\ c # Watcher
  BY NamesAssumption DEF Threads
<1>2. UserOrNone(heap, usr) /\ (entry # Missing => usr = entry)
      /\ (name # "Login" => usr = entry) /\ (usr = Missing => entry = Missing)
  BY NewUserAt DEF Inv, Memory, UserOrNone
<1>3. /\ copy' = [copy EXCEPT ![Watcher] = IF goal = "hwrite" THEN usr ELSE Missing]
      /\ mu' = (IF goal = "idle" THEN Missing ELSE mu)
      /\ Goto(Watcher, goal)
  BY DEF HandlerRead
<1>4. \/ /\ goal = "idle"
         /\ \/ usr = Missing
            \/ name \in {"Logout", "Lock", "Unlock"} /\ Found(usr, job[Watcher].id) = {}
      \/ goal = "hsave" /\ usr = Missing
      \/ goal = "hwrite" /\ usr # Missing
  BY DEF Onward
<1> HIDE DEF usr, goal
<1>5. CASE goal # "hwrite"
  BY <1>1, <1>2, <1>3, <1>4, <1>5 DEF Inv, Memory
<1>6. CASE goal = "hwrite"
  <2>1. usr # Missing /\ UserAt(heap, usr)
    BY <1>2, <1>4, <1>6 DEF UserOrNone
  <2>2. usr \in User
    BY <2>1 DEF UserAt
  <2> QED
    BY <1>1, <1>2, <1>3, <1>6, <2>1, <2>2 DEF Inv, Memory
<1> QED
  BY <1>5, <1>6

LEMMA HandlerReadInv == ASSUME Inv, HandlerRead PROVE Inv'
<1>1. InMutex(Watcher) /\ pc[Watcher] = "hread"
  BY DEF HandlerRead, InMutex
<1>2. Control'
  BY <1>1, HandlerReadCases, WatcherMoves DEF Inv, Control, WatcherAt, HandlerRead, WatcherPcs
<1>3. Memory'
  BY HandlerReadCases DEF Inv, Memory, UserOrNone, HandlerRead, Threads
<1> QED
  BY <1>2, <1>3, CountersSame DEF Inv, HandlerRead

\* A handler that changes records in place.
ChangesInPlace ==
    \E which \in SUBSET (1 .. copy[Watcher].sessions.len) :
        /\ ChangeRecords(which)
        /\ job[Watcher].name # "Sleep" => which = Found(copy[Watcher], job[Watcher].id)

\* A handler that appends a record for a session it did not find.
AppendsRecord ==
    /\ job[Watcher].name = "Login" /\ Found(copy[Watcher], job[Watcher].id) = {}
    /\ LET new == GoAppend(heap, copy[Watcher].sessions,
                           [id |-> job[Watcher].id, status |-> "running"])
       IN  heap' = new.heap /\ entry' = [copy[Watcher] EXCEPT !.sessions = new.slice]

LEMMA HandlerWriteCases ==
    ASSUME HandlerWrite
    PROVE  \/ Goto(Watcher, "hsave") /\ mu' = mu /\ (AppendsRecord \/ ChangesInPlace)
           \/ /\ Goto(Watcher, "idle") /\ mu' = Missing /\ heap' = heap /\ entry' = entry
              /\ job[Watcher].name = "Login"
BY DEF HandlerWrite, AppendsRecord, ChangesInPlace, Found

LEMMA AppendsRecordKept ==
    ASSUME Inv, pc[Watcher] = "hwrite", AppendsRecord
    PROVE  /\ heap' \in Heaps /\ Keeps(heap, heap') /\ Touches(Record, heap, heap')
           /\ UserAt(heap', entry')
<1> DEFINE usr == copy[Watcher]
           r == [id |-> job[Watcher].id, status |-> "running"]
           g == GoAppend(heap, usr.sessions, r)
           new == [usr EXCEPT !.sessions = g.slice]
<1>1. usr # Missing /\ job[Watcher] \in Signal /\ heap \in Heaps
  BY DEF Inv, Control, WatcherAt, Memory
<1>2. UserAt(heap, usr)
  BY <1>1 DEF Inv, Memory, UserOrNone, Threads
<1>3. r \in Record
  BY <1>1 DEF Signal, Record
<1> HIDE DEF usr, r
<1>4. /\ g.heap \in Heaps /\ SliceOf(Record, g.heap, g.slice)
      /\ Keeps(heap, g.heap) /\ Touches(Record, heap, g.heap)
  BY <1>1, <1>2, <1>3, AppendKept DEF Kinds, UserAt
<1>5. heap' = g.heap /\ entry' = new
  BY DEF AppendsRecord, usr, r
<1> HIDE DEF g
<1>6. usr \in User /\ g.slice \in Slice
  BY <1>2, <1>4 DEF UserAt, SliceOf
<1>7. new \in User /\ new.sessions = g.slice /\ new.overrides = usr.overrides
  BY <1>6 DEF User
<1> HIDE DEF new
<1>8. UserOrNone(g.heap, usr)
  BY <1>2, <1>4, UserKept DEF UserOrNone
<1>9. SliceOf(Callers, g.heap, usr.overrides)
  BY <1>1, <1>8 DEF UserOrNone, UserAt, usr
<1> QED
  BY <1>4, <1>5, <1>7, <1>9 DEF UserAt

LEMMA ChangesInPlaceKept ==
    ASSUME Inv, pc[Watcher] = "hwrite", ChangesInPlace
    PROVE  /\ heap' \in Heaps /\ Keeps(heap, heap') /\ Touches(Record, heap, heap')
           /\ UserAt(heap', entry') /\ entry' = copy[Watcher]
<1> DEFINE usr == copy[Watcher]
           h == usr.sessions
<1>1. usr # Missing /\ job[Watcher] \in Signal /\ heap \in Heaps
  BY DEF Inv, Control, WatcherAt, Memory
<1>2. UserAt(heap, usr)
  BY <1>1 DEF Inv, Memory, UserOrNone, Threads
<1>3. PICK which \in SUBSET (1 .. h.len) : ChangeRecords(which)
  BY DEF ChangesInPlace
<1>4. entry' = usr
  BY <1>3 DEF ChangeRecords
<1>5. heap' \in Heaps /\ Keeps(heap, heap') /\ Touches(Record, heap, heap')
  <2>1. CASE h.addr = 0
    BY <1>1, <1>3, <2>1 DEF ChangeRecords, Keeps, Touches, Touched
  <2>2. CASE h.addr # 0
    <3> DEFINE name == job[Watcher].name
    <3>1. name \in Events /\ SliceOf(Record, heap, h)
      BY <1>1, <1>2 DEF Signal, UserAt
    <3>2. heap' = [heap EXCEPT ![h.addr] = [i \in DOMAIN @ |->
                       IF i \in which THEN After(name, @[i]) ELSE @[i]]]
      BY <1>3, <2>2 DEF ChangeRecords
    <3>3. which \in SUBSET (1 .. h.len)
      OBVIOUS
    <3> HIDE DEF name, h
    <3> DEFINE new == [heap EXCEPT ![h.addr] = [i \in DOMAIN @ |->
                       IF i \in which THEN After(name, @[i]) ELSE @[i]]]
    <3>4. new \in Heaps /\ Keeps(heap, new) /\ Touches(Record, heap, new)
      BY <1>1, <2>2, <3>1, <3>3, ChangeKept
    <3> QED
      BY <3>2, <3>4
  <2> QED
    BY <2>1, <2>2
<1>6. UserOrNone(heap', usr)
  BY <1>2, <1>5, UserKept DEF UserOrNone
<1> QED
  BY <1>1, <1>4, <1>5, <1>6 DEF UserOrNone

LEMMA HandlerWriteKept ==
    ASSUME Inv, HandlerWrite
    PROVE  /\ heap' \in Heaps /\ Keeps(heap, heap') /\ Touches(Record, heap, heap')
           /\ UserOrNone(heap', entry') /\ (entry # Missing => entry' # Missing)
           /\ copy' \in [Threads -> User \union {Missing}] /\ copy'[Watcher] = Missing
           /\ \A c \in Callers : copy'[c] = copy[c]
<1>1. pc[Watcher] = "hwrite" /\ copy' = [copy EXCEPT ![Watcher] = Missing]
  BY DEF HandlerWrite
<1>2. /\ copy' \in [Threads -> User \union {Missing}] /\ copy'[Watcher] = Missing
      /\ \A c \in Callers : copy'[c] = copy[c]
  BY <1>1, NamesAssumption DEF Inv, Memory, Threads
<1>3. CASE AppendsRecord \/ ChangesInPlace
  <2>1. /\ heap' \in Heaps /\ Keeps(heap, heap') /\ Touches(Record, heap, heap')
        /\ UserAt(heap', entry')
    BY <1>1, <1>3, AppendsRecordKept, ChangesInPlaceKept
  <2>2. entry' # Missing
    BY <2>1, NamesAssumption DEF UserAt
  <2> QED
    BY <1>2, <2>1, <2>2 DEF UserOrNone
<1>4. CASE heap' = heap /\ entry' = entry
  BY <1>2, <1>4 DEF Inv, Memory, Keeps, Touches, Touched
<1> QED
  BY <1>3, <1>4, HandlerWriteCases

LEMMA HandlerWriteInv == ASSUME Inv, HandlerWrite PROVE Inv'
<1>1. InMutex(Watcher) /\ pc[Watcher] = "hwrite" /\ job' = job
  BY DEF HandlerWrite, InMutex
<1>2. PICK l \in {"hsave", "idle"} :
         Goto(Watcher, l) /\ mu' = (IF l = "idle" THEN Missing ELSE mu)
  BY HandlerWriteCases
<1>3. Control'
  BY <1>1, <1>2, HandlerWriteKept, WatcherMoves DEF Inv, Control, WatcherAt, WatcherPcs
<1>4. Memory'
  <2>1. \A c \in Callers : UserOrNone(heap', copy'[c])
    BY HandlerWriteKept, UserKept DEF Inv, Memory, Threads
  <2> QED
    BY <2>1, HandlerWriteKept DEF Memory, UserOrNone, Threads
<1> QED
  BY <1>3, <1>4, CountersSame DEF Inv, HandlerWrite

LEMMA HandlerSaveInv == ASSUME Inv, HandlerSave PROVE Inv'
<1>1. InMutex(Watcher) /\ pc[Watcher] = "hsave"
  BY DEF HandlerSave, InMutex
<1>2. Control'
  BY <1>1, WatcherMoves DEF Inv, Control, WatcherAt, HandlerSave, WatcherPcs
<1>3. Counters'
  BY DEF Inv, Counters, HandlerSave
<1> QED
  BY <1>2, <1>3, MemorySame DEF Inv, HandlerSave

LEMMA NextInv == ASSUME Inv, [Next]_vars PROVE Inv'
<1>1. CASE UNCHANGED vars
  BY <1>1 DEF Inv, Control, CallerAt, WatcherAt, Mutex, InMutex, Counters, Memory, vars
<1>2. ASSUME NEW c \in Callers, Call(c) \/ Unlocked(c) \/ Locking(c) PROVE Inv'
  BY <1>2, CallInv, ReadInv, ModifyInv, WriteInv, FinishSaveInv, GetStateInv, StartSaveInv,
     LockPausedInv DEF Unlocked, Locking
<1>3. CASE Receive \/ Enter \/ Handler
  BY <1>3, ReceiveInv, EnterInv, HandlerReadInv, HandlerWriteInv, HandlerSaveInv DEF Handler
<1> QED
  BY <1>1, <1>2, <1>3 DEF Next

\* Where the calls, the watcher and the mutex are and what memory looks like, always.
THEOREM Invariance == Spec => []Inv
<1>1. Init => Inv
  BY InitInv
<1>2. Inv /\ [Next]_vars => Inv'
  BY NextInv
<1> QED
  BY <1>1, <1>2, PTL DEF Spec

\* Types hold, slices lie within their arrays, and the one thread between taking and
\* releasing Manager.mu holds it, for any number of calls and sessions.
THEOREM TypeCorrect == Spec => []TypeOK
<1>1. Inv => TypeOK
  <2> SUFFICES ASSUME Inv PROVE TypeOK
    OBVIOUS
  <2>1. heap \in Seq(Seq(Record \union Callers \union {Missing}))
    <3> DEFINE B == Seq(Record \union Callers \union {Missing})
    <3>1. \A s \in ArraysOf(Record) \union ArraysOf(Callers) : s \in B
      BY DEF ArraysOf
    <3> HIDE DEF B
    <3>2. heap \in Seq(B)
      BY <3>1 DEF Inv, Memory, Heaps
    <3> QED
      BY <3>2 DEF B
  <2>2. entry \in User \union {Missing}
    BY DEF Inv, Memory, UserOrNone, UserAt
  <2>3. ASSUME entry # Missing, NEW h \in {entry.sessions, entry.overrides}
        PROVE  h = Nil \/ (h.addr \in DOMAIN heap /\ h.len <= Len(heap[h.addr]))
    <3>1. SliceOf(Record, heap, h) \/ SliceOf(Callers, heap, h)
      BY <2>3 DEF Inv, Memory, UserOrNone, UserAt
    <3> QED
      BY <3>1 DEF SliceOf, Slice
  <2> QED
    BY <2>1, <2>2, <2>3
       DEF Inv, Control, CallerAt, CallerPcs, WatcherAt, WatcherPcs, Mutex, Counters, Memory,
           TypeOK
<1> QED
  BY <1>1, Invariance, PTL

-----------------------------------------------------------------------------
(* The file.                                                               *)

\* Memory and the file differ only while someone is about to save, or after a save
\* that failed.
FileInv ==
    \/ disk = View(heap, entry) \/ behind \/ pc[Watcher] = "hsave"
    \/ \E c \in Callers : pc[c] \in {"write", "save", "marshal"}

LEMMA FileNext == ASSUME Inv, Inv', FileInv, [Next]_vars PROVE FileInv'
<1> USE DEF FileInv
<1>1. /\ \A t \in Threads : pc[t] \in CallerPcs \union WatcherPcs
      /\ DOMAIN pc = Threads /\ Watcher \in Threads
      /\ \A c \in Callers : c \in Threads /\ c # Watcher
  BY NamesAssumption DEF Inv, Control, Threads
<1>2. CASE UNCHANGED vars
  BY <1>2 DEF vars
<1>3. ASSUME NEW c \in Callers, Call(c) \/ GetState(c) \/ Read(c) \/ LockPaused(c)
      PROVE  FileInv'
  <2>1. /\ UNCHANGED <<disk, heap, entry, behind>>
        /\ pc[c] \notin {"write", "save", "marshal"}
        /\ \A t \in Threads : t # c => pc'[t] = pc[t]
    BY <1>1, <1>3 DEF Call, GetState, Read, LockPaused, Goto
  <2> QED
    BY <1>1, <2>1
<1>4. ASSUME NEW c \in Callers, Modify(c) \/ Write(c) \/ StartSave(c)
      PROVE  FileInv'
  <2>1. pc'[c] \in {"write", "save", "marshal"}
    BY <1>1, <1>4 DEF Modify, Write, StartSave, Goto
  <2> QED
    BY <2>1
<1>5. ASSUME NEW c \in Callers, FinishSave(c) PROVE FileInv'
  BY <1>5 DEF FinishSave, View
<1>6. CASE Receive \/ Enter \/ HandlerRead
  <2>1. /\ UNCHANGED <<disk, heap, entry, behind>> /\ pc[Watcher] # "hsave"
        /\ \A c \in Callers : pc'[c] = pc[c]
    BY <1>1, <1>6 DEF Receive, Enter, HandlerRead, Goto
  <2> QED
    BY <1>1, <2>1
<1>7. CASE HandlerWrite
  <2>1. /\ UNCHANGED <<disk, behind>> /\ pc[Watcher] = "hwrite"
        /\ pc'[Watcher] = "hsave" \/ UNCHANGED <<heap, entry>>
        /\ \A c \in Callers : pc'[c] = pc[c]
    BY <1>1, <1>7 DEF HandlerWrite, Goto
  <2> QED
    BY <1>1, <2>1
<1>8. CASE HandlerSave
  BY <1>8 DEF HandlerSave, View
<1> QED
  BY <1>2, <1>3, <1>4, <1>5, <1>6, <1>7, <1>8 DEF Next, Unlocked, Locking, Handler

\* Once no one is at work the file holds what memory holds, unless the last save
\* failed: a method that wrote the user back always saves after it, and whoever saves
\* last saves what everyone wrote.
THEOREM FileFollows == Spec => []DiskCurrent
<1>1. Init => FileInv
  BY DEF Init, FileInv
<1>2. Inv /\ Inv' /\ FileInv /\ [Next]_vars => FileInv'
  BY FileNext
<1>3. FileInv => DiskCurrent
  BY DEF FileInv, DiskCurrent, Quiet, Settled, Returned
<1> QED
  BY <1>1, <1>2, <1>3, Invariance, PTL DEF Spec

-----------------------------------------------------------------------------
(* Overrides are granted once.                                             *)

OnceIn(s) == \A i, j \in DOMAIN s : s[i] \in Callers /\ s[i] = s[j] => i = j
NotIn(hp, c) == \A a \in DOMAIN hp : \A i \in DOMAIN hp[a] : hp[a][i] # c

\* The call has not appended its override yet.
Ungranted(c) == pc[c] \in {"idle", "getState", "read", "modify"}

NoRemoval == \A c \in Callers : pc[c] # "idle" => job[c] # "Remove"

\* While none is removed, no array holds an override twice, and none holds the
\* override of a call that is still to append it.
OnceInv ==
    NoRemoval => /\ \A a \in DOMAIN heap : OnceIn(heap[a])
                 /\ \A c \in Callers : Ungranted(c) => NotIn(heap, c)

LEMMA OnceAppended ==
    ASSUME NEW hp \in Heaps, NEW h, SliceOf(Callers, hp, h), NEW c \in Callers,
           \A a \in DOMAIN hp : OnceIn(hp[a]), NotIn(hp, c),
           NEW g, g = GoAppend(hp, h, c)
    PROVE  /\ \A a \in DOMAIN g.heap : OnceIn(g.heap[a])
           /\ \A d \in Callers : d # c /\ NotIn(hp, d) => NotIn(g.heap, d)
<1>1. Callers \in Kinds /\ Missing \notin Callers
  BY NoneOfAKind DEF Kinds
<1>2. CASE InPlace(Callers, hp, h, c, g)
  <2> USE DEF InPlace
  <2> DEFINE s == [hp[h.addr] EXCEPT ![h.len + 1] = c]
  <2>1. DOMAIN s = DOMAIN hp[h.addr] /\ DOMAIN s = 1 .. Len(hp[h.addr])
    BY <1>2, HeapArray
  <2>2. s[h.len + 1] = c /\ \A i \in DOMAIN s : i # h.len + 1 => s[i] = hp[h.addr][i]
    BY <1>2, <2>1
  <2>3. /\ g.heap = [hp EXCEPT ![h.addr] = s] /\ DOMAIN g.heap = DOMAIN hp
        /\ g.heap[h.addr] = s /\ \A a \in DOMAIN hp : a # h.addr => g.heap[a] = hp[a]
    BY <1>2 DEF Heaps
  <2> HIDE DEF s
  <2>4. OnceIn(s)
    BY <1>2, <2>1, <2>2 DEF OnceIn, NotIn
  <2> QED
    BY <1>2, <2>1, <2>2, <2>3, <2>4 DEF NotIn
<1>3. CASE \E s \in ArraysOf(Callers) : CopiedTo(s, Callers, hp, h, c, g)
  <2>0. PICK s \in ArraysOf(Callers) : CopiedTo(s, Callers, hp, h, c, g)
    BY <1>3
  <2> USE DEF CopiedTo
  <2>1. /\ DOMAIN g.heap = 1 .. Len(hp) + 1 /\ DOMAIN hp = 1 .. Len(hp) /\ Len(hp) \in Nat
        /\ g.heap[Len(hp) + 1] = s /\ \A a \in DOMAIN hp : g.heap[a] = hp[a]
    BY <2>0 DEF Heaps
  <2>2. Len(s) \in Nat /\ DOMAIN s = 1 .. Len(s)
    BY DEF ArraysOf
  <2>3. \A i \in DOMAIN s : \/ i \in 1 .. h.len
                           \/ i = h.len + 1
                           \/ i \in h.len + 2 .. Len(s)
    BY <2>0, <2>2
  <2>4. \A i \in 1 .. h.len : s[i] # c
    BY <2>0 DEF NotIn
  <2>5. OnceIn(s)
    <3> SUFFICES ASSUME NEW i \in DOMAIN s, NEW j \in DOMAIN s,
                        s[i] \in Callers, s[i] = s[j]
                 PROVE  i = j
      BY DEF OnceIn
    <3>1. i \in 1 .. h.len + 1 /\ j \in 1 .. h.len + 1
      BY <1>1, <2>0, <2>2, <2>3
    <3>2. CASE i = h.len + 1 \/ j = h.len + 1
      BY <2>0, <2>4, <3>1, <3>2
    <3>3. CASE i \in 1 .. h.len /\ j \in 1 .. h.len
      BY <2>0, <3>3 DEF OnceIn
    <3> QED
      BY <2>0, <3>1, <3>2, <3>3
  <2>6. ASSUME NEW d \in Callers, d # c, NotIn(hp, d) PROVE \A i \in DOMAIN s : s[i] # d
    BY <1>1, <2>0, <2>3, <2>6 DEF NotIn
  <2> QED
    BY <2>1, <2>5, <2>6 DEF NotIn
<1>4. \/ InPlace(Callers, hp, h, c, g)
      \/ \E s \in ArraysOf(Callers) : CopiedTo(s, Callers, hp, h, c, g)
  BY <1>1, AppendCases
<1> QED
  BY <1>2, <1>3, <1>4

\* Arrays of records hold no override at all.
LEMMA OnceTouched ==
    ASSUME NEW hp, NEW hp2, Touches(Record, hp, hp2)
    PROVE  /\ (\A a \in DOMAIN hp : OnceIn(hp[a])) => \A a \in DOMAIN hp2 : OnceIn(hp2[a])
           /\ \A c \in Callers : NotIn(hp, c) => NotIn(hp2, c)
<1>1. ASSUME NEW s \in ArraysOf(Record) PROVE \A i \in DOMAIN s : s[i] \notin Callers
  <2>1. \A i \in DOMAIN s : s[i] \in Record \union {Missing}
    BY DEF ArraysOf
  <2> QED
    BY <2>1, NamesAssumption DEF Threads
<1> QED
  BY <1>1 DEF Touches, Touched, OnceIn, NotIn

LEMMA OnceNext == ASSUME Inv, Inv', OnceInv, [Next]_vars PROVE OnceInv'
<1> SUFFICES ASSUME NoRemoval'
             PROVE  /\ \A a \in DOMAIN heap' : OnceIn(heap'[a])
                    /\ \A c \in Callers : Ungranted(c)' => NotIn(heap', c)
  BY DEF OnceInv, Ungranted, OnceIn, NotIn
<1>1. /\ pc \in [Threads -> CallerPcs \union WatcherPcs] /\ DOMAIN pc = Threads
      /\ Watcher \in Threads /\ \A c \in Callers : c \in Threads /\ c # Watcher
      /\ DOMAIN job = Threads
  BY NamesAssumption DEF Inv, Control, Threads
<1>2. /\ \A c \in Callers : Ungranted(c)' => Ungranted(c)
      /\ \A c \in Callers : pc[c] # "idle" => pc'[c] # "idle" /\ job'[c] = job[c]
  <2>1. CASE UNCHANGED vars
    BY <2>1 DEF vars, Ungranted
  <2>2. ASSUME NEW c \in Callers, Call(c) PROVE <1>2!1 /\ <1>2!2
    BY <1>1, <2>2 DEF Call, Goto, Ungranted
  <2>3. ASSUME NEW c \in Callers, Unlocked(c) \/ Locking(c) PROVE <1>2!1 /\ <1>2!2
    BY <1>1, <2>3 DEF Unlocked, Locking, Read, Modify, Write, FinishSave, GetState,
                     StartSave, LockPaused, Goto, Ungranted
  <2>4. CASE Receive \/ Enter \/ Handler
    BY <1>1, <2>4 DEF Receive, Enter, Handler, HandlerRead, HandlerWrite, HandlerSave,
                      Goto, Ungranted
  <2> QED
    BY <2>1, <2>2, <2>3, <2>4 DEF Next
<1>3. /\ \A a \in DOMAIN heap : OnceIn(heap[a])
      /\ \A c \in Callers : Ungranted(c) => NotIn(heap, c)
  BY <1>2 DEF OnceInv, NoRemoval
<1>4. CASE heap' = heap
  BY <1>2, <1>3, <1>4
<1>5. CASE Touches(Record, heap, heap')
  BY <1>2, <1>3, <1>5, OnceTouched
<1>6. ASSUME NEW c \in Callers, Modify(c)
      PROVE  /\ \A a \in DOMAIN heap' : OnceIn(heap'[a])
             /\ \A d \in Callers : Ungranted(d)' => NotIn(heap', d)
  <2>1. job[c] # "Remove"
    BY <1>2, <1>6 DEF Modify, NoRemoval
  <2>2. CASE SetPaused(c)
    BY <1>4, <2>2 DEF SetPaused
  <2>3. CASE SetOverrides(c, GoAppend(heap, copy[c].overrides, c))
    <3> DEFINE g == GoAppend(heap, copy[c].overrides, c)
    <3>1. copy[c] # Missing /\ heap \in Heaps
      BY <1>6 DEF Inv, Control, CallerAt, Memory, Modify
    <3>2. SliceOf(Callers, heap, copy[c].overrides)
      BY <1>1, <3>1 DEF Inv, Memory, UserOrNone, UserAt
    <3>3. NotIn(heap, c)
      BY <1>3, <1>6 DEF Modify, Ungranted
    <3>4. heap' = g.heap
      BY <2>3 DEF SetOverrides
    <3>5. /\ \A a \in DOMAIN g.heap : OnceIn(g.heap[a])
          /\ \A d \in Callers : d # c /\ NotIn(heap, d) => NotIn(g.heap, d)
      BY <1>3, <3>1, <3>2, <3>3, OnceAppended
    <3>6. ~ Ungranted(c)'
      BY <1>1, <1>6 DEF Modify, Goto, Ungranted
    <3> HIDE DEF g
    <3> QED
      BY <1>2, <1>3, <3>4, <3>5, <3>6
  <2> QED
    BY <1>6, <2>1, <2>2, <2>3 DEF Modify
<1>7. CASE HandlerWrite
  BY <1>5, <1>7, HandlerWriteKept
<1>8. heap' = heap \/ (\E c \in Callers : Modify(c)) \/ HandlerWrite
  <2>1. CASE UNCHANGED vars
    BY <2>1 DEF vars
  <2>2. ASSUME NEW c \in Callers, Call(c) \/ Unlocked(c) \/ Locking(c), ~ Modify(c)
        PROVE  heap' = heap
    BY <2>2 DEF Unlocked, Locking, Call, Read, Write, FinishSave, GetState, StartSave,
                LockPaused
  <2>3. CASE Receive \/ Enter \/ HandlerRead \/ HandlerSave
    BY <2>3 DEF Receive, Enter, HandlerRead, HandlerSave
  <2> QED
    BY <2>1, <2>2, <2>3 DEF Next, Handler
<1> QED
  BY <1>4, <1>6, <1>7, <1>8

\* As long as no override is removed none is in force twice once no one is at work,
\* although methods copy the list, append to the copy and write it back over one
\* another's: the arrays they share never hold an override twice.
THEOREM GrantsStaySingle == Spec => []GrantedOnce
<1>1. Init => OnceInv
  <2> SUFFICES ASSUME Init PROVE OnceInv
    OBVIOUS
  <2>1. heap \in Heaps
    BY InitInv DEF Inv, Memory
  <2>2. Touches(Record, <<>>, heap)
    <3>1. CASE heap = <<>>
      BY <3>1 DEF Touches
    <3>2. ASSUME NEW id \in Ids, heap = << <<[id |-> id, status |-> "running"]>> >>
          PROVE  Touches(Record, <<>>, heap)
      <4> DEFINE r == [id |-> id, status |-> "running"]
      <4>1. r \in Record /\ heap = << <<r>> >>
        BY <3>2 DEF Record
      <4> HIDE DEF r
      <4>2. <<r>> \in ArraysOf(Record)
        BY <4>1 DEF ArraysOf
      <4> QED
        BY <4>1, <4>2 DEF Touches, Touched
    <3> QED
      BY <3>1, <3>2 DEF Init
  <2>3. (\A a \in DOMAIN <<>> : OnceIn(<<>>[a])) /\ \A c \in Callers : NotIn(<<>>, c)
    BY DEF NotIn
  <2> QED
    BY <2>2, <2>3, OnceTouched DEF OnceInv
<1>2. Inv /\ Inv' /\ OnceInv /\ [Next]_vars => OnceInv'
  BY OnceNext
<1>3. Inv /\ OnceInv => GrantedOnce
  <2> SUFFICES ASSUME Inv, OnceInv, \A c \in Callers : job[c] # "Remove", entry # Missing
               PROVE  IsInjective(Elements(heap, entry.overrides))
    BY DEF GrantedOnce, GrantedAtMostOnce
  <2> DEFINE h == entry.overrides
  <2>1. SliceOf(Callers, heap, h)
    BY DEF Inv, Memory, UserOrNone, UserAt
  <2>2. CASE h = Nil
    BY <2>2 DEF Nil, Elements, IsInjective
  <2>3. CASE h # Nil
    <3>1. /\ h.addr \in DOMAIN heap /\ \A i \in 1 .. h.len : heap[h.addr][i] \in Callers
          /\ h.len \in 0 .. Len(heap[h.addr])
      BY <2>1, <2>3 DEF SliceOf
    <3>2. OnceIn(heap[h.addr])
      BY <3>1 DEF OnceInv, NoRemoval
    <3>3. heap \in Heaps
      BY DEF Inv, Memory
    <3>4. DOMAIN heap[h.addr] = 1 .. Len(heap[h.addr]) /\ Len(heap[h.addr]) \in Nat
      BY <3>1, <3>3, HeapArray
    <3> HIDE DEF h
    <3> QED
      BY <3>1, <3>2, <3>4 DEF OnceIn, Elements, IsInjective, h
  <2> QED
    BY <2>2, <2>3
<1> QED
  BY <1>1, <1>2, <1>3, Invariance, PTL DEF Spec

-----------------------------------------------------------------------------
(* A session that was open before the first call and then ended.          *)

First == [addr |-> 1, len |-> 1]

\* No other session ever logs in.
Alone == \A id \in Ids \ early : logind[id] = "new"

LogoutPending ==
    pc[Watcher] \in {"enter", "hread", "hwrite"} /\ job[Watcher].name = "Logout"

\* Every slice of records is the one made before the first call, so all Users, however
\* stale, share the one record of the session e.
OneRecord(e) ==
    /\ entry # Missing /\ entry.sessions = First
    /\ \A t \in Threads : copy[t] # Missing => copy[t].sessions = First
    /\ 1 \in DOMAIN heap /\ heap[1] \in ArraysOf(Record) /\ Len(heap[1]) = 1
    /\ heap[1][1].id = e
    /\ pc[Watcher] # "idle" /\ job[Watcher].name # "Sleep" => job[Watcher].id = e
    /\ logind[e] = "gone" /\ ~ LogoutPending => heap[1][1].status = "ended"

EarlyInv ==
    \A e \in early : /\ early = {e} /\ logind[e] \in {"open", "gone"}
                     /\ Alone => OneRecord(e)

LEMMA FirstFound ==
    ASSUME NEW e, OneRecord(e), NEW usr, usr.sessions = First
    PROVE  Found(usr, e) = {1} /\ heap[1][1] \in Record
<1>1. heap[1][1] \in Record
  BY DEF OneRecord, ArraysOf
<1>2. usr.sessions.addr = 1 /\ usr.sessions.len = 1
  BY DEF First
<1> QED
  BY <1>1, <1>2 DEF OneRecord, Found

\* Steps that leave the records and what logind said alone.
LEMMA OneRecordKept ==
    ASSUME NEW e, OneRecord(e), UNCHANGED logind,
           1 \in DOMAIN heap' /\ heap'[1] = heap[1],
           entry' = entry \/ (entry' # Missing /\ entry'.sessions = First),
           \A t \in Threads : \/ copy'[t] = copy[t] \/ copy'[t] = Missing
                             \/ copy'[t].sessions = First,
           pc'[Watcher] # "idle" => pc[Watcher] # "idle",
           job'[Watcher] = job[Watcher],
           LogoutPending' \/ ~ LogoutPending \/ heap[1][1].status = "ended"
    PROVE  OneRecord(e)'
BY DEF OneRecord

LEMMA OneRecordCaller ==
    ASSUME Inv, NEW e, OneRecord(e),
           NEW c \in Callers, Call(c) \/ Unlocked(c) \/ Locking(c)
    PROVE  OneRecord(e)'
<1>1. /\ DOMAIN pc = Threads /\ DOMAIN job = Threads /\ DOMAIN copy = Threads
      /\ Watcher \in Threads /\ c \in Threads /\ c # Watcher
  BY NamesAssumption DEF Inv, Control, Memory, Threads
<1>2. /\ UNCHANGED logind /\ pc'[Watcher] = pc[Watcher] /\ job'[Watcher] = job[Watcher]
  BY <1>1 DEF Call, Unlocked, Locking, Read, Modify, Write, FinishSave, GetState, StartSave,
              LockPaused, Goto
<1>3. LogoutPending' <=> LogoutPending
  BY <1>2 DEF LogoutPending
<1>4. CASE UNCHANGED <<heap, entry, copy>>
  BY <1>2, <1>3, <1>4, OneRecordKept DEF OneRecord
<1>5. CASE Read(c)
  <2>1. UNCHANGED <<heap, entry>>
    BY <1>5 DEF Read
  <2>2. copy' = copy \/ copy' = [copy EXCEPT ![c] = entry]
    BY <1>5 DEF Read, OneRecord
  <2>3. \A t \in Threads : copy'[t] = copy[t] \/ copy'[t].sessions = First
    BY <1>1, <2>2 DEF OneRecord
  <2> QED
    BY <1>2, <1>3, <2>1, <2>3, OneRecordKept DEF OneRecord
<1>6. CASE Modify(c)
  <2>1. copy[c].sessions = First
    BY <1>1, <1>6 DEF OneRecord, Inv, Control, CallerAt, Modify
  <2>2. \A t \in Threads : copy'[t] = copy[t] \/ copy'[t].sessions = First
    BY <1>6, <2>1, ModifyKept
  <2>3. Touches(Callers, heap, heap') /\ heap[1] \in ArraysOf(Record) /\ 1 \in DOMAIN heap
    BY <1>6, ModifyKept DEF OneRecord
  <2>4. heap[1] \notin ArraysOf(Callers)
    BY <2>3, NamesAssumption DEF ArraysOf
  <2>5. 1 \in DOMAIN heap' /\ heap'[1] = heap[1]
    BY <2>3, <2>4 DEF Touches, Touched
  <2>6. entry' = entry
    BY <1>6 DEF Modify
  <2> QED
    BY <1>2, <1>3, <2>2, <2>5, <2>6, OneRecordKept
<1>7. CASE Write(c)
  <2>1. copy[c] # Missing /\ copy[c].sessions = First
    BY <1>1, <1>7 DEF OneRecord, Inv, Control, CallerAt, Write
  <2>2. entry' = copy[c] /\ UNCHANGED <<heap, copy>>
    BY <1>7 DEF Write
  <2> QED
    BY <1>2, <1>3, <2>1, <2>2, OneRecordKept DEF OneRecord
<1>8. CASE FinishSave(c)
  <2>1. UNCHANGED <<heap, entry>> /\ \A t \in Threads : copy'[t] = copy[t] \/ copy'[t] = Missing
    BY <1>1, <1>8 DEF FinishSave
  <2> QED
    BY <1>2, <1>3, <2>1, OneRecordKept DEF OneRecord
<1>9. CASE Call(c) \/ Locking(c)
  BY <1>4, <1>9 DEF Call, Locking, GetState, StartSave, LockPaused
<1> QED
  BY <1>5, <1>6, <1>7, <1>8, <1>9 DEF Unlocked

\* What the watcher receives is about the session e, and its logout is now pending.
LEMMA OneRecordReceive ==
    ASSUME Inv, NEW e \in Ids, early = {e}, logind[e] \in {"open", "gone"}, Alone, Alone',
           OneRecord(e), Receive
    PROVE  OneRecord(e)'
<1>1. DOMAIN job = Threads /\ DOMAIN pc = Threads /\ Watcher \in Threads /\ DOMAIN logind = Ids
  BY DEF Inv, Control, Counters, Threads
<1>2. /\ pc[Watcher] = "idle" /\ pc'[Watcher] = "enter"
      /\ UNCHANGED <<heap, entry, copy, early>>
  BY <1>1 DEF Receive, Goto
<1>3. PICK name \in Events, id \in Ids :
         /\ name = "Login" => logind[id] # "gone"
         /\ name \in {"Logout", "Lock", "Unlock"} => logind[id] = "open"
         /\ job' = [job EXCEPT ![Watcher] = [name |-> name, id |-> id]]
         /\ logind' = CASE name = "Login" -> [logind EXCEPT ![id] = "open"]
                        [] name = "Logout" -> [logind EXCEPT ![id] = "gone"]
                        [] OTHER -> logind
  BY DEF Receive
<1>4. name \in {"Login", "Logout", "Lock", "Unlock", "Sleep"}
  BY CallsAssumption
<1>5. job'[Watcher].name = name /\ job'[Watcher].id = id
  BY <1>1, <1>3
<1>6. CASE name = "Login"
  <2>1. logind' = [logind EXCEPT ![id] = "open"]
    BY <1>3, <1>6
  <2>2. id = e
    BY <1>1, <1>2, <2>1 DEF Alone
  <2> QED
    BY <1>1, <1>2, <1>5, <2>1, <2>2 DEF OneRecord
<1>7. CASE name = "Logout"
  <2>1. logind[id] = "open"
    BY <1>3, <1>7
  <2>2. id = e
    BY <2>1 DEF Alone
  <2> QED
    BY <1>2, <1>5, <1>7, <2>2 DEF OneRecord, LogoutPending
<1>8. CASE name \notin {"Login", "Logout"}
  <2>1. logind' = logind
    BY <1>3, <1>8
  <2>2. name # "Sleep" => id = e
    BY <1>3, <1>4, <1>8 DEF Alone
  <2> QED
    BY <1>2, <1>5, <2>1, <2>2 DEF OneRecord, LogoutPending
<1> QED
  BY <1>6, <1>7, <1>8

LEMMA OneRecordHandlerRead ==
    ASSUME Inv, NEW e, OneRecord(e), HandlerRead
    PROVE  OneRecord(e)'
<1>1. UNCHANGED <<heap, entry, logind, job>> /\ pc[Watcher] = "hread"
  BY DEF HandlerRead
<1>2. entry # Missing /\ entry.sessions = First /\ Found(entry, e) = {1}
  BY FirstFound DEF OneRecord
<1>3. \A t \in Threads : \/ copy'[t] = copy[t] \/ copy'[t] = Missing
                         \/ copy'[t].sessions = First
  BY <1>2, HandlerReadCases DEF Threads
<1>4. ASSUME job[Watcher].name = "Logout" PROVE Goto(Watcher, "hwrite")
  <2>1. job[Watcher].id = e
    BY <1>1, <1>4 DEF OneRecord
  <2> QED
    BY <1>2, <2>1, HandlerReadCases
<1>5. LogoutPending => LogoutPending'
  BY <1>1, <1>4 DEF LogoutPending, Goto, Inv, Control, Threads
<1> QED
  BY <1>1, <1>3, <1>5, OneRecordKept DEF OneRecord

LEMMA OneRecordHandlerWrite ==
    ASSUME Inv, NEW e, OneRecord(e), HandlerWrite
    PROVE  OneRecord(e)'
<1> DEFINE usr == copy[Watcher]
           name == job[Watcher].name
<1>1. /\ UNCHANGED <<logind, job>> /\ pc[Watcher] = "hwrite" /\ job[Watcher] \in Signal
      /\ usr # Missing /\ name \in Events
  BY DEF HandlerWrite, Inv, Control, WatcherAt, Signal
<1>2. usr.sessions = First /\ Found(usr, e) = {1} /\ heap[1][1] \in Record
  BY <1>1, FirstFound DEF OneRecord, Threads
<1>3. name # "Sleep" => job[Watcher].id = e
  BY <1>1 DEF OneRecord
<1>4. \A t \in Threads : copy'[t] = copy[t] \/ copy'[t] = Missing
  BY HandlerWriteKept DEF Threads
<1>5. LogoutPending <=> name = "Logout"
  BY <1>1 DEF LogoutPending
<1>6. ~ AppendsRecord
  BY <1>2, <1>3 DEF AppendsRecord
<1>7. CASE heap' = heap /\ entry' = entry /\ name = "Login"
  BY <1>1, <1>4, <1>5, <1>7, OneRecordKept DEF OneRecord
<1>8. CASE ChangesInPlace
  <2>1. PICK which \in SUBSET (1 .. usr.sessions.len) :
           ChangeRecords(which) /\ (name # "Sleep" => which = Found(usr, job[Watcher].id))
    BY <1>8 DEF ChangesInPlace
  <2>2. heap' = [heap EXCEPT ![1] = [i \in DOMAIN @ |->
                       IF i \in which THEN After(name, @[i]) ELSE @[i]]]
    BY <1>2, <2>1 DEF ChangeRecords, First
  <2>3. 1 \in DOMAIN heap /\ DOMAIN heap[1] = {1} /\ heap \in Heaps /\ Len(heap[1]) = 1
    BY HeapArray DEF OneRecord, Inv, Memory
  <2>4. /\ 1 \in DOMAIN heap' /\ DOMAIN heap'[1] = {1}
        /\ heap'[1][1] = (IF 1 \in which THEN After(name, heap[1][1]) ELSE heap[1][1])
    BY <2>2, <2>3 DEF Heaps
  <2>5. /\ heap'[1][1] \in Record /\ heap'[1][1].id = heap[1][1].id
        /\ heap[1][1].status = "ended" => heap'[1][1].status = "ended"
        /\ name = "Logout" => heap'[1][1].status = "ended"
    BY <1>1, <1>2, <1>3, <2>1, <2>4, RecordAfter
  <2>6. heap'[1] \in ArraysOf(Record) /\ Len(heap'[1]) = 1
    <3>1. heap' \in Heaps
      BY HandlerWriteKept
    <3>2. heap'[1] \in ArraysOf(Record) \union ArraysOf(Callers) /\ Len(heap'[1]) \in Nat
          /\ DOMAIN heap'[1] = 1 .. Len(heap'[1])
      BY <2>4, <3>1, HeapArray
    <3>3. heap'[1] \notin ArraysOf(Callers)
      BY <2>5, NamesAssumption DEF ArraysOf
    <3> QED
      BY <2>4, <3>2, <3>3
  <2>7. entry' = usr
    BY <2>1 DEF ChangeRecords
  <2>8. heap[1][1].id = e
        /\ (logind[e] = "gone" /\ name # "Logout" => heap[1][1].status = "ended")
    BY <1>5 DEF OneRecord
  <2>9. heap'[1][1].id = e /\ (logind[e] = "gone" => heap'[1][1].status = "ended")
    BY <2>5, <2>8
  <2>10. \A t \in Threads : copy'[t] # Missing => copy'[t].sessions = First
    BY <1>4 DEF OneRecord
  <2> QED
    BY <1>1, <1>2, <1>3, <2>4, <2>6, <2>7, <2>9, <2>10 DEF OneRecord
<1> QED
  BY <1>6, <1>7, <1>8, HandlerWriteCases

LEMMA EarlySame == ASSUME [Next]_vars PROVE early' = early
BY DEF vars, Next, Call, Unlocked, Locking, Read, Modify, Write, FinishSave, GetState,
       StartSave, LockPaused, Receive, Enter, Handler, HandlerRead, HandlerWrite, HandlerSave

LEMMA EarlyNext == ASSUME Inv, EarlyInv, [Next]_vars PROVE EarlyInv'
<1> SUFFICES ASSUME NEW e \in early
             PROVE  early = {e} /\ logind'[e] \in {"open", "gone"} /\ (Alone' => OneRecord(e)')
  BY EarlySame DEF EarlyInv
<1>1. early = {e} /\ logind[e] \in {"open", "gone"} /\ e \in Ids /\ early' = early
      /\ DOMAIN logind = Ids
  BY EarlySame DEF EarlyInv, Inv, Counters
<1>2. CASE Receive
  <2>1. \A id \in Ids : \/ logind'[id] = logind[id]
                        \/ logind'[id] \in {"open", "gone"}
    BY <1>1, <1>2, CallsAssumption DEF Receive
  <2>2. Alone' => Alone
    BY <1>1, <2>1 DEF Alone
  <2>3. Alone => OneRecord(e)
    BY DEF EarlyInv
  <2> QED
    BY <1>1, <1>2, <2>1, <2>2, <2>3, OneRecordReceive
<1>3. ASSUME logind' = logind, OneRecord(e) => OneRecord(e)'
      PROVE  logind'[e] \in {"open", "gone"} /\ (Alone' => OneRecord(e)')
  BY <1>1, <1>3 DEF EarlyInv, Alone
<1>4. CASE UNCHANGED vars
  <2>1. OneRecord(e) => OneRecord(e)'
    BY <1>4 DEF vars, OneRecord, LogoutPending
  <2> QED
    BY <1>1, <1>3, <1>4, <2>1 DEF vars
<1>5. ASSUME NEW c \in Callers, Call(c) \/ Unlocked(c) \/ Locking(c)
      PROVE  logind'[e] \in {"open", "gone"} /\ (Alone' => OneRecord(e)')
  <2>1. logind' = logind
    BY <1>5 DEF Call, Unlocked, Locking, Read, Modify, Write, FinishSave, GetState,
                StartSave, LockPaused
  <2> QED
    BY <1>3, <1>5, <2>1, OneRecordCaller
<1>6. CASE Enter
  <2>1. /\ UNCHANGED <<heap, entry, copy, job, logind>>
        /\ pc[Watcher] = "enter" /\ pc'[Watcher] = "hread"
    BY <1>6 DEF Enter, Goto, Inv, Control, Threads
  <2>2. OneRecord(e) => OneRecord(e)'
    BY <2>1, OneRecordKept DEF OneRecord, LogoutPending
  <2> QED
    BY <1>1, <1>3, <2>1, <2>2
<1>7. CASE HandlerRead
  BY <1>1, <1>3, <1>7, OneRecordHandlerRead DEF HandlerRead
<1>8. CASE HandlerWrite
  BY <1>1, <1>3, <1>8, OneRecordHandlerWrite DEF HandlerWrite
<1>9. CASE HandlerSave
  <2>1. /\ UNCHANGED <<heap, entry, copy, job, logind>>
        /\ pc[Watcher] = "hsave" /\ pc'[Watcher] = "idle"
    BY <1>9 DEF HandlerSave, Goto, Inv, Control, Threads
  <2>2. OneRecord(e) => OneRecord(e)'
    BY <2>1, OneRecordKept DEF OneRecord, LogoutPending
  <2> QED
    BY <1>1, <1>3, <2>1, <2>2
<1> QED
  BY <1>1, <1>2, <1>4, <1>5, <1>6, <1>7, <1>8, <1>9 DEF Next, Handler

LEMMA EarlyInit == Init => EarlyInv
<1> SUFFICES ASSUME Init, NEW e \in early
             PROVE  /\ early = {e} /\ logind[e] \in {"open", "gone"}
                    /\ Alone => OneRecord(e)
  BY DEF EarlyInv
<1> DEFINE r == [id |-> e, status |-> "running"]
<1>1. /\ heap = << <<r>> >> /\ logind = [i \in Ids |-> IF i = e THEN "open" ELSE "new"]
      /\ entry = [NewUser EXCEPT !.sessions = First] /\ e \in Ids /\ early = {e}
  BY DEF Init, First
<1>2. r \in Record /\ r.id = e
  BY <1>1 DEF Record
<1> HIDE DEF r
<1>3. 1 \in DOMAIN heap /\ heap[1] \in ArraysOf(Record) /\ Len(heap[1]) = 1
      /\ heap[1][1].id = e
  BY <1>1, <1>2 DEF ArraysOf
<1>4. entry # Missing /\ entry.sessions = First
  <2>1. entry = [sessions |-> First, overrides |-> Nil, paused |-> FALSE]
    BY <1>1 DEF NewUser
  <2>2. entry \in User
    BY <2>1 DEF First, Nil, Slice, User
  <2> QED
    BY <2>1, <2>2, NamesAssumption
<1>5. /\ \A t \in Threads : copy[t] = Missing
      /\ pc[Watcher] = "idle"
  BY DEF Init, Threads
<1>6. logind[e] = "open"
  BY <1>1
<1> QED
  BY <1>1, <1>3, <1>4, <1>5, <1>6 DEF OneRecord

\* Unless another session logs in, a session that was open before the first call stays
\* ended once its logout was handled, however stale the User a method writes back.
THEOREM EndedStayEnded == Spec => []NoneRevived
<1>1. Init => EarlyInv
  BY EarlyInit
<1>2. Inv /\ EarlyInv /\ [Next]_vars => EarlyInv'
  BY EarlyNext
<1>3. Inv /\ EarlyInv => NoneRevived
  <2> SUFFICES ASSUME Inv, EarlyInv, Settled, Alone,
                      NEW e \in ActiveIds(entry) \intersect early
               PROVE  e \in OpenIds
    BY DEF NoneRevived, Alone
  <2>1. logind[e] \in {"open", "gone"} /\ OneRecord(e) /\ e \in Ids
    BY DEF EarlyInv, Inv, Counters
  <2>2. Elements(heap, entry.sessions) = [i \in 1 .. 1 |-> heap[1][i]]
    BY <2>1 DEF OneRecord, First, Elements
  <2>3. Recorded(entry) = {heap[1][1]}
    BY <2>1, <2>2 DEF OneRecord, Recorded, Range
  <2>4. heap[1][1].status # "ended"
    BY <2>3 DEF ActiveIds
  <2>5. ~ LogoutPending
    BY DEF Settled, LogoutPending
  <2> QED
    BY <2>1, <2>4, <2>5 DEF OneRecord, OpenIds
<1> QED
  BY <1>1, <1>2, <1>3, Invariance, PTL DEF Spec

=============================================================================
