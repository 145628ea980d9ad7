--------------------------- MODULE Console_proofs ---------------------------
(***************************************************************************)
(* Theorems about Console, for any administrators, users and overrides.    *)
(***************************************************************************)
EXTENDS Console, SequenceTheorems, TLAPS

Has(list, k) == \E i \in DOMAIN list : list[i] = k

\* What a copy of a user is, taken now.
Image(u) == IF Known(u) THEN users[u] ELSE NewUser

\* How calls, copies and promises belong together.
Owned(a) ==
    /\ at[a] \in {"copied", "changed"} => holds[a] = call[a].user
    /\ at[a] = "copied" /\ call[a].op = "Remove" =>
         Known(call[a].user) /\ call[a].arg \in DOMAIN copy[a].overrides
    /\ \A u \in UserNames :
         /\ pause[u] = a => /\ at[a] = "written" /\ call[a].user = u
                            /\ call[a].op \in {"Pause", "Resume"}
         /\ \A k \in Keys : promised[u][k] = a =>
              /\ at[a] # "idle" /\ call[a].user = u
              /\ \/ call[a].op = "Add" /\ call[a].arg = k
                 \/ call[a].op = "Remove" /\ at[a] \in {"changed", "written"}

Alone(u) == \A s, t \in Threads : holds[s] = u /\ holds[t] = u => s = t

\* What the copy of u that t has is to the u in memory.
Paused(t, u) ==
    /\ call[t].op \in {"Pause", "Resume"} /\ copy[t].overrides = OverridesOf(u)
    /\ copy[t].paused = (call[t].op = "Pause")
Added(t, u) ==
    /\ call[t].op = "Add" /\ copy[t].overrides = Append(OverridesOf(u), call[t].arg)
    /\ copy[t].paused = Image(u).paused
Removed(t, u) ==
    /\ call[t].op = "Remove" /\ Known(u) /\ copy[t].paused = users[u].paused
    /\ IsInjective(copy[t].overrides)
    /\ \A k \in Keys :
         /\ Has(copy[t].overrides, k) => Has(OverridesOf(u), k) /\ promised[u][k] # t
         /\ Has(OverridesOf(u), k) => Has(copy[t].overrides, k) \/ promised[u][k] = t
Copied(t, u) ==
    /\ t = Watcher \/ at[t] = "copied" => copy[t] = Image(u)
    /\ at[t] = "changed" => Paused(t, u) \/ Added(t, u) \/ Removed(t, u)

\* An override that is being added is in no list yet.
Adding(a, u) ==
    at[a] \in {"copied", "changed"} /\ call[a].op = "Add" /\ call[a].user = u =>
        promised[u][call[a].arg] = a /\ ~ Has(OverridesOf(u), call[a].arg)

\* What a call would answer holds, once it has written.
Answered(a, u) ==
    /\ at[a] = "written" =>
         \A k \in Keys : promised[u][k] = a =>
             (Has(OverridesOf(u), k) <=> call[a].op = "Add")
    /\ pause[u] = a => Known(u) /\ users[u].paused = (call[a].op = "Pause")

Claims(u) ==
    /\ Upholds(users, u) /\ (u \in Torn \/ IsInjective(OverridesOf(u)))
    /\ Upholds(disk, u) /\ IsInjective(OverridesIn(disk, u))

Listings(u) ==
    \A a \in Admins : <<a, u>> \notin outdated => IsPrefix(view[a][u], OverridesOf(u))

\* What is so of a user whose copies never overlapped.
Clean(u) ==
    /\ Alone(u)
    /\ \A t \in Threads : holds[t] = u => Copied(t, u)
    /\ \A a \in Admins : Adding(a, u) /\ Answered(a, u)
    /\ Claims(u) /\ Listings(u)

ConsoleInv ==
    /\ ConsoleTypeOK
    /\ \A a \in Admins : Owned(a)
    /\ \A u \in UserNames \ raced : Clean(u)

-----------------------------------------------------------------------------
(* Lists.                                                                  *)

\* Where the elements of a sequence are after one was removed.
LEMMA RemoveAtElements ==
    ASSUME NEW S, NEW s \in Seq(S), NEW i \in 1 .. Len(s)
    PROVE  /\ RemoveAt(s, i) \in Seq(S)
           /\ Len(RemoveAt(s, i)) = Len(s) - 1
           /\ \A j \in 1 .. Len(s) - 1 :
                RemoveAt(s, i)[j] = IF j < i THEN s[j] ELSE s[j + 1]
<1> DEFINE a == SubSeq(s, 1, i - 1)
           b == SubSeq(s, i + 1, Len(s))
<1>1. a \in Seq(S) /\ Len(a) = i - 1 /\ \A j \in 1 .. i - 1 : a[j] = s[j]
  OBVIOUS
<1>2. b \in Seq(S) /\ Len(b) = Len(s) - i /\ \A j \in 1 .. Len(s) - i : b[j] = s[i + j]
  OBVIOUS
<1>3. RemoveAt(s, i) = a \o b
  BY DEF RemoveAt
<1> HIDE DEF a, b
<1>4. a \o b \in Seq(S) /\ Len(a \o b) = Len(a) + Len(b)
  BY <1>1, <1>2, ConcatProperties
<1>5. \A j \in 1 .. Len(a) + Len(b) :
        (a \o b)[j] = IF j <= Len(a) THEN a[j] ELSE b[j - Len(a)]
  BY <1>1, <1>2, ConcatProperties
<1>6. ASSUME NEW j \in 1 .. Len(s) - 1
      PROVE  (a \o b)[j] = IF j < i THEN s[j] ELSE s[j + 1]
  <2>1. CASE j < i
    BY <2>1, <1>1, <1>2, <1>5
  <2>2. CASE ~ (j < i)
    <3>1. j - (i - 1) \in 1 .. Len(s) - i /\ i + (j - (i - 1)) = j + 1
      BY <2>2
    <3>2. b[j - (i - 1)] = s[j + 1]
      BY <1>2, <3>1
    <3> QED BY <2>2, <3>1, <3>2, <1>1, <1>2, <1>5
  <2> QED BY <2>1, <2>2
<1> QED BY <1>1, <1>2, <1>3, <1>4, <1>6

\* A list without one of its places: what memory has while the rest moves down,
\* and what is left.
LEMMA RemoveFromList ==
    ASSUME NEW S, NEW s \in Seq(S), NEW i \in 1 .. Len(s)
    PROVE  /\ RemoveAt(s, i) \in Seq(S) /\ Shifted(s, i) \in Seq(S)
           /\ \A k \in S : /\ Has(RemoveAt(s, i), k) => Has(Shifted(s, i), k)
                           /\ Has(Shifted(s, i), k) => Has(s, k)
                           /\ Has(s, k) => Has(RemoveAt(s, i), k) \/ k = s[i]
           /\ IsInjective(s) => IsInjective(RemoveAt(s, i)) /\ ~ Has(RemoveAt(s, i), s[i])
<1> DEFINE r == RemoveAt(s, i)
           m == Shifted(s, i)
           n == Len(s)
<1>1. /\ n \in Nat /\ DOMAIN s = 1 .. n /\ \A j \in 1 .. n : s[j] \in S
  OBVIOUS
<1>2. /\ r \in Seq(S) /\ DOMAIN r = 1 .. n - 1
      /\ \A j \in 1 .. n - 1 : r[j] = IF j < i THEN s[j] ELSE s[j + 1]
  BY RemoveAtElements
<1>3. /\ m = [j \in 1 .. n |-> IF i <= j /\ j < n THEN s[j + 1] ELSE s[j]]
  BY <1>1 DEF Shifted
<1>4. m \in [1 .. n -> S] /\ DOMAIN m = 1 .. n
      /\ \A j \in 1 .. n : m[j] = IF i <= j /\ j < n THEN s[j + 1] ELSE s[j]
  BY <1>1, <1>3
<1>5. m \in Seq(S)
  BY <1>1, <1>4
<1> HIDE DEF r, m, n
<1>6. ASSUME NEW k \in S, Has(r, k)
      PROVE  Has(m, k)
  <2>1. PICK j \in 1 .. n - 1 : r[j] = k
    BY <1>2, <1>6 DEF Has
  <2>2. j \in 1 .. n /\ m[j] = k
    BY <1>1, <1>2, <1>4, <2>1
  <2> QED BY <2>2, <1>4 DEF Has
<1>7. ASSUME NEW k \in S, Has(m, k)
      PROVE  Has(s, k)
  <2>1. PICK j \in 1 .. n : m[j] = k
    BY <1>4, <1>7 DEF Has
  <2>2. \E l \in 1 .. n : s[l] = k
    BY <1>1, <1>4, <2>1
  <2> QED BY <2>2, <1>1 DEF Has
<1>8. ASSUME NEW k \in S, Has(s, k), k # s[i]
      PROVE  Has(r, k)
  <2>1. PICK j \in 1 .. n : s[j] = k
    BY <1>1, <1>8 DEF Has
  <2>2. CASE j < i
    <3>1. j \in 1 .. n - 1 /\ r[j] = k
      BY <1>1, <1>2, <2>1, <2>2 DEF n
    <3> QED BY <3>1, <1>2 DEF Has
  <2>3. CASE ~ (j < i)
    <3>1. j - 1 \in 1 .. n - 1 /\ ~ (j - 1 < i) /\ (j - 1) + 1 = j
      BY <1>1, <1>8, <2>1, <2>3 DEF n
    <3>2. r[j - 1] = k
      BY <1>2, <2>1, <3>1
    <3> QED BY <3>1, <3>2, <1>2 DEF Has
  <2> QED BY <2>2, <2>3
<1>9. ASSUME IsInjective(s)
      PROVE  IsInjective(r) /\ ~ Has(r, s[i])
  <2>1. \A j, l \in 1 .. n : s[j] = s[l] => j = l
    BY <1>1, <1>9 DEF IsInjective
  <2>2. \A j, l \in 1 .. n - 1 : r[j] = r[l] => j = l
    BY <1>1, <1>2, <2>1 DEF n
  <2>3. \A j \in 1 .. n - 1 : r[j] # s[i]
    BY <1>1, <1>2, <2>1 DEF n
  <2> QED BY <1>2, <2>2, <2>3 DEF IsInjective, Has
<1> QED BY <1>2, <1>5, <1>6, <1>7, <1>8, <1>9 DEF r, m

\* A list with one more at its end.
LEMMA AppendToList ==
    ASSUME NEW S, NEW s \in Seq(S), NEW e \in S
    PROVE  /\ Append(s, e) \in Seq(S)
           /\ \A k \in S : Has(Append(s, e), k) <=> Has(s, k) \/ k = e
           /\ IsInjective(s) /\ ~ Has(s, e) => IsInjective(Append(s, e))
<1> DEFINE r == Append(s, e)
           n == Len(s)
<1>1. n \in Nat /\ DOMAIN s = 1 .. n
  OBVIOUS
<1>2. /\ r \in Seq(S) /\ DOMAIN r = 1 .. n + 1 /\ r[n + 1] = e
      /\ \A j \in 1 .. n : r[j] = s[j]
  OBVIOUS
<1> HIDE DEF r, n
<1>3. ASSUME NEW k \in S
      PROVE  Has(r, k) <=> Has(s, k) \/ k = e
  <2>1. Has(r, k) <=> \E j \in 1 .. n + 1 : r[j] = k
    BY <1>2 DEF Has
  <2>2. Has(s, k) <=> \E j \in 1 .. n : s[j] = k
    BY <1>1 DEF Has
  <2> QED BY <1>1, <1>2, <2>1, <2>2
<1>4. ASSUME IsInjective(s), ~ Has(s, e)
      PROVE  IsInjective(r)
  <2>1. /\ \A j, l \in 1 .. n : s[j] = s[l] => j = l
        /\ \A j \in 1 .. n : s[j] # e
    BY <1>1, <1>4 DEF IsInjective, Has
  <2>2. \A j, l \in 1 .. n + 1 : r[j] = r[l] => j = l
    BY <1>1, <1>2, <2>1
  <2> QED BY <1>2, <2>2 DEF IsInjective
<1> QED BY <1>2, <1>3, <1>4 DEF r

\* A prefix, by its elements.
LEMMA PrefixElements ==
    ASSUME NEW S, NEW s \in Seq(S), NEW t \in Seq(S)
    PROVE  IsPrefix(s, t) <=> Len(s) <= Len(t) /\ \A i \in 1 .. Len(s) : s[i] = t[i]
<1>1. CASE Len(s) <= Len(t)
  <2> DEFINE a == SubSeq(s, 1, Len(s))
             b == SubSeq(t, 1, Len(s))
  <2>1. /\ a \in Seq(S) /\ Len(a) = Len(s) /\ \A i \in 1 .. Len(s) : a[i] = s[i]
        /\ b \in Seq(S) /\ Len(b) = Len(s) /\ \A i \in 1 .. Len(s) : b[i] = t[i]
    BY <1>1
  <2> HIDE DEF a, b
  <2>2. a = b <=> \A i \in 1 .. Len(s) : a[i] = b[i]
    BY <2>1
  <2>3. a = b <=> \A i \in 1 .. Len(s) : s[i] = t[i]
    BY <2>1, <2>2
  <2> QED BY <1>1, <2>3 DEF IsPrefix, a, b
<1>2. CASE ~ (Len(s) <= Len(t))
  BY <1>2 DEF IsPrefix
<1> QED BY <1>1, <1>2

\* A sequence is a prefix of itself, and stays one of what it is when more is
\* appended.
LEMMA PrefixAppend ==
    ASSUME NEW S, NEW s \in Seq(S), NEW t \in Seq(S), NEW e \in S
    PROVE  IsPrefix(s, s) /\ (IsPrefix(s, t) => IsPrefix(s, Append(t, e)))
<1>1. IsPrefix(s, s)
  BY PrefixElements
<1>2. ASSUME IsPrefix(s, t)
      PROVE  IsPrefix(s, Append(t, e))
  <2>1. Len(s) <= Len(t) /\ \A i \in 1 .. Len(s) : s[i] = t[i]
    BY <1>2, PrefixElements
  <2> DEFINE r == Append(t, e)
  <2>2. /\ r \in Seq(S) /\ Len(r) = Len(t) + 1 /\ Len(s) \in Nat /\ Len(t) \in Nat
        /\ \A i \in 1 .. Len(t) : r[i] = t[i]
    OBVIOUS
  <2> HIDE DEF r
  <2>3. Len(s) <= Len(r) /\ \A i \in 1 .. Len(s) : s[i] = r[i]
    BY <2>1, <2>2
  <2> QED BY <2>2, <2>3, PrefixElements DEF r
<1> QED BY <1>1, <1>2

LEMMA PrefixTransitive ==
    ASSUME NEW S, NEW s \in Seq(S), NEW t \in Seq(S), NEW r \in Seq(S),
           IsPrefix(s, t), IsPrefix(t, r)
    PROVE  IsPrefix(s, r)
<1>1. Len(s) <= Len(t) /\ \A i \in 1 .. Len(s) : s[i] = t[i]
  BY PrefixElements
<1>2. Len(t) <= Len(r) /\ \A i \in 1 .. Len(t) : t[i] = r[i]
  BY PrefixElements
<1>3. Len(s) <= Len(r) /\ \A i \in 1 .. Len(s) : s[i] = r[i]
  BY <1>1, <1>2
<1> QED BY <1>3, PrefixElements

-----------------------------------------------------------------------------
(* Steps that leave a user alone.                                          *)

\* The overrides of a user are a sequence, empty for an unknown user.
LEMMA OverridesType ==
    ASSUME ConsoleTypeOK, NEW u \in UserNames
    PROVE  /\ OverridesOf(u) \in Seq(Keys) /\ OverridesIn(disk, u) \in Seq(Keys)
           /\ Image(u) \in User /\ Image(u).overrides = OverridesOf(u)
           /\ Known(u) => Image(u) = users[u] /\ users[u] \in User
           /\ ~ Known(u) => OverridesOf(u) = <<>>
BY DEF ConsoleTypeOK, OverridesOf, OverridesIn, Image, Known, User, NewUser

\* Who has a copy to write, or is making a call.
LEMMA WhoHolds ==
    ASSUME ConsoleTypeOK, \A a \in Admins : Owned(a), NEW t \in Threads
    PROVE  /\ Watcher \notin Admins /\ Missing \notin UserNames
           /\ t \in Admins \/ t = Watcher
           /\ t \in Admins /\ at[t] # "idle" => call[t] \in Calls /\ call[t].user \in UserNames
           /\ t \in Admins /\ at[t] \in {"copied", "changed"} => holds[t] = call[t].user
           /\ t \in Admins /\ at[t] \notin {"copied", "changed"} => holds[t] = Missing
           /\ t = Watcher /\ at[t] = "copied" => holds[t] \in UserNames
           /\ t = Watcher /\ at[t] # "copied" => holds[t] = Missing
           /\ t = Watcher => at[t] # "changed"
<1>1. Watcher \notin Admins /\ Missing \notin UserNames /\ Missing \notin Calls
  BY ConsoleAssumption
<1>2. \A c \in Calls : c.user \in UserNames
  BY DEF Calls
<1> QED BY <1>1, <1>2 DEF ConsoleTypeOK, Owned, Threads

\* A user whose list a removal has moved is the one it holds.
LEMMA TornHeld ==
    ASSUME ConsoleTypeOK, \A a \in Admins : Owned(a), NEW u \in Torn
    PROVE  \E a \in Admins : at[a] = "changed" /\ call[a].op = "Remove" /\ holds[a] = u
BY DEF Torn, Owned

\* The steps of a thread that has no copy of a user, nor a call about it.
LEMMA Untouched ==
    ASSUME ConsoleTypeOK, \A a \in Admins : Owned(a), NEW v \in UserNames, Clean(v),
           NEW t \in Threads, holds'[t] # v,
           t \in Admins => (at[t] = "idle" \/ call[t].user # v) /\ call'[t].user # v,
           \A s \in Threads \ {t} : at'[s] = at[s] /\ holds'[s] = holds[s] /\ copy'[s] = copy[s],
           \A b \in Admins \ {t} : call'[b] = call[b],
           users'[v] = users[v], disk'[v] = disk[v] \/ (disk'[v] = users[v] /\ v \notin Torn),
           promised'[v] = promised[v], pause'[v] = pause[v], view' = view,
           \A a \in Admins : <<a, v>> \in outdated => <<a, v>> \in outdated'
    PROVE  Clean(v)'
<1>1. /\ OverridesOf(v)' = OverridesOf(v) /\ Known(v)' = Known(v) /\ Image(v)' = Image(v)
      /\ OverridesIn(users, v)' = OverridesIn(users, v)
      /\ OverridesIn(disk, v)' = OverridesIn(disk, v)
         \/ (OverridesIn(disk, v)' = OverridesOf(v) /\ v \notin Torn)
  BY DEF OverridesOf, OverridesIn, Known, Image
<1>2. \A s \in Threads : holds'[s] = v => s # t /\ holds[s] = v
  OBVIOUS
<1>3. Alone(v)'
  BY <1>2 DEF Alone, Clean
<1>4. ASSUME NEW s \in Threads, holds'[s] = v
      PROVE  Copied(s, v)'
  <2>1. s # t /\ Copied(s, v) /\ at'[s] = at[s] /\ copy'[s] = copy[s]
    BY <1>2, <1>4 DEF Clean
  <2>2. s \in Admins => call'[s] = call[s]
    BY <2>1
  <2>3. s \notin Admins => s = Watcher /\ at[s] # "changed"
    BY WhoHolds
  <2> QED BY <2>1, <2>2, <2>3, <1>1 DEF Copied, Paused, Added, Removed
<1>5. ASSUME NEW a \in Admins
      PROVE  Adding(a, v)' /\ Answered(a, v)'
  <2>1. CASE a = t
    <3>1. pause[v] # a /\ \A k \in Keys : promised[v][k] # a
      BY <2>1 DEF Owned
    <3> QED BY <2>1, <3>1 DEF Adding, Answered
  <2>2. CASE a # t
    <3>1. a \in Threads /\ at'[a] = at[a] /\ call'[a] = call[a]
      BY <2>2 DEF Threads
    <3> QED BY <3>1, <1>1 DEF Clean, Adding, Answered
  <2> QED BY <2>1, <2>2
<1>6. v \in Torn => v \in Torn'
  <2> SUFFICES ASSUME v \in Torn PROVE v \in Torn'
    OBVIOUS
  <2>1. PICK a \in Admins : at[a] = "changed" /\ call[a].op = "Remove" /\ call[a].user = v
    BY DEF Torn
  <2>2. a \in Threads /\ a # t
    BY <2>1 DEF Threads
  <2> QED BY <2>1, <2>2 DEF Torn
<1>7. Upholds(users, v)' /\ Upholds(disk, v)'
  <2>1. \A k \in Keys : Listed(users, v, k)' = Listed(users, v, k)
    BY <1>1 DEF Listed
  <2>2. \A k \in Keys : \/ Listed(disk, v, k)' = Listed(disk, v, k)
                        \/ disk'[v] = users[v] /\ Listed(disk, v, k)' = Listed(users, v, k)
    BY DEF Listed, OverridesIn
  <2>3. Upholds(users, v) /\ Upholds(disk, v)
    BY DEF Clean, Claims
  <2>4. Upholds(users, v)'
    BY <2>1, <2>3 DEF Upholds
  <2>5. Upholds(disk, v)'
    <3>1. CASE disk'[v] = disk[v]
      BY <3>1, <2>3 DEF Upholds, Listed, OverridesIn
    <3>2. CASE disk'[v] = users[v]
      BY <3>2, <2>3 DEF Upholds, Listed, OverridesIn
    <3> QED BY <3>1, <3>2
  <2> QED BY <2>4, <2>5
<1>8. Claims(v)'
  BY <1>1, <1>6, <1>7 DEF Clean, Claims
<1>9. Listings(v)'
  BY <1>1 DEF Clean, Listings
<1> QED BY <1>3, <1>4, <1>5, <1>8, <1>9 DEF Clean
-----------------------------------------------------------------------------
(* One copy of a user.                                                     *)

\* Whoever takes a copy of a user is alone with it, and it is that of memory;
\* nothing else is different for that user.
LEMMA CopyTaken ==
    ASSUME ConsoleTypeOK, \A a \in Admins : Owned(a), NEW u \in UserNames, NEW t \in Threads,
           at[t] \notin {"copied", "changed"}, CopyUser(t, u), u \notin raced'
    PROVE  /\ u \notin raced
           /\ \A s \in Threads : holds'[s] = u <=> s = t
           /\ users' = users => copy'[t] = Image(u)'
           /\ u \notin Torn
<1>1. u \notin raced /\ \A s \in Threads \ {t} : holds[s] # u
  BY DEF CopyUser
<1>2. \A s \in Threads : holds'[s] = IF s = t THEN u ELSE holds[s]
  BY DEF CopyUser, ConsoleTypeOK
<1>3. copy'[t] = IF Known(u) THEN users[u] ELSE NewUser
  BY DEF CopyUser, ConsoleTypeOK
<1>4. u \notin Torn
  BY <1>1, TornHeld, WhoHolds DEF Threads
<1> QED BY <1>1, <1>2, <1>3, <1>4 DEF Image, Known
\* The steps of a user's own calls and handlers in which only memory, a copy
\* or a promise of that user changes.
LEMMA OthersClean ==
    ASSUME ConsoleTypeOK, \A a \in Admins : Owned(a), NEW u \in UserNames, NEW t \in Threads,
           holds'[t] \in {u, Missing},
           t \in Admins => (at[t] = "idle" \/ call[t].user = u) /\ call'[t].user = u,
           \A s \in Threads \ {t} : at'[s] = at[s] /\ holds'[s] = holds[s] /\ copy'[s] = copy[s],
           \A b \in Admins \ {t} : call'[b] = call[b],
           \A v \in UserNames \ {u} : /\ users'[v] = users[v] /\ disk'[v] = disk[v]
                                      /\ promised'[v] = promised[v] /\ pause'[v] = pause[v],
           view' = view, outdated \subseteq outdated', raced \subseteq raced',
           \A v \in UserNames \ raced : Clean(v)
    PROVE  \A v \in (UserNames \ raced') \ {u} : Clean(v)'
<1> SUFFICES ASSUME NEW v \in (UserNames \ raced') \ {u} PROVE Clean(v)'
  OBVIOUS
<1>1. v \in UserNames /\ v # u /\ Clean(v) /\ holds'[t] # v
  BY WhoHolds
<1> QED BY <1>1, Untouched

LEMMA CallStep ==
    ASSUME ConsoleInv, NEW a \in Admins, NEW c \in Calls, Call(a, c)
    PROVE  ConsoleInv'
<1> DEFINE u == c.user
<1>1. /\ ConsoleTypeOK /\ (\A b \in Admins : Owned(b)) /\ \A v \in UserNames \ raced : Clean(v)
      /\ a \in Threads /\ Watcher \notin Admins /\ u \in UserNames /\ at[a] = "idle"
  BY ConsoleAssumption DEF ConsoleInv, Call, Threads, Calls
<1>2. /\ call' = [call EXCEPT ![a] = c] /\ CopyUser(a, u)
      /\ at' = [at EXCEPT ![a] = "copied"] /\ holds' = [holds EXCEPT ![a] = u]
      /\ copy' = [copy EXCEPT ![a] = IF Known(u) THEN users[u] ELSE NewUser]
      /\ UNCHANGED <<users, disk, view, outdated, pause, stops>>
  BY DEF Call, CopyUser, Goto, viewVars
<1>3. /\ call'[a] = c /\ at'[a] = "copied" /\ holds'[a] = u
      /\ \A s \in Threads \ {a} : at'[s] = at[s] /\ holds'[s] = holds[s] /\ copy'[s] = copy[s]
      /\ \A b \in Admins \ {a} : call'[b] = call[b]
      /\ raced \subseteq raced' /\ raced' \subseteq UserNames
  <2>1. call'[a] = c /\ at'[a] = "copied" /\ holds'[a] = u
    BY <1>1, <1>2 DEF ConsoleTypeOK
  <2>2. ASSUME NEW s \in Threads \ {a}
        PROVE  at'[s] = at[s] /\ holds'[s] = holds[s] /\ copy'[s] = copy[s]
    BY <1>1, <1>2 DEF ConsoleTypeOK
  <2>3. \A b \in Admins \ {a} : call'[b] = call[b]
    BY <1>1, <1>2 DEF ConsoleTypeOK
  <2>4. raced \subseteq raced' /\ raced' \subseteq UserNames
    BY <1>1, <1>2 DEF ConsoleTypeOK, CopyUser
  <2> QED BY <2>1, <2>2, <2>3, <2>4
<1>4. /\ c.op = "Add" => c.arg \in Keys /\ promised[u][c.arg] = "unused"
                         /\ promised' = [promised EXCEPT ![u][c.arg] = a]
      /\ c.op # "Add" => promised' = promised /\ Known(u)
  BY DEF Call, Calls
<1>5. \A v \in UserNames, k \in Keys :
        promised'[v][k] = IF c.op = "Add" /\ v = u /\ k = c.arg THEN a ELSE promised[v][k]
  BY <1>1, <1>4 DEF ConsoleTypeOK
<1>6. ConsoleTypeOK'
  <2>1. copy'[a] = Image(u) /\ Image(u) \in User
    BY <1>1, <1>2, OverridesType DEF ConsoleTypeOK, Image
  <2>2. copy' \in [Threads -> User] /\ holds' \in [Threads -> UserNames \union {Missing}]
    BY <1>1, <1>2, <2>1 DEF ConsoleTypeOK, Image
  <2>3. promised' \in [UserNames -> [Keys -> Promises \union Admins]]
    <3>1. CASE c.op = "Add"
      <4>1. promised[u] \in [Keys -> Promises \union Admins]
        BY <1>1 DEF ConsoleTypeOK
      <4>2. [promised[u] EXCEPT ![c.arg] = a] \in [Keys -> Promises \union Admins]
        BY <4>1
      <4> QED BY <1>1, <1>4, <3>1, <4>2 DEF ConsoleTypeOK
    <3> QED BY <1>1, <1>4, <3>1 DEF ConsoleTypeOK
  <2>4. call' \in [Admins -> Calls \union {Missing}]
        /\ \A b \in Admins : at'[b] = "idle" <=> call'[b] = Missing
    BY <1>1, <1>2, <1>3, ConsoleAssumption DEF ConsoleTypeOK, Threads
  <2>5. \A t \in Threads : holds'[t] # Missing <=> at'[t] \in {"copied", "changed"}
    <3>1. Missing \notin UserNames
      BY ConsoleAssumption
    <3>2. \A t \in Threads \ {a} : holds'[t] # Missing <=> at'[t] \in {"copied", "changed"}
      BY <1>1, <1>3 DEF ConsoleTypeOK
    <3> HIDE DEF u
    <3> QED BY <1>1, <1>3, <3>1, <3>2
  <2>6. /\ at' \in [Threads -> {"idle", "entered", "copied", "changed", "written"}]
        /\ at'[Watcher] # "changed" /\ \A b \in Admins : at'[b] # "entered"
    BY <1>1, <1>2, <1>3 DEF ConsoleTypeOK, Threads
  <2>7. \A b \in Admins, v \in UserNames :
          pause'[v] = b \/ (\E k \in Keys : promised'[v][k] = b) => at'[b] # "idle"
    <3> SUFFICES ASSUME NEW b \in Admins, NEW v \in UserNames, b # a,
                        pause'[v] = b \/ (\E k \in Keys : promised'[v][k] = b)
                 PROVE  at'[b] # "idle"
      BY <1>3
    <3>1. pause[v] = b \/ \E k \in Keys : promised[v][k] = b
      BY <1>2, <1>5
    <3>2. at'[b] = at[b]
      BY <1>3 DEF Threads
    <3> QED BY <1>1, <3>1, <3>2 DEF ConsoleTypeOK
  <2> QED BY <1>1, <1>2, <1>3, <2>2, <2>3, <2>4, <2>5, <2>6, <2>7 DEF ConsoleTypeOK
<1>7. ASSUME NEW b \in Admins
      PROVE  Owned(b)'
  <2>1. CASE b = a
    <3>1. (\A v \in UserNames : pause[v] # a) /\ \A v \in UserNames, k \in Keys : promised[v][k] # a
      BY <1>1 DEF ConsoleTypeOK
    <3>2. c.op = "Remove" => c.arg \in DOMAIN copy'[a].overrides
      <4>1. copy'[a] = Image(u)
        BY <1>1, <1>2 DEF ConsoleTypeOK, Image
      <4>2. c.op = "Remove" => c.arg \in DOMAIN OverridesOf(u)
        BY DEF Call
      <4> QED BY <1>1, <4>1, <4>2, OverridesType
    <3> QED BY <2>1, <1>1, <1>2, <1>3, <1>4, <1>5, <3>1, <3>2 DEF Owned, Known
  <2>2. CASE b # a
    <3>1. at'[b] = at[b] /\ call'[b] = call[b] /\ holds'[b] = holds[b] /\ copy'[b] = copy[b]
      BY <2>2, <1>3 DEF Threads
    <3>2. \A v \in UserNames, k \in Keys : promised'[v][k] = b => promised[v][k] = b
      BY <2>2, <1>5
    <3> QED BY <1>1, <1>2, <3>1, <3>2 DEF Owned, Known
  <2> QED BY <2>1, <2>2
<1>8. \A v \in (UserNames \ raced') \ {u} : Clean(v)'
  <2>1. \A v \in UserNames \ {u} : promised'[v] = promised[v]
    BY <1>1, <1>4 DEF ConsoleTypeOK
  <2> QED BY <1>1, <1>2, <1>3, <2>1, OthersClean
<1>9. ASSUME u \notin raced'
      PROVE  Clean(u)'
  <2>1. /\ Clean(u) /\ u \notin Torn /\ copy'[a] = Image(u)'
        /\ \A s \in Threads : holds'[s] = u <=> s = a
    BY <1>1, <1>2, <1>9, CopyTaken
  <2>2. OverridesOf(u)' = OverridesOf(u) /\ OverridesIn(disk, u)' = OverridesIn(disk, u)
        /\ Known(u)' = Known(u)
    BY <1>2 DEF OverridesOf, OverridesIn, Known
  <2>3. Alone(u)'
    BY <2>1 DEF Alone
  <2>4. \A t \in Threads : holds'[t] = u => Copied(t, u)'
    BY <1>1, <1>3, <2>1 DEF Copied
  <2>5. ASSUME NEW b \in Admins
        PROVE  Adding(b, u)'
    <3>1. CASE b = a
      <4>1. c.op = "Add" => ~ Has(OverridesOf(u), c.arg)
        BY <1>4, <2>1 DEF Clean, Claims, Upholds, Listed, Has, OverridesOf, OverridesIn
      <4>2. c.op = "Add" => promised'[u][c.arg] = a
        BY <1>1, <1>4, <1>5
      <4> QED BY <3>1, <1>3, <2>2, <4>1, <4>2 DEF Adding
    <3>2. CASE b # a
      <4>1. b \in Threads /\ holds'[b] # u
        BY <2>1, <3>2 DEF Threads
      <4> QED BY <4>1, <1>6, <1>7 DEF Adding, Owned
    <3> QED BY <3>1, <3>2
  <2>6. ASSUME NEW b \in Admins
        PROVE  Answered(b, u)'
    <3>1. CASE b = a
      BY <3>1, <1>1, <1>2, <1>3 DEF Answered, ConsoleTypeOK
    <3>2. CASE b # a
      <4>1. at'[b] = at[b] /\ call'[b] = call[b]
            /\ \A k \in Keys : promised'[u][k] = b => promised[u][k] = b
        BY <3>2, <1>1, <1>3, <1>5 DEF Threads
      <4> QED BY <1>2, <2>1, <2>2, <4>1 DEF Clean, Answered
    <3> QED BY <3>1, <3>2
  <2>7. Claims(u)'
    <3>1. \A k \in Keys : promised'[u][k] \in Promises => promised[u][k] = promised'[u][k]
      BY <1>1, <1>5, ConsoleAssumption
    <3>2. Upholds(users, u)' /\ Upholds(disk, u)'
      BY <1>2, <2>1, <2>2, <3>1 DEF Clean, Claims, Upholds, Listed, OverridesIn, Promises
    <3> QED BY <2>1, <2>2, <3>2 DEF Clean, Claims
  <2>8. Listings(u)'
    BY <1>2, <2>1, <2>2 DEF Clean, Listings
  <2> QED BY <2>3, <2>4, <2>5, <2>6, <2>7, <2>8 DEF Clean
<1> HIDE DEF u
<1> QED BY <1>6, <1>7, <1>8, <1>9 DEF ConsoleInv
LEMMA ModifyStep ==
    ASSUME ConsoleInv, NEW a \in Admins, Modify(a)
    PROVE  ConsoleInv'
<1>0. call[a] \in Calls /\ call[a].user \in UserNames
  BY WhoHolds DEF ConsoleInv, Modify, Threads
<1> PICK c \in Calls, u \in UserNames : c = call[a] /\ u = c.user
  BY <1>0
<1> PICK i : i = c.arg
  OBVIOUS
<1> DEFINE list == copy[a].overrides
<1>1. /\ ConsoleTypeOK /\ (\A b \in Admins : Owned(b)) /\ \A v \in UserNames \ raced : Clean(v)
      /\ a \in Threads /\ Watcher \notin Admins /\ u \in UserNames /\ at[a] = "copied"
      /\ holds[a] = u
  BY WhoHolds, ConsoleAssumption DEF ConsoleInv, Modify, Threads
<1>2. /\ at' = [at EXCEPT ![a] = "changed"]
      /\ UNCHANGED <<disk, call, holds, raced, view, pause, stops>>
  BY DEF Modify, Goto
<1>3. /\ at'[a] = "changed" /\ \A s \in Threads \ {a} : at'[s] = at[s]
      /\ copy[a] \in User /\ list \in Seq(Keys)
  BY <1>1, <1>2 DEF ConsoleTypeOK, User
<1>4. c.op = "Remove" => Known(u) /\ i \in 1 .. Len(list) /\ users[u] \in User
  BY <1>1, <1>3 DEF Owned, ConsoleTypeOK, Known
<1>5. \/ /\ SetPaused(a) /\ c.op \in {"Pause", "Resume"} /\ users' = users
         /\ promised' = promised /\ outdated' = outdated
         /\ copy' = [copy EXCEPT ![a] = [copy[a] EXCEPT !.paused = (c.op = "Pause")]]
      \/ /\ AddOverride(a) /\ c.op = "Add" /\ i \in Keys /\ users' = users
         /\ promised' = promised /\ outdated' = outdated
         /\ copy' = [copy EXCEPT ![a] = [copy[a] EXCEPT !.overrides = Append(list, i)]]
      \/ /\ RemoveOverride(a) /\ c.op = "Remove"
         /\ users' = [users EXCEPT ![u] = [users[u] EXCEPT !.overrides = Shifted(@, i)]]
         /\ promised' = [promised EXCEPT ![u][list[i]] = a]
         /\ outdated' = outdated \union (Admins \X {u})
         /\ copy' = [copy EXCEPT ![a] = [copy[a] EXCEPT !.overrides = RemoveAt(list, i)]]
  BY <1>1, <1>3 DEF Modify, SetPaused, AddOverride, RemoveOverride, ConsoleTypeOK, Calls, User
<1>6. /\ \A s \in Threads \ {a} : copy'[s] = copy[s]
      /\ copy'[a] \in User /\ copy' \in [Threads -> User]
  <2>1. c.op = "Add" /\ i \in Keys => Append(list, i) \in Seq(Keys)
    BY <1>3
  <2>2. c.op = "Remove" => RemoveAt(list, i) \in Seq(Keys)
    BY <1>3, <1>4, RemoveFromList
  <2>3. \A s \in Threads \ {a} : copy'[s] = copy[s]
    BY <1>1, <1>5 DEF ConsoleTypeOK
  <2>4. copy'[a] \in User
    <3>1. CASE c.op \in {"Pause", "Resume"}
      <4>1. copy' = [copy EXCEPT ![a] = [copy[a] EXCEPT !.paused = (c.op = "Pause")]]
        BY <3>1, <1>5
      <4>2. (c.op = "Pause") \in BOOLEAN
        OBVIOUS
      <4>3. [copy[a] EXCEPT !.paused = (c.op = "Pause")] \in User
        BY <1>3, <4>2 DEF User
      <4> QED BY <1>1, <4>1, <4>3 DEF ConsoleTypeOK
    <3>2. CASE c.op = "Add"
      <4>1. copy' = [copy EXCEPT ![a] = [copy[a] EXCEPT !.overrides = Append(list, i)]]
            /\ Append(list, i) \in Seq(Keys)
        BY <3>2, <1>5, <2>1
      <4>2. [copy[a] EXCEPT !.overrides = Append(list, i)] \in User
        BY <1>3, <4>1 DEF User
      <4> QED BY <1>1, <4>1, <4>2 DEF ConsoleTypeOK
    <3>3. CASE c.op = "Remove"
      <4>1. copy' = [copy EXCEPT ![a] = [copy[a] EXCEPT !.overrides = RemoveAt(list, i)]]
            /\ RemoveAt(list, i) \in Seq(Keys)
        BY <3>3, <1>5, <2>2
      <4>2. [copy[a] EXCEPT !.overrides = RemoveAt(list, i)] \in User
        BY <1>3, <4>1 DEF User
      <4> QED BY <1>1, <4>1, <4>2 DEF ConsoleTypeOK
    <3> QED BY <3>1, <3>2, <3>3, <1>5
  <2> QED BY <1>1, <1>5, <2>3, <2>4 DEF ConsoleTypeOK
<1>7. /\ users' \in [UserNames -> User \union {Missing}]
      /\ \A v \in UserNames : Known(v) => Known(v)'
      /\ \A v \in UserNames \ {u} : users'[v] = users[v]
  <2>1. CASE c.op = "Remove"
    <3>1. users[u].overrides \in Seq(Keys)
      BY <2>1, <1>4 DEF User
    <3>2. Shifted(users[u].overrides, i) \in Seq(Keys)
      <4> DEFINE s == users[u].overrides
      <4>1. s \in Seq(Keys) /\ i \in Nat
        BY <2>1, <3>1, <1>4
      <4>2. \A j \in 1 .. Len(s) : (IF i <= j /\ j < Len(s) THEN s[j + 1] ELSE s[j]) \in Keys
        BY <4>1
      <4> QED BY <4>1, <4>2 DEF Shifted
    <3>3. [users[u] EXCEPT !.overrides = Shifted(@, i)] \in User
      BY <2>1, <1>4, <3>2 DEF User
    <3>4. [users[u] EXCEPT !.overrides = Shifted(@, i)] # Missing
      BY <3>3, ConsoleAssumption
    <3>5. users' = [users EXCEPT ![u] = [users[u] EXCEPT !.overrides = Shifted(@, i)]]
      BY <2>1, <1>5
    <3> QED BY <1>1, <3>3, <3>4, <3>5 DEF ConsoleTypeOK, Known
  <2>2. CASE c.op # "Remove"
    BY <2>2, <1>1, <1>5 DEF ConsoleTypeOK, Known
  <2> QED BY <2>1, <2>2
<1>8. \A v \in UserNames, k \in Keys :
        promised'[v][k] = IF c.op = "Remove" /\ v = u /\ k = list[i] THEN a ELSE promised[v][k]
  <2>1. CASE c.op = "Remove"
    <3>1. promised' = [promised EXCEPT ![u][list[i]] = a] /\ list[i] \in Keys
      BY <2>1, <1>3, <1>4, <1>5
    <3> QED BY <1>1, <2>1, <3>1 DEF ConsoleTypeOK
  <2>2. CASE c.op # "Remove"
    BY <2>2, <1>5
  <2> QED BY <2>1, <2>2
<1>9. ConsoleTypeOK'
  <2>1. promised' \in [UserNames -> [Keys -> Promises \union Admins]]
    <3>1. CASE c.op = "Remove"
      <4>1. promised[u] \in [Keys -> Promises \union Admins] /\ list[i] \in Keys
        BY <1>1, <1>3, <1>4, <3>1 DEF ConsoleTypeOK
      <4>2. [promised[u] EXCEPT ![list[i]] = a] \in [Keys -> Promises \union Admins]
        BY <4>1
      <4>3. promised' = [promised EXCEPT ![u][list[i]] = a]
        BY <3>1, <1>5
      <4> QED BY <1>1, <4>2, <4>3 DEF ConsoleTypeOK
    <3> QED BY <1>1, <1>5, <3>1 DEF ConsoleTypeOK
  <2>2. \A b \in Admins : at'[b] = "idle" <=> call'[b] = Missing
    BY <1>1, <1>2, <1>3 DEF ConsoleTypeOK, Threads
  <2>3. \A t \in Threads : holds'[t] # Missing <=> at'[t] \in {"copied", "changed"}
    BY <1>1, <1>2, <1>3 DEF ConsoleTypeOK
  <2>4. /\ at' \in [Threads -> {"idle", "entered", "copied", "changed", "written"}]
        /\ at'[Watcher] # "changed" /\ \A b \in Admins : at'[b] # "entered"
    BY <1>1, <1>2, <1>3 DEF ConsoleTypeOK, Threads
  <2>5. \A b \in Admins, v \in UserNames :
          pause'[v] = b \/ (\E k \in Keys : promised'[v][k] = b) => at'[b] # "idle"
    <3> SUFFICES ASSUME NEW b \in Admins, NEW v \in UserNames, b # a,
                        pause'[v] = b \/ (\E k \in Keys : promised'[v][k] = b)
                 PROVE  at'[b] # "idle"
      BY <1>3
    <3>1. pause[v] = b \/ \E k \in Keys : promised[v][k] = b
      BY <1>2, <1>8
    <3>2. at'[b] = at[b]
      BY <1>3 DEF Threads
    <3> QED BY <1>1, <3>1, <3>2 DEF ConsoleTypeOK
  <2>6. outdated' \subseteq Admins \X UserNames
    BY <1>1, <1>5 DEF ConsoleTypeOK
  <2> QED BY <1>1, <1>2, <1>6, <1>7, <2>1, <2>2, <2>3, <2>4, <2>5, <2>6 DEF ConsoleTypeOK
<1>10. ASSUME NEW b \in Admins
       PROVE  Owned(b)'
  <2>1. CASE b = a
    BY <2>1, <1>1, <1>2, <1>3, <1>8 DEF Owned
  <2>2. CASE b # a
    <3>1. at'[b] = at[b] /\ call'[b] = call[b] /\ holds'[b] = holds[b] /\ copy'[b] = copy[b]
      BY <2>2, <1>2, <1>3, <1>6 DEF Threads
    <3>2. \A v \in UserNames, k \in Keys : promised'[v][k] = b => promised[v][k] = b
      BY <2>2, <1>8
    <3>3. at[b] = "copied" => call[b] \in Calls /\ call[b].user \in UserNames
      BY <1>1, WhoHolds DEF Threads
    <3> QED BY <1>1, <1>2, <1>7, <3>1, <3>2, <3>3 DEF Owned
  <2> QED BY <2>1, <2>2
<1>11. \A v \in (UserNames \ raced') \ {u} : Clean(v)'
  <2>1. \A v \in UserNames \ {u} : promised'[v] = promised[v]
    BY <1>1, <1>5 DEF ConsoleTypeOK
  <2>2. outdated \subseteq outdated'
    BY <1>5
  <2> QED BY <1>1, <1>2, <1>3, <1>6, <1>7, <2>1, <2>2, OthersClean
<1>12. ASSUME u \notin raced
       PROVE  Clean(u)'
  <2>1. Clean(u) /\ copy[a] = Image(u)
    BY <1>1, <1>12 DEF Clean, Copied
  <2>2. /\ \A s \in Threads : holds'[s] = u => s = a
        /\ \A s \in Threads : holds[s] = u => s = a
    BY <1>1, <1>2, <2>1 DEF Clean, Alone
  <2>3. list = OverridesOf(u) /\ u \notin Torn /\ IsInjective(list)
    <3>1. u \notin Torn
      BY <1>1, <2>2, TornHeld DEF Threads
    <3> QED BY <1>1, <2>1, <3>1, OverridesType DEF Clean, Claims
  <2>4. Alone(u)'
    BY <2>2 DEF Alone
  <2>5. ASSUME NEW b \in Admins, b # a
        PROVE  Adding(b, u)'
    BY <1>9, <1>10, <2>2, <2>5, WhoHolds DEF Adding, Threads, Owned
  <2>6. Adding(a, u) /\ \A b \in Admins : Answered(b, u)
    BY <2>1 DEF Clean
  <2>7. CASE c.op # "Remove"
    <3>1. users' = users /\ promised' = promised /\ outdated' = outdated
      BY <1>5, <2>7
    <3>2. /\ OverridesOf(u)' = OverridesOf(u) /\ Known(u)' = Known(u) /\ Image(u)' = Image(u)
          /\ OverridesIn(users, u)' = OverridesIn(users, u)
          /\ OverridesIn(disk, u)' = OverridesIn(disk, u)
      BY <1>2, <3>1 DEF OverridesOf, OverridesIn, Known, Image
    <3>3. Paused(a, u)' \/ Added(a, u)'
      <4>1. CASE c.op \in {"Pause", "Resume"}
        <5>1. /\ copy'[a].overrides = list /\ copy'[a].paused = (c.op = "Pause")
          BY <1>1, <1>3, <1>5, <4>1 DEF ConsoleTypeOK, User
        <5> QED BY <1>2, <2>3, <3>2, <4>1, <5>1 DEF Paused
      <4>2. CASE c.op = "Add"
        <5>1. /\ copy'[a].overrides = Append(list, i) /\ copy'[a].paused = copy[a].paused
          BY <1>1, <1>3, <1>5, <4>2 DEF ConsoleTypeOK, User
        <5> QED BY <1>2, <2>1, <2>3, <3>2, <4>2, <5>1 DEF Added
      <4> QED BY <1>5, <2>7, <4>1, <4>2
    <3>4. \A t \in Threads : holds'[t] = u => Copied(t, u)'
      BY <1>1, <1>3, <2>2, <3>3 DEF Copied
    <3>5. Adding(a, u)'
      BY <1>1, <1>2, <2>6, <3>1, <3>2 DEF Adding
    <3>6. \A b \in Admins : Answered(b, u)'
      BY <1>2, <1>3, <2>6, <3>1, <3>2 DEF Answered, Threads
    <3>7. Claims(u)'
      <4>1. Upholds(users, u)' /\ Upholds(disk, u)'
        BY <1>2, <2>1, <3>1, <3>2 DEF Clean, Claims, Upholds, Listed
      <4> QED BY <2>1, <2>3, <3>2, <4>1 DEF Clean, Claims
    <3>8. Listings(u)'
      BY <1>2, <2>1, <3>1, <3>2 DEF Clean, Listings
    <3> QED BY <2>4, <2>5, <3>4, <3>5, <3>6, <3>7, <3>8 DEF Clean
  <2>8. CASE c.op = "Remove"
    <3> DEFINE m == Shifted(list, i)
               r == RemoveAt(list, i)
    <3>1. users[u] \in User /\ users[u].overrides = list /\ users[u] # Missing
      BY <1>1, <1>4, <2>3, <2>8, OverridesType DEF OverridesOf, OverridesIn, Known
    <3>2. /\ \A k \in Keys : /\ Has(r, k) => Has(m, k)
                             /\ Has(m, k) => Has(list, k)
                             /\ Has(list, k) => Has(r, k) \/ k = list[i]
          /\ IsInjective(r) /\ ~ Has(r, list[i])
          /\ m \in Seq(Keys)
      BY <1>3, <1>4, <2>3, <2>8, RemoveFromList
    <3>3. users'[u] = [users[u] EXCEPT !.overrides = m]
      BY <1>1, <1>5, <2>8, <3>1 DEF ConsoleTypeOK, User
    <3>4. users'[u] # Missing /\ users'[u].overrides = m /\ users'[u].paused = users[u].paused
      BY <1>1, <1>4, <1>7, <2>8, <3>1, <3>2, <3>3 DEF User, Known
    <3>5. copy'[a].overrides = r /\ copy'[a].paused = users[u].paused
      <4>1. copy[a] = users[u]
        BY <1>1, <1>4, <2>1, <2>8, OverridesType
      <4>2. copy' = [copy EXCEPT ![a] = [copy[a] EXCEPT !.overrides = r]]
        BY <2>8, <1>5
      <4> QED BY <1>1, <1>3, <4>1, <4>2 DEF ConsoleTypeOK, User
    <3> HIDE DEF m, r
    <3>6. /\ OverridesOf(u)' = m /\ OverridesIn(users, u)' = m /\ Known(u)'
          /\ OverridesIn(disk, u)' = OverridesIn(disk, u)
          /\ OverridesIn(users, u) = list
      BY <1>2, <3>1, <3>4 DEF OverridesOf, OverridesIn, Known
    <3>7. \A k \in Keys : promised'[u][k] = IF k = list[i] THEN a ELSE promised[u][k]
      BY <1>1, <1>8, <2>8
    <3>8. \A k \in Keys : promised[u][k] # a
      BY <1>1, <2>8 DEF Owned
    <3>9. Removed(a, u)'
      BY <1>2, <2>8, <3>2, <3>4, <3>5, <3>6, <3>7, <3>8 DEF Removed
    <3>10. \A t \in Threads : holds'[t] = u => Copied(t, u)'
      BY <1>1, <1>3, <2>2, <3>9 DEF Copied
    <3>11. Adding(a, u)'
      BY <1>2, <2>8 DEF Adding
    <3>12. ASSUME NEW b \in Admins
           PROVE  Answered(b, u)'
      <4>1. CASE b = a
        BY <4>1, <1>1, <1>2, <1>3, <2>8 DEF Answered, Owned
      <4>2. CASE b # a
        <5>1. at'[b] = at[b] /\ call'[b] = call[b]
          BY <1>2, <1>3, <4>2 DEF Threads
        <5>2. ASSUME NEW k \in Keys, promised'[u][k] = b
              PROVE  promised[u][k] = b /\ (Has(m, k) <=> Has(list, k))
          BY <3>2, <3>7, <4>2, <5>2
        <5>3. pause'[u] = b => Known(u)' /\ users'[u].paused = (call'[b].op = "Pause")
          BY <1>2, <2>6, <3>4, <3>6, <5>1 DEF Answered
        <5> QED BY <2>3, <2>6, <3>6, <5>1, <5>2, <5>3 DEF Answered
      <4> QED BY <4>1, <4>2
    <3>13. Claims(u)'
      <4>1. Upholds(users, u) /\ Upholds(disk, u) /\ IsInjective(OverridesIn(disk, u))
        BY <2>1 DEF Clean, Claims
      <4>2. \A k \in Keys : promised'[u][k] \in Promises =>
                              promised'[u][k] = promised[u][k] /\ (Has(m, k) <=> Has(list, k))
        BY <3>2, <3>7, ConsoleAssumption
      <4>3. Upholds(users, u)'
        BY <1>2, <3>1, <3>4, <3>6, <4>1, <4>2 DEF Upholds, Listed, Has, Promises
      <4>4. Upholds(disk, u)'
        BY <1>2, <3>6, <4>1, <4>2 DEF Upholds, Listed, Promises
      <4>5. u \in Torn'
        BY <1>2, <1>3, <2>8 DEF Torn
      <4> QED BY <3>6, <4>1, <4>3, <4>4, <4>5 DEF Claims
    <3>14. Listings(u)'
      BY <1>1, <1>5, <2>8 DEF Listings
    <3> QED BY <2>4, <2>5, <3>10, <3>11, <3>12, <3>13, <3>14 DEF Clean
  <2> QED BY <2>7, <2>8
<1> QED BY <1>2, <1>9, <1>10, <1>11, <1>12 DEF ConsoleInv
-----------------------------------------------------------------------------
(* A copy is written.                                                      *)

\* What is listed after the copy is written: what its thread's call is not about
\* is listed as before.
LEMMA WrittenList ==
    ASSUME ConsoleTypeOK, \A a \in Admins : Owned(a), NEW u \in UserNames, Clean(u),
           NEW t \in Threads, holds[t] = u, t \in Admins => at[t] = "changed"
    PROVE  /\ copy[t].overrides \in Seq(Keys) /\ IsInjective(copy[t].overrides)
           /\ \A k \in Keys :
                IF t \in Admins /\ promised[u][k] = t
                THEN Has(copy[t].overrides, k) <=> call[t].op = "Add"
                ELSE Has(copy[t].overrides, k) <=> Has(OverridesOf(u), k)
           /\ (t \in Admins /\ call[t].op = "Remove")
              \/ IsPrefix(OverridesOf(u), copy[t].overrides)
           /\ IF t \in Admins /\ call[t].op \in {"Pause", "Resume"}
              THEN copy[t].paused = (call[t].op = "Pause")
              ELSE copy[t].paused = Image(u).paused
<1> DEFINE list == copy[t].overrides
<1>1. /\ copy[t] \in User /\ list \in Seq(Keys) /\ Copied(t, u) /\ Watcher \notin Admins
      /\ \A s \in Threads : holds[s] = u => s = t
  BY ConsoleAssumption DEF ConsoleTypeOK, User, Clean, Alone
<1>2. OverridesOf(u) \in Seq(Keys)
  BY OverridesType
<1>3. ~ (t \in Admins /\ call[t].op = "Remove") => IsInjective(OverridesOf(u))
  <2>1. ~ (t \in Admins /\ call[t].op = "Remove") => u \notin Torn
    BY <1>1, TornHeld DEF Threads
  <2> QED BY <2>1 DEF Clean, Claims
<1>4. CASE t = Watcher
  <2>1. copy[t] = Image(u) /\ list = OverridesOf(u)
    BY <1>1, <1>4, OverridesType DEF Copied
  <2>2. IsPrefix(list, list)
    BY <1>1, PrefixElements
  <2> QED BY <1>1, <1>3, <1>4, <2>1, <2>2
<1>5. CASE t \in Admins /\ Paused(t, u)
  <2>1. list = OverridesOf(u) /\ call[t].op \in {"Pause", "Resume"}
        /\ copy[t].paused = (call[t].op = "Pause")
    BY <1>5 DEF Paused
  <2>2. \A k \in Keys : promised[u][k] # t
    BY <1>5, <2>1 DEF Owned
  <2>3. IsPrefix(list, list)
    BY <1>1, PrefixElements
  <2> QED BY <1>1, <1>3, <1>5, <2>1, <2>2, <2>3
<1>6. CASE t \in Admins /\ Added(t, u)
  <2>1. /\ list = Append(OverridesOf(u), call[t].arg) /\ call[t].op = "Add"
        /\ copy[t].paused = Image(u).paused
    BY <1>6 DEF Added
  <2>2. call[t].user = u /\ call[t] \in Calls /\ call[t].arg \in Keys
    BY <1>6, <2>1, WhoHolds DEF Calls
  <2>3. promised[u][call[t].arg] = t /\ ~ Has(OverridesOf(u), call[t].arg)
    BY <1>6, <2>1, <2>2 DEF Clean, Adding
  <2>4. \A k \in Keys : promised[u][k] = t => k = call[t].arg
    BY <1>6, <2>1 DEF Owned
  <2>5. /\ \A k \in Keys : Has(list, k) <=> Has(OverridesOf(u), k) \/ k = call[t].arg
        /\ IsInjective(list)
    BY <1>2, <1>3, <1>6, <2>1, <2>2, <2>3, AppendToList
  <2>6. IsPrefix(OverridesOf(u), list)
    BY <1>2, <2>1, <2>2, PrefixAppend
  <2> QED BY <1>1, <1>6, <2>1, <2>3, <2>4, <2>5, <2>6
<1>7. CASE t \in Admins /\ Removed(t, u)
  <2>1. Image(u) = users[u]
    BY <1>7 DEF Removed, Image
  <2> QED BY <1>1, <1>7, <2>1 DEF Removed
<1> QED BY <1>1, <1>4, <1>5, <1>6, <1>7 DEF Copied, Threads

LEMMA WrittenClean ==
    ASSUME ConsoleTypeOK, ConsoleTypeOK', \A a \in Admins : Owned(a), \A a \in Admins : Owned(a)',
           NEW u \in UserNames, Clean(u), NEW t \in Threads, holds[t] = u, WriteUser(t),
           t \in Admins => at[t] = "changed",
           UNCHANGED <<disk, call, view, promised>>, outdated \subseteq outdated',
           IF t \in Admins /\ call[t].op \in {"Pause", "Resume"} THEN pause'[u] = t
           ELSE pause'[u] = pause[u],
           t \in Admins /\ call[t].op = "Remove" => Admins \X {u} \subseteq outdated'
    PROVE  Clean(u)'
<1> DEFINE list == OverridesOf(u)
<1> PICK cp : cp = copy[t]
  OBVIOUS
<1>1. /\ Watcher \notin Admins /\ Missing \notin UserNames /\ cp \in User /\ cp # Missing
      /\ \A s \in Threads : holds[s] = u => s = t
  BY ConsoleAssumption DEF ConsoleTypeOK, Clean, Alone
<1>2. /\ cp.overrides \in Seq(Keys) /\ IsInjective(cp.overrides)
      /\ \A k \in Keys : IF t \in Admins /\ promised[u][k] = t
                         THEN Has(cp.overrides, k) <=> call[t].op = "Add"
                         ELSE Has(cp.overrides, k) <=> Has(list, k)
      /\ (t \in Admins /\ call[t].op = "Remove") \/ IsPrefix(list, cp.overrides)
      /\ IF t \in Admins /\ call[t].op \in {"Pause", "Resume"}
         THEN cp.paused = (call[t].op = "Pause") ELSE cp.paused = Image(u).paused
  BY WrittenList
<1>3. users'[u] = cp /\ holds'[t] = Missing /\ at'[t] = "written"
      /\ \A s \in Threads \ {t} : holds'[s] = holds[s] /\ at'[s] = at[s]
  BY DEF WriteUser, Goto, ConsoleTypeOK
<1>4. /\ OverridesOf(u)' = cp.overrides /\ OverridesIn(users, u)' = cp.overrides /\ Known(u)'
      /\ OverridesIn(disk, u)' = OverridesIn(disk, u) /\ OverridesIn(users, u) = list
  BY <1>1, <1>3 DEF OverridesOf, OverridesIn, Known
<1> HIDE DEF list
<1>5. \A s \in Threads : holds'[s] # u
  BY <1>1, <1>3
<1>6. Alone(u)' /\ \A s \in Threads : holds'[s] = u => Copied(s, u)'
  BY <1>5 DEF Alone
<1>7. \A b \in Admins : Adding(b, u)'
  BY <1>5 DEF Adding, Owned, Threads
<1>8. ASSUME NEW b \in Admins
      PROVE  Answered(b, u)'
  <2>1. ASSUME at'[b] = "written", NEW k \in Keys, promised'[u][k] = b
        PROVE  Has(cp.overrides, k) <=> call'[b].op = "Add"
    <3>1. CASE b = t
      BY <1>2, <2>1, <3>1
    <3>2. CASE b # t
      <4>1. at[b] = "written"
        BY <1>3, <2>1, <3>2 DEF Threads
      <4>2. Has(list, k) <=> call[b].op = "Add"
        BY <2>1, <4>1 DEF Clean, Answered, list
      <4> QED BY <1>2, <2>1, <3>2, <4>2
    <3> QED BY <3>1, <3>2
  <2>2. ASSUME pause'[u] = b
        PROVE  users'[u].paused = (call'[b].op = "Pause")
    <3>1. CASE t \in Admins /\ call[t].op \in {"Pause", "Resume"}
      BY <1>2, <1>3, <2>2, <3>1
    <3>2. CASE ~ (t \in Admins /\ call[t].op \in {"Pause", "Resume"})
      <4>1. pause[u] = b /\ cp.paused = Image(u).paused
        BY <1>2, <2>2, <3>2
      <4>2. Image(u) = users[u] /\ users[u].paused = (call[b].op = "Pause")
        BY <4>1 DEF Clean, Answered, Image
      <4> QED BY <1>3, <4>1, <4>2
    <3> QED BY <3>1, <3>2
  <2> QED BY <1>4, <2>1, <2>2 DEF Answered
<1>9. Claims(u)'
  <2>1. Upholds(users, u) /\ Upholds(disk, u) /\ IsInjective(OverridesIn(disk, u))
    BY DEF Clean, Claims
  <2>2. \A k \in Keys : promised'[u][k] \in Promises =>
            promised'[u][k] = promised[u][k] /\ (Has(cp.overrides, k) <=> Has(list, k))
    BY <1>2, ConsoleAssumption
  <2>3. pause'[u] \in Pauses => pause'[u] = pause[u] /\ cp.paused = Image(u).paused
    BY <1>2, ConsoleAssumption
  <2>4. pause[u] \in {"paused", "resumed"} =>
          Image(u) = users[u] /\ users[u].paused = (pause[u] = "paused")
    BY <2>1 DEF Upholds, Image, Known
  <2>5. \A k \in Keys : /\ promised'[u][k] = "granted" => Has(cp.overrides, k)
                        /\ promised'[u][k] \in {"unused", "revoked"} => ~ Has(cp.overrides, k)
    BY <1>4, <2>1, <2>2 DEF Upholds, Listed, Has, Promises
  <2>6. pause'[u] \in {"paused", "resumed"} =>
          users'[u] # Missing /\ users'[u].paused = (pause'[u] = "paused")
    BY <1>1, <1>3, <2>3, <2>4 DEF Pauses
  <2>7. Upholds(users, u)'
    BY <1>4, <2>5, <2>6 DEF Upholds, Listed, Has
  <2>8. Upholds(disk, u)'
    BY <1>4, <2>1, <2>2, <2>3 DEF Upholds, Listed, Promises, Pauses
  <2> QED BY <1>2, <1>4, <2>1, <2>7, <2>8 DEF Claims
<1>10. Listings(u)'
  <2> SUFFICES ASSUME NEW a \in Admins, <<a, u>> \notin outdated'
               PROVE  IsPrefix(view'[a][u], cp.overrides)
    BY <1>4 DEF Listings
  <2>1. ~ (t \in Admins /\ call[t].op = "Remove")
    OBVIOUS
  <2>2. IsPrefix(view[a][u], list) /\ IsPrefix(list, cp.overrides)
    BY <1>2, <2>1 DEF Clean, Listings, list
  <2>3. view[a][u] \in Seq(Keys) /\ list \in Seq(Keys)
    BY OverridesType DEF ConsoleTypeOK, list
  <2>4. IsPrefix(view[a][u], cp.overrides)
    BY <1>2, <2>2, <2>3, PrefixTransitive
  <2> QED BY <2>4
<1> QED BY <1>6, <1>7, <1>8, <1>9, <1>10 DEF Clean
\* The copy is as much a user as what it replaces; all who are known stay known.
LEMMA WrittenTypes ==
    ASSUME ConsoleTypeOK, NEW t \in Threads, holds[t] \in UserNames, WriteUser(t)
    PROVE  /\ users' \in [UserNames -> User \union {Missing}]
           /\ \A v \in UserNames : Known(v) => Known(v)'
           /\ \A v \in UserNames : v # holds[t] => users'[v] = users[v]
           /\ at' = [at EXCEPT ![t] = "written"]
           /\ holds' \in [Threads -> UserNames \union {Missing}] /\ holds'[t] = Missing
           /\ copy' \in [Threads -> User] /\ at'[t] = "written"
           /\ \A s \in Threads \ {t} : at'[s] = at[s] /\ holds'[s] = holds[s] /\ copy'[s] = copy[s]
<1>1. /\ users' = [users EXCEPT ![holds[t]] = copy[t]] /\ at' = [at EXCEPT ![t] = "written"]
      /\ holds' = [holds EXCEPT ![t] = Missing] /\ copy' = [copy EXCEPT ![t] = NewUser]
  BY DEF WriteUser, Goto
<1>2. copy[t] \in User /\ copy[t] # Missing /\ NewUser \in User
  BY ConsoleAssumption DEF ConsoleTypeOK, User, NewUser
<1>3. PICK u \in UserNames : u = holds[t]
  OBVIOUS
<1>4. /\ users' \in [UserNames -> User \union {Missing}]
      /\ \A v \in UserNames : v # u => users'[v] = users[v]
      /\ users'[u] = copy[t]
  BY <1>1, <1>2, <1>3 DEF ConsoleTypeOK
<1>5. \A v \in UserNames : Known(v) => Known(v)'
  BY <1>2, <1>4 DEF Known
<1>6. copy' \in [Threads -> User] /\ holds' \in [Threads -> UserNames \union {Missing}]
  BY <1>1, <1>2 DEF ConsoleTypeOK
<1> QED BY <1>1, <1>3, <1>4, <1>5, <1>6 DEF ConsoleTypeOK

LEMMA WriteStep ==
    ASSUME ConsoleInv, NEW a \in Admins, Write(a)
    PROVE  ConsoleInv'
<1>0. call[a] \in Calls /\ call[a].user \in UserNames
  BY WhoHolds DEF ConsoleInv, Write, Threads
<1> PICK c \in Calls, u \in UserNames : c = call[a] /\ u = c.user
  BY <1>0
<1>1. /\ ConsoleTypeOK /\ (\A b \in Admins : Owned(b)) /\ \A v \in UserNames \ raced : Clean(v)
      /\ a \in Threads /\ Watcher \notin Admins /\ at[a] = "changed" /\ holds[a] = u
      /\ Missing \notin UserNames
  BY ConsoleAssumption DEF ConsoleInv, Write, Threads, Owned
<1>2. /\ WriteUser(a) /\ UNCHANGED <<disk, call, raced, view, promised, stops>>
      /\ pause' = IF c.op \in {"Pause", "Resume"} THEN [pause EXCEPT ![u] = a] ELSE pause
      /\ outdated' = IF c.op = "Remove" THEN outdated \union (Admins \X {u}) ELSE outdated
  BY DEF Write
<1>3. /\ users' \in [UserNames -> User \union {Missing}]
      /\ \A v \in UserNames : Known(v) => Known(v)'
      /\ \A v \in UserNames : v # u => users'[v] = users[v]
      /\ at' = [at EXCEPT ![a] = "written"]
      /\ holds' \in [Threads -> UserNames \union {Missing}] /\ holds'[a] = Missing
      /\ copy' \in [Threads -> User] /\ at'[a] = "written"
      /\ \A s \in Threads \ {a} : at'[s] = at[s] /\ holds'[s] = holds[s] /\ copy'[s] = copy[s]
  BY <1>1, <1>2, WrittenTypes
<1>4. \A v \in UserNames :
        pause'[v] = IF c.op \in {"Pause", "Resume"} /\ v = u THEN a ELSE pause[v]
  BY <1>1, <1>2 DEF ConsoleTypeOK
<1>5. ConsoleTypeOK'
  <2>1. pause' \in [UserNames -> Pauses \union Admins]
    BY <1>1, <1>2 DEF ConsoleTypeOK
  <2>2. outdated' \subseteq Admins \X UserNames
    BY <1>1, <1>2 DEF ConsoleTypeOK
  <2>3. \A b \in Admins : at'[b] = "idle" <=> call'[b] = Missing
    BY <1>1, <1>2, <1>3 DEF ConsoleTypeOK, Threads
  <2>4. \A t \in Threads : holds'[t] # Missing <=> at'[t] \in {"copied", "changed"}
    BY <1>1, <1>3 DEF ConsoleTypeOK
  <2>5. /\ at' \in [Threads -> {"idle", "entered", "copied", "changed", "written"}]
        /\ at'[Watcher] # "changed" /\ \A b \in Admins : at'[b] # "entered"
    BY <1>1, <1>3 DEF ConsoleTypeOK, Threads
  <2>6. \A b \in Admins, v \in UserNames :
          pause'[v] = b \/ (\E k \in Keys : promised'[v][k] = b) => at'[b] # "idle"
    <3> SUFFICES ASSUME NEW b \in Admins, NEW v \in UserNames, b # a,
                        pause'[v] = b \/ (\E k \in Keys : promised'[v][k] = b)
                 PROVE  at'[b] # "idle"
      BY <1>3
    <3>1. pause[v] = b \/ \E k \in Keys : promised[v][k] = b
      BY <1>2, <1>4
    <3>2. at'[b] = at[b]
      BY <1>3 DEF Threads
    <3> QED BY <1>1, <3>1, <3>2 DEF ConsoleTypeOK
  <2> QED BY <1>1, <1>2, <1>3, <2>1, <2>2, <2>3, <2>4, <2>5, <2>6 DEF ConsoleTypeOK
<1>6. ASSUME NEW b \in Admins
      PROVE  Owned(b)'
  <2>1. CASE b = a
    BY <2>1, <1>1, <1>2, <1>3, <1>4 DEF Owned, Promises, Pauses
  <2>2. CASE b # a
    <3>1. at'[b] = at[b] /\ call'[b] = call[b] /\ holds'[b] = holds[b] /\ copy'[b] = copy[b]
      BY <2>2, <1>2, <1>3 DEF Threads
    <3>2. at[b] = "copied" => call[b] \in Calls /\ call[b].user \in UserNames
      BY <1>1, WhoHolds DEF Threads
    <3>3. \A v \in UserNames : pause'[v] = b => pause[v] = b
      BY <2>2, <1>4
    <3> QED BY <1>1, <1>2, <1>3, <3>1, <3>2, <3>3 DEF Owned
  <2> QED BY <2>1, <2>2
<1>7. \A v \in (UserNames \ raced') \ {u} : Clean(v)'
  BY <1>1, <1>2, <1>3, <1>4, OthersClean
<1>8. u \notin raced => Clean(u)'
  BY <1>1, <1>2, <1>4, <1>5, <1>6, WrittenClean
<1> QED BY <1>2, <1>5, <1>6, <1>7, <1>8 DEF ConsoleInv

-----------------------------------------------------------------------------
(* The handlers.                                                           *)

\* A step of the watcher's alone keeps what belongs together of every call.
LEMMA WatcherTypes ==
    ASSUME ConsoleTypeOK, \A a \in Admins : Owned(a),
           UNCHANGED <<call, view, outdated, promised, pause, stops>>,
           {users', disk'} \subseteq [UserNames -> User \union {Missing}],
           \A v \in UserNames : Known(v) => Known(v)',
           at' \in [Threads -> {"idle", "entered", "copied", "changed", "written"}],
           holds' \in [Threads -> UserNames \union {Missing}], copy' \in [Threads -> User],
           raced' \subseteq UserNames, at'[Watcher] # "changed",
           holds'[Watcher] # Missing <=> at'[Watcher] = "copied",
           \A s \in Admins : at'[s] = at[s] /\ holds'[s] = holds[s] /\ copy'[s] = copy[s]
    PROVE  ConsoleTypeOK' /\ \A a \in Admins : Owned(a)'
<1>1. \A t \in Threads : holds'[t] # Missing <=> at'[t] \in {"copied", "changed"}
  BY DEF ConsoleTypeOK, Threads
<1>2. ConsoleTypeOK'
  BY <1>1 DEF ConsoleTypeOK
<1>3. ASSUME NEW a \in Admins
      PROVE  Owned(a)'
  <2>1. at[a] = "copied" => call[a] \in Calls /\ call[a].user \in UserNames
    BY WhoHolds DEF Threads
  <2>2. Owned(a) /\ at'[a] = at[a] /\ holds'[a] = holds[a] /\ copy'[a] = copy[a]
    OBVIOUS
  <2> QED BY <2>1, <2>2 DEF Owned
<1> QED BY <1>2, <1>3

LEMMA HandlerReadStep ==
    ASSUME ConsoleInv, NEW u \in UserNames, HandlerRead(u)
    PROVE  ConsoleInv'
<1>1. /\ ConsoleTypeOK /\ (\A b \in Admins : Owned(b)) /\ \A v \in UserNames \ raced : Clean(v)
      /\ Watcher \in Threads /\ Watcher \notin Admins /\ at[Watcher] \in {"entered", "written"}
      /\ Missing \notin UserNames
  BY ConsoleAssumption DEF ConsoleInv, HandlerRead, Threads
<1>2. /\ CopyUser(Watcher, u) /\ at' = [at EXCEPT ![Watcher] = "copied"]
      /\ holds' = [holds EXCEPT ![Watcher] = u]
      /\ copy' = [copy EXCEPT ![Watcher] = Image(u)]
      /\ UNCHANGED <<users, disk, call, view, outdated, promised, pause, stops>>
  BY DEF HandlerRead, CopyUser, Goto, viewVars, promiseVars, Image
<1>3. /\ at'[Watcher] = "copied" /\ holds'[Watcher] = u
      /\ \A s \in Threads \ {Watcher} :
           at'[s] = at[s] /\ holds'[s] = holds[s] /\ copy'[s] = copy[s]
      /\ raced \subseteq raced' /\ raced' \subseteq UserNames
  BY <1>1, <1>2 DEF ConsoleTypeOK, CopyUser
<1>4. copy' \in [Threads -> User] /\ holds' \in [Threads -> UserNames \union {Missing}]
      /\ at' \in [Threads -> {"idle", "entered", "copied", "changed", "written"}]
  BY <1>1, <1>2, OverridesType DEF ConsoleTypeOK
<1>5. ConsoleTypeOK' /\ \A b \in Admins : Owned(b)'
  <2>1. \A s \in Admins : at'[s] = at[s] /\ holds'[s] = holds[s] /\ copy'[s] = copy[s]
    BY <1>1, <1>3 DEF Threads
  <2>2. {users', disk'} \subseteq [UserNames -> User \union {Missing}]
        /\ \A v \in UserNames : Known(v) => Known(v)'
    BY <1>1, <1>2 DEF ConsoleTypeOK, Known
  <2> QED BY <1>1, <1>2, <1>3, <1>4, <2>1, <2>2, WatcherTypes
<1>6. \A v \in (UserNames \ raced') \ {u} : Clean(v)'
  BY <1>1, <1>2, <1>3, OthersClean
<1>7. ASSUME u \notin raced'
      PROVE  Clean(u)'
  <2>1. /\ u \notin raced /\ u \notin Torn /\ copy'[Watcher] = Image(u)'
        /\ \A s \in Threads : holds'[s] = u <=> s = Watcher
    BY <1>1, <1>2, <1>7, CopyTaken
  <2>2. Clean(u)
    BY <1>1, <2>1
  <2>3. /\ OverridesOf(u)' = OverridesOf(u) /\ Known(u)' = Known(u)
        /\ OverridesIn(users, u)' = OverridesIn(users, u)
        /\ OverridesIn(disk, u)' = OverridesIn(disk, u)
    BY <1>2 DEF OverridesOf, OverridesIn, Known
  <2>4. Alone(u)' /\ \A s \in Threads : holds'[s] = u => Copied(s, u)'
    BY <1>3, <2>1 DEF Alone, Copied
  <2>5. ASSUME NEW b \in Admins
        PROVE  Adding(b, u)' /\ Answered(b, u)'
    <3>1. at'[b] = at[b] /\ call'[b] = call[b] /\ Adding(b, u) /\ Answered(b, u)
      BY <1>1, <1>2, <1>3, <2>2 DEF Clean, Threads
    <3> QED BY <1>2, <2>3, <3>1 DEF Adding, Answered
  <2>6. Claims(u)' /\ Listings(u)'
    BY <1>2, <2>1, <2>2, <2>3 DEF Clean, Claims, Listings, Upholds, Listed
  <2> QED BY <2>4, <2>5, <2>6 DEF Clean
<1> QED BY <1>5, <1>6, <1>7 DEF ConsoleInv

LEMMA HandlerWriteStep ==
    ASSUME ConsoleInv, HandlerWrite
    PROVE  ConsoleInv'
<1>1. /\ ConsoleTypeOK /\ (\A b \in Admins : Owned(b)) /\ \A v \in UserNames \ raced : Clean(v)
      /\ Watcher \in Threads /\ Watcher \notin Admins /\ holds[Watcher] \in UserNames
      /\ Missing \notin UserNames
  BY WhoHolds, ConsoleAssumption DEF ConsoleInv, HandlerWrite, Threads
<1> PICK u \in UserNames : u = holds[Watcher]
  BY <1>1
<1>2. WriteUser(Watcher) /\ UNCHANGED <<disk, call, raced, view, outdated, promised, pause, stops>>
  BY DEF HandlerWrite, viewVars, promiseVars
<1>3. /\ users' \in [UserNames -> User \union {Missing}]
      /\ \A v \in UserNames : Known(v) => Known(v)'
      /\ \A v \in UserNames : v # u => users'[v] = users[v]
      /\ at' = [at EXCEPT ![Watcher] = "written"]
      /\ holds' \in [Threads -> UserNames \union {Missing}] /\ holds'[Watcher] = Missing
      /\ copy' \in [Threads -> User] /\ at'[Watcher] = "written"
      /\ \A s \in Threads \ {Watcher} :
           at'[s] = at[s] /\ holds'[s] = holds[s] /\ copy'[s] = copy[s]
  BY <1>1, <1>2, WrittenTypes
<1>4. ConsoleTypeOK' /\ \A b \in Admins : Owned(b)'
  <2>1. \A s \in Admins : at'[s] = at[s] /\ holds'[s] = holds[s] /\ copy'[s] = copy[s]
    BY <1>1, <1>3 DEF Threads
  <2>2. /\ {users', disk'} \subseteq [UserNames -> User \union {Missing}]
        /\ at' \in [Threads -> {"idle", "entered", "copied", "changed", "written"}]
        /\ raced' \subseteq UserNames
    BY <1>1, <1>2, <1>3 DEF ConsoleTypeOK
  <2> QED BY <1>1, <1>2, <1>3, <2>1, <2>2, WatcherTypes
<1>5. \A v \in (UserNames \ raced') \ {u} : Clean(v)'
  BY <1>1, <1>2, <1>3, OthersClean
<1>6. u \notin raced => Clean(u)'
  BY <1>1, <1>2, <1>4, WrittenClean
<1> QED BY <1>2, <1>4, <1>5, <1>6 DEF ConsoleInv

\* Enter, HandlerLeave and HandlerSave.
LEMMA HandlerRestStep ==
    ASSUME ConsoleInv, Enter \/ HandlerLeave \/ HandlerSave
    PROVE  ConsoleInv'
<1>1. /\ ConsoleTypeOK /\ (\A b \in Admins : Owned(b)) /\ \A v \in UserNames \ raced : Clean(v)
      /\ Watcher \in Threads /\ Watcher \notin Admins /\ Missing \notin UserNames
  BY ConsoleAssumption DEF ConsoleInv, Threads
<1>2. /\ UNCHANGED <<users, call, view, outdated, promised, pause, stops>>
      /\ \/ disk' = disk /\ raced' = raced
         \/ disk' = users /\ raced' = raced \union Torn
      /\ at' \in [Threads -> {"idle", "entered", "copied", "changed", "written"}]
      /\ at'[Watcher] \in {"idle", "entered"} /\ holds'[Watcher] = Missing
      /\ holds' \in [Threads -> UserNames \union {Missing}] /\ copy' \in [Threads -> User]
      /\ \A s \in Threads \ {Watcher} :
           at'[s] = at[s] /\ holds'[s] = holds[s] /\ copy'[s] = copy[s]
  <2>1. CASE Enter
    BY <1>1, <2>1 DEF Enter, Goto, ConsoleTypeOK, viewVars, promiseVars
  <2>2. CASE HandlerLeave
    BY <1>1, <2>2 DEF HandlerLeave, Goto, ConsoleTypeOK, viewVars, promiseVars, User, NewUser
  <2>3. CASE HandlerSave
    BY <1>1, <2>3 DEF HandlerSave, Save, Goto, ConsoleTypeOK, viewVars, promiseVars
  <2> QED BY <2>1, <2>2, <2>3
<1>3. raced \subseteq raced' /\ raced' \subseteq UserNames
  <2>1. Torn \subseteq UserNames
    BY <1>1, WhoHolds DEF Torn, Threads
  <2> QED BY <1>1, <1>2, <2>1 DEF ConsoleTypeOK
<1>4. ConsoleTypeOK' /\ \A b \in Admins : Owned(b)'
  <2>1. \A s \in Admins : at'[s] = at[s] /\ holds'[s] = holds[s] /\ copy'[s] = copy[s]
    BY <1>1, <1>2 DEF Threads
  <2>2. {users', disk'} \subseteq [UserNames -> User \union {Missing}]
        /\ \A v \in UserNames : Known(v) => Known(v)'
    BY <1>1, <1>2 DEF ConsoleTypeOK, Known
  <2> QED BY <1>1, <1>2, <1>3, <2>1, <2>2, WatcherTypes
<1>5. ASSUME NEW v \in UserNames \ raced'
      PROVE  Clean(v)'
  <2>1. v \in UserNames /\ Clean(v) /\ holds'[Watcher] # v
        /\ (disk'[v] = disk[v] \/ (disk'[v] = users[v] /\ v \notin Torn))
    BY <1>1, <1>2, <1>3
  <2> QED BY <1>1, <1>2, <2>1, Untouched
<1> QED BY <1>4, <1>5 DEF ConsoleInv
-----------------------------------------------------------------------------
(* A call ends.                                                            *)

LEMMA SaveCallStep ==
    ASSUME ConsoleInv, NEW a \in Admins, SaveCall(a)
    PROVE  ConsoleInv'
<1>1. /\ ConsoleTypeOK /\ (\A b \in Admins : Owned(b)) /\ \A v \in UserNames \ raced : Clean(v)
      /\ a \in Threads /\ Watcher \notin Admins /\ Missing \notin UserNames /\ at[a] = "written"
      /\ Missing \notin Calls
  BY ConsoleAssumption DEF ConsoleInv, Threads, SaveCall
<1>2. /\ at' = [at EXCEPT ![a] = "idle"] /\ call' = [call EXCEPT ![a] = Missing]
      /\ UNCHANGED <<users, holds, copy, view, outdated, stops>>
  BY DEF SaveCall, Goto, viewVars
<1>3. \E x \in Promises, y \in Pauses :
        /\ Answer({a}, x, y)
        /\ \/ /\ disk' = users /\ raced' = raced \union Torn /\ x = Granted(a) /\ y = Kept(a)
           \/ disk' = disk /\ raced' = raced /\ x = "open" /\ y = "open"
  BY DEF SaveCall, Save, Granted, Kept, Promises, Pauses
<1>4. PICK x \in Promises, y \in Pauses :
        /\ Answer({a}, x, y)
        /\ \/ /\ disk' = users /\ raced' = raced \union Torn /\ x = Granted(a) /\ y = Kept(a)
           \/ disk' = disk /\ raced' = raced /\ x = "open" /\ y = "open"
  BY <1>3
<1>5. /\ x \notin Admins /\ y \notin Admins
      /\ promised' \in [UserNames -> [Keys -> Promises \union Admins]]
      /\ pause' \in [UserNames -> Pauses \union Admins]
      /\ \A v \in UserNames : pause'[v] = IF pause[v] = a THEN y ELSE pause[v]
      /\ \A v \in UserNames, k \in Keys :
           promised'[v][k] = IF promised[v][k] = a THEN x ELSE promised[v][k]
  BY <1>1, <1>4, ConsoleAssumption DEF Answer, ConsoleTypeOK
<1>6. at'[a] = "idle" /\ call'[a] = Missing
      /\ \A b \in Admins \ {a} : at'[b] = at[b] /\ call'[b] = call[b]
      /\ \A s \in Threads \ {a} : at'[s] = at[s]
  BY <1>1, <1>2 DEF ConsoleTypeOK, Threads
<1>7. raced \subseteq raced' /\ raced' \subseteq UserNames
  <2>1. Torn \subseteq UserNames
    BY <1>1, WhoHolds DEF Torn, Threads
  <2> QED BY <1>1, <1>4, <2>1 DEF ConsoleTypeOK
<1>8. ConsoleTypeOK'
  <2>1. \A t \in Threads : holds'[t] # Missing <=> at'[t] \in {"copied", "changed"}
    BY <1>1, <1>2, <1>6 DEF ConsoleTypeOK
  <2>2. call' \in [Admins -> Calls \union {Missing}]
        /\ \A b \in Admins : at'[b] = "idle" <=> call'[b] = Missing
    BY <1>1, <1>2, <1>6 DEF ConsoleTypeOK
  <2>3. /\ at' \in [Threads -> {"idle", "entered", "copied", "changed", "written"}]
        /\ at'[Watcher] # "changed" /\ \A b \in Admins : at'[b] # "entered"
    BY <1>1, <1>2, <1>6 DEF ConsoleTypeOK, Threads
  <2>4. \A b \in Admins, v \in UserNames :
          pause'[v] = b \/ (\E k \in Keys : promised'[v][k] = b) => at'[b] # "idle"
    <3> SUFFICES ASSUME NEW b \in Admins, NEW v \in UserNames,
                        pause'[v] = b \/ (\E k \in Keys : promised'[v][k] = b)
                 PROVE  at'[b] # "idle"
      OBVIOUS
    <3>1. b # a /\ (pause[v] = b \/ \E k \in Keys : promised[v][k] = b)
      BY <1>5
    <3>2. at[b] # "idle"
      BY <1>1, <3>1 DEF ConsoleTypeOK
    <3> QED BY <1>6, <3>1, <3>2
  <2>5. {users', disk'} \subseteq [UserNames -> User \union {Missing}]
    BY <1>1, <1>2, <1>4 DEF ConsoleTypeOK
  <2> QED BY <1>1, <1>2, <1>5, <1>7, <2>1, <2>2, <2>3, <2>4, <2>5 DEF ConsoleTypeOK
<1>9. ASSUME NEW b \in Admins
      PROVE  Owned(b)'
  <2>1. (\A v \in UserNames : pause'[v] = b => b # a /\ pause[v] = b)
        /\ \A v \in UserNames, k \in Keys : promised'[v][k] = b => b # a /\ promised[v][k] = b
    BY <1>5
  <2>2. CASE b = a
    BY <1>6, <2>1, <2>2 DEF Owned
  <2>3. CASE b # a
    BY <1>1, <1>2, <1>6, <2>1, <2>3 DEF Owned, Known
  <2> QED BY <2>2, <2>3
<1>10. ASSUME NEW v \in UserNames \ raced'
       PROVE  Clean(v)'
  <2>1. v \in UserNames /\ Clean(v)
    BY <1>1, <1>7
  <2>2. /\ OverridesOf(v)' = OverridesOf(v) /\ Known(v)' = Known(v) /\ Image(v)' = Image(v)
        /\ OverridesIn(users, v)' = OverridesIn(users, v)
    BY <1>2 DEF OverridesOf, OverridesIn, Known, Image
  <2>3. /\ \A k \in Keys, b \in Admins \ {a} : promised'[v][k] = b <=> promised[v][k] = b
        /\ \A k \in Keys : promised'[v][k] # a
        /\ pause'[v] # a /\ \A b \in Admins \ {a} : pause'[v] = b <=> pause[v] = b
    BY <1>5
  <2>4. Alone(v)' /\ Listings(v)'
    BY <1>2, <2>1, <2>2 DEF Clean, Alone, Listings
  <2>5. ASSUME NEW t \in Threads, holds'[t] = v
        PROVE  Copied(t, v)'
    <3>1. t # a /\ holds[t] = v /\ Copied(t, v) /\ at'[t] = at[t] /\ copy'[t] = copy[t]
      BY <1>1, <1>2, <1>6, <2>1, <2>5, WhoHolds DEF Clean
    <3>2. t = Watcher => at[t] # "changed"
      BY <1>1, WhoHolds
    <3>3. t \in Admins => call'[t] = call[t]
      BY <1>6, <3>1
    <3>4. t = Watcher \/ at[t] = "copied" => copy'[t] = Image(v)'
      BY <2>2, <3>1 DEF Copied
    <3>5. ASSUME at[t] = "changed"
          PROVE  Paused(t, v)' \/ Added(t, v)' \/ Removed(t, v)'
      <4>1. t \in Admins \ {a}
        BY <3>1, <3>2, <3>5 DEF Threads
      <4>2. CASE Paused(t, v)
        BY <2>2, <3>1, <3>3, <4>1, <4>2 DEF Paused
      <4>3. CASE Added(t, v)
        BY <2>2, <3>1, <3>3, <4>1, <4>3 DEF Added
      <4>4. CASE Removed(t, v)
        BY <1>2, <2>2, <2>3, <3>1, <3>3, <4>1, <4>4 DEF Removed
      <4> QED BY <3>1, <3>5, <4>2, <4>3, <4>4 DEF Copied
    <3> QED BY <3>1, <3>4, <3>5 DEF Copied
  <2>6. ASSUME NEW b \in Admins
        PROVE  Adding(b, v)' /\ Answered(b, v)'
    <3>1. CASE b = a
      BY <1>6, <2>3, <3>1 DEF Adding, Answered
    <3>2. CASE b # a
      <4>1. Adding(b, v) /\ Answered(b, v) /\ at'[b] = at[b] /\ call'[b] = call[b]
        BY <1>6, <2>1, <3>2 DEF Clean
      <4>2. Adding(b, v)'
        <5> SUFFICES ASSUME at'[b] \in {"copied", "changed"}, call'[b].op = "Add", call'[b].user = v
                     PROVE  promised'[v][call'[b].arg] = b /\ ~ Has(OverridesOf(v)', call'[b].arg)
          BY DEF Adding
        <5>1. promised[v][call[b].arg] = b /\ ~ Has(OverridesOf(v), call[b].arg)
          BY <4>1 DEF Adding
        <5>2. call[b].arg \in Keys
          BY <1>1, <4>1, WhoHolds DEF Calls, Threads
        <5> QED BY <2>2, <2>3, <3>2, <4>1, <5>1, <5>2
      <4>3. Answered(b, v)'
        BY <1>2, <2>2, <2>3, <3>2, <4>1 DEF Answered
      <4> QED BY <4>2, <4>3
    <3> QED BY <3>1, <3>2
  <2>7. v \in Torn => v \in Torn'
    BY <1>1, <1>6 DEF Torn
  <2>8. Upholds(users, v) /\ Upholds(disk, v) /\ IsInjective(OverridesIn(disk, v))
    BY <2>1 DEF Clean, Claims
  <2>9. CASE disk' = disk /\ raced' = raced /\ x = "open" /\ y = "open"
    <3>1. /\ \A k \in Keys : promised'[v][k] # "open" => promised'[v][k] = promised[v][k]
          /\ pause'[v] # "open" => pause'[v] = pause[v]
      BY <1>5, <2>9
    <3>2. Upholds(users, v)' /\ Upholds(disk, v)'
      BY <1>2, <2>8, <2>9, <3>1 DEF Upholds, Listed, OverridesIn
    <3>3. OverridesIn(disk, v)' = OverridesIn(disk, v)
      BY <2>9 DEF OverridesIn
    <3>4. Claims(v)'
      BY <2>1, <2>2, <2>7, <2>8, <3>2, <3>3 DEF Clean, Claims
    <3> QED BY <2>4, <2>5, <2>6, <3>4 DEF Clean
  <2>10. CASE disk' = users /\ raced' = raced \union Torn /\ x = Granted(a) /\ y = Kept(a)
    <3>1. Answered(a, v) /\ v \notin Torn
      BY <2>1, <2>10 DEF Clean
    <3>2. ASSUME NEW k \in Keys, promised[v][k] = a
          PROVE  /\ promised'[v][k] = "granted" => Has(OverridesOf(v), k)
                 /\ promised'[v][k] = "revoked" => ~ Has(OverridesOf(v), k)
                 /\ promised'[v][k] # "unused"
      <4>1. Has(OverridesOf(v), k) <=> call[a].op = "Add"
        BY <1>1, <3>1, <3>2 DEF Answered
      <4>2. call[a].op \in {"Add", "Remove"}
        BY <1>1, <2>1, <3>2 DEF Owned
      <4>3. promised'[v][k] = Granted(a)
        BY <1>5, <2>10, <3>2
      <4> QED BY <4>1, <4>2, <4>3 DEF Granted
    <3>3. ASSUME NEW k \in Keys
          PROVE  /\ promised'[v][k] = "granted" => Listed(users, v, k)
                 /\ promised'[v][k] \in {"unused", "revoked"} => ~ Listed(users, v, k)
      <4>1. Listed(users, v, k) <=> Has(OverridesOf(v), k)
        BY DEF Listed, Has, OverridesOf
      <4>2. CASE promised[v][k] = a
        BY <3>2, <4>1, <4>2
      <4>3. CASE promised[v][k] # a
        BY <1>5, <2>8, <4>3 DEF Upholds
      <4> QED BY <4>2, <4>3
    <3>4. ASSUME pause'[v] \in {"paused", "resumed"}
          PROVE  users[v] # Missing /\ users[v].paused = (pause'[v] = "paused")
      <4>1. CASE pause[v] = a
        <5>1. pause'[v] = Kept(a) /\ users[v] # Missing /\ users[v].paused = (call[a].op = "Pause")
          BY <1>5, <2>10, <3>1, <4>1 DEF Answered, Known
        <5> QED BY <5>1 DEF Kept
      <4>2. CASE pause[v] # a
        BY <1>5, <2>8, <3>4, <4>2 DEF Upholds
      <4> QED BY <4>1, <4>2
    <3>5. Upholds(users, v)'
      BY <1>2, <2>2, <3>3, <3>4 DEF Upholds, Listed
    <3>6. Upholds(disk, v)'
      BY <2>10, <3>3, <3>4 DEF Upholds, Listed, OverridesIn
    <3>7. OverridesIn(disk, v)' = OverridesOf(v)
      BY <2>10 DEF OverridesOf, OverridesIn
    <3>8. Claims(v)'
      BY <2>1, <2>2, <3>1, <3>5, <3>6, <3>7 DEF Clean, Claims
    <3> QED BY <2>4, <2>5, <2>6, <3>8 DEF Clean
  <2> QED BY <1>4, <2>9, <2>10
<1> QED BY <1>8, <1>9, <1>10 DEF ConsoleInv

LEMMA ShowStep ==
    ASSUME ConsoleInv, NEW a \in Admins, NEW u \in UserNames, Show(a, u)
    PROVE  ConsoleInv'
<1>1. /\ ConsoleTypeOK /\ (\A b \in Admins : Owned(b)) /\ \A v \in UserNames \ raced : Clean(v)
  BY DEF ConsoleInv
<1>2. /\ view' = [view EXCEPT ![a][u] = OverridesOf(u)] /\ outdated' = outdated \ {<<a, u>>}
      /\ UNCHANGED <<users, disk, at, call, holds, copy, raced, promised, pause, stops>>
  BY DEF Show, promiseVars
<1>3. view' \in [Admins -> [UserNames -> Seq(Keys)]]
      /\ \A b \in Admins, v \in UserNames :
           view'[b][v] = IF b = a /\ v = u THEN OverridesOf(u) ELSE view[b][v]
  BY <1>1, <1>2, OverridesType DEF ConsoleTypeOK
<1>4. ConsoleTypeOK' /\ \A b \in Admins : Owned(b)'
  BY <1>1, <1>2, <1>3 DEF ConsoleTypeOK, Owned, Known
<1>5. ASSUME NEW v \in UserNames \ raced'
      PROVE  Clean(v)'
  <2>1. Clean(v)
    BY <1>1, <1>2
  <2>2. /\ OverridesOf(v)' = OverridesOf(v) /\ Known(v)' = Known(v) /\ Image(v)' = Image(v)
        /\ OverridesIn(users, v)' = OverridesIn(users, v)
        /\ OverridesIn(disk, v)' = OverridesIn(disk, v) /\ Torn' = Torn
    BY <1>2 DEF OverridesOf, OverridesIn, Known, Image, Torn
  <2>3. Alone(v)' /\ \A t \in Threads : holds'[t] = v => Copied(t, v)'
    BY <1>2, <2>1, <2>2 DEF Clean, Alone, Copied, Paused, Added, Removed
  <2>4. \A b \in Admins : Adding(b, v)' /\ Answered(b, v)'
    BY <1>2, <2>1, <2>2 DEF Clean, Adding, Answered
  <2>5. Claims(v)'
    BY <1>2, <2>1, <2>2 DEF Clean, Claims, Upholds, Listed
  <2>6. Listings(v)'
    <3> SUFFICES ASSUME NEW b \in Admins, <<b, v>> \notin outdated'
                 PROVE  IsPrefix(view'[b][v], OverridesOf(v))
      BY <2>2 DEF Listings
    <3>1. CASE b = a /\ v = u
      <4>1. IsPrefix(OverridesOf(u), OverridesOf(u))
        BY <1>1, OverridesType, PrefixElements
      <4> QED BY <1>3, <3>1, <4>1
    <3>2. CASE ~ (b = a /\ v = u)
      BY <1>2, <1>3, <2>1, <3>2 DEF Clean, Listings
    <3> QED BY <3>1, <3>2
  <2> QED BY <2>3, <2>4, <2>5, <2>6 DEF Clean
<1> QED BY <1>4, <1>5 DEF ConsoleInv

-----------------------------------------------------------------------------
(* The daemon starts again.                                                *)

LEMMA RestartStep ==
    ASSUME ConsoleInv, Restart
    PROVE  ConsoleInv'
<1>1. /\ ConsoleTypeOK /\ (\A b \in Admins : Owned(b)) /\ \A v \in UserNames \ raced : Clean(v)
      /\ Missing \notin UserNames /\ Missing \notin User
  BY ConsoleAssumption DEF ConsoleInv
<1>2. /\ users' = disk /\ at' = [t \in Threads |-> "idle"] /\ call' = [b \in Admins |-> Missing]
      /\ holds' = [t \in Threads |-> Missing] /\ copy' = [t \in Threads |-> NewUser]
      /\ outdated' = Admins \X UserNames /\ stops' = stops + 1
      /\ UNCHANGED <<disk, raced, view>>
  BY DEF Restart
<1>3. /\ promised' \in [UserNames -> [Keys -> Promises \union Admins]]
      /\ pause' \in [UserNames -> Pauses \union Admins]
      /\ \A v \in UserNames : pause'[v] \in Pauses /\ (pause'[v] # "open" => pause'[v] = pause[v])
      /\ \A v \in UserNames, k \in Keys :
           promised'[v][k] \in Promises /\ (promised'[v][k] # "open" =>
                                 promised'[v][k] = promised[v][k])
  BY <1>1 DEF Restart, Answer, ConsoleTypeOK, Promises, Pauses
<1>4. (\A b \in Admins : b \notin Promises /\ b \notin Pauses) /\ Watcher \in Threads
      /\ Admins \subseteq Threads
  BY ConsoleAssumption DEF Threads
<1>5. ConsoleTypeOK'
  <2>1. copy' \in [Threads -> User]
    BY <1>2 DEF User, NewUser
  <2>2. stops' \in Nat
    BY <1>1, <1>2 DEF ConsoleTypeOK
  <2>3. \A b \in Admins, v \in UserNames :
          pause'[v] # b /\ \A k \in Keys : promised'[v][k] # b
    BY <1>3, <1>4
  <2> QED BY <1>1, <1>2, <1>3, <1>4, <2>1, <2>2, <2>3 DEF ConsoleTypeOK
<1>6. \A b \in Admins : Owned(b)'
  BY <1>2, <1>3, <1>4 DEF Owned
<1>7. ASSUME NEW v \in UserNames \ raced'
      PROVE  Clean(v)'
  <2>1. /\ Upholds(disk, v) /\ IsInjective(OverridesIn(disk, v))
    BY <1>1, <1>2, <1>7 DEF Clean, Claims
  <2>2. \A t \in Threads : holds'[t] # v
    BY <1>1, <1>2
  <2>3. Alone(v)' /\ \A t \in Threads : holds'[t] = v => Copied(t, v)'
    BY <2>2 DEF Alone
  <2>4. \A b \in Admins : Adding(b, v)' /\ Answered(b, v)'
    BY <1>2, <1>3, <1>4 DEF Adding, Answered
  <2>5. OverridesIn(users, v)' = OverridesIn(disk, v) /\ OverridesOf(v)' = OverridesIn(disk, v)
        /\ OverridesIn(disk, v)' = OverridesIn(disk, v)
    BY <1>2 DEF OverridesOf, OverridesIn
  <2>6. Upholds(users, v)' /\ Upholds(disk, v)'
    BY <1>2, <1>3, <2>1, <2>5 DEF Upholds, Listed
  <2>7. Claims(v)' /\ Listings(v)'
    BY <1>2, <2>1, <2>5, <2>6 DEF Claims, Listings
  <2> QED BY <2>3, <2>4, <2>7 DEF Clean
<1> QED BY <1>5, <1>6, <1>7 DEF ConsoleInv

-----------------------------------------------------------------------------
(* The invariant.                                                          *)

LEMMA ConsoleInvariance == Spec => []ConsoleInv
<1>1. Init => ConsoleInv
  <2> SUFFICES ASSUME Init PROVE ConsoleInv
    OBVIOUS
  <2>1. /\ Missing \notin UserNames /\ Missing \notin User /\ Watcher \in Threads
        /\ Admins \subseteq Threads /\ \A b \in Admins : b \notin Promises /\ b \notin Pauses
    BY ConsoleAssumption DEF Threads
  <2>2. ConsoleTypeOK
    BY <2>1 DEF Init, ConsoleTypeOK, Promises, Pauses, User, NewUser
  <2>3. \A b \in Admins : Owned(b)
    BY <2>1 DEF Init, Owned, Promises, Pauses
  <2>4. ASSUME NEW v \in UserNames
        PROVE  Clean(v)
    <3>1. OverridesOf(v) = <<>> /\ OverridesIn(users, v) = <<>> /\ OverridesIn(disk, v) = <<>>
      BY DEF Init, OverridesOf, OverridesIn
    <3>2. Alone(v) /\ (\A t \in Threads : holds[t] = v => Copied(t, v))
      BY <2>1 DEF Init, Alone
    <3>3. \A b \in Admins : Adding(b, v) /\ Answered(b, v)
      BY <2>1 DEF Init, Adding, Answered, Promises, Pauses
    <3>4. Upholds(users, v) /\ Upholds(disk, v)
      BY <3>1 DEF Init, Upholds, Listed
    <3>5. IsInjective(<<>>) /\ IsPrefix(<<>>, <<>>)
      <4>1. <<>> \in Seq(Keys) /\ Len(<<>>) = 0 /\ DOMAIN <<>> = {}
        OBVIOUS
      <4>2. IsInjective(<<>>)
        BY <4>1 DEF IsInjective
      <4>3. IsPrefix(<<>>, <<>>)
        BY <4>1 DEF IsPrefix
      <4> QED BY <4>2, <4>3
    <3>6. Claims(v) /\ Listings(v)
      BY <3>1, <3>4, <3>5 DEF Init, Claims, Listings
    <3> QED BY <3>2, <3>3, <3>6 DEF Clean
  <2> QED BY <2>2, <2>3, <2>4 DEF ConsoleInv
<1>2. ConsoleInv /\ [Next]_vars => ConsoleInv'
  <2> SUFFICES ASSUME ConsoleInv, [Next]_vars PROVE ConsoleInv'
    OBVIOUS
  <2>1. ASSUME NEW a \in Admins, NEW u \in UserNames,
               NEW op \in {"Pause", "Resume"}, Call(a, [op |-> op, user |-> u, arg |-> Missing])
        PROVE  ConsoleInv'
    <3>1. [op |-> op, user |-> u, arg |-> Missing] \in Calls
      BY DEF Calls
    <3> QED BY <2>1, <3>1, CallStep
  <2>2. ASSUME NEW a \in Admins, NEW u \in UserNames,
               NEW k \in Keys, Call(a, [op |-> "Add", user |-> u, arg |-> k])
        PROVE  ConsoleInv'
    <3>1. [op |-> "Add", user |-> u, arg |-> k] \in Calls
      BY DEF Calls
    <3> QED BY <2>2, <3>1, CallStep
  <2>3. ASSUME NEW a \in Admins, NEW u \in UserNames,
               NEW i \in DOMAIN view[a][u], Call(a, [op |-> "Remove", user |-> u, arg |-> i])
        PROVE  ConsoleInv'
    <3>1. view[a][u] \in Seq(Keys)
      BY DEF ConsoleInv, ConsoleTypeOK
    <3>2. [op |-> "Remove", user |-> u, arg |-> i] \in Calls
      BY <3>1 DEF Calls
    <3> QED BY <2>3, <3>2, CallStep
  <2>4. CASE UNCHANGED vars
    <3>1. ConsoleTypeOK' /\ \A b \in Admins : Owned(b)'
      BY <2>4 DEF ConsoleInv, ConsoleTypeOK, Owned, Known, vars, promiseVars, viewVars
    <3>2. ASSUME NEW v \in UserNames \ raced'
          PROVE  Clean(v)'
      <4>1. Clean(v) /\ OverridesOf(v)' = OverridesOf(v) /\ Known(v)' = Known(v)
            /\ Image(v)' = Image(v) /\ Torn' = Torn
            /\ OverridesIn(users, v)' = OverridesIn(users, v)
            /\ OverridesIn(disk, v)' = OverridesIn(disk, v)
        BY <2>4 DEF ConsoleInv, vars, OverridesOf, OverridesIn, Known, Image, Torn
      <4>2. Alone(v)' /\ \A t \in Threads : holds'[t] = v => Copied(t, v)'
        BY <2>4, <4>1 DEF vars, promiseVars, Clean, Alone, Copied, Paused, Added, Removed
      <4>3. (\A b \in Admins : Adding(b, v)' /\ Answered(b, v)') /\ Listings(v)'
        BY <2>4, <4>1 DEF vars, promiseVars, viewVars, Clean, Adding, Answered, Listings
      <4>4. Claims(v)'
        BY <2>4, <4>1 DEF vars, promiseVars, Clean, Claims, Upholds, Listed
      <4> QED BY <4>2, <4>3, <4>4 DEF Clean
    <3> QED BY <3>1, <3>2 DEF ConsoleInv
  <2> QED BY <2>1, <2>2, <2>3, <2>4, ModifyStep, WriteStep, SaveCallStep, ShowStep,
             HandlerReadStep, HandlerWriteStep, HandlerRestStep, RestartStep DEF Next
<1> QED BY <1>1, <1>2, PTL DEF Spec

-----------------------------------------------------------------------------
(* What administrators may rely on.                                        *)

\* What AddOverride, RemoveOverride, PauseUser and ResumeUser acknowledged stands,
\* whatever saves fail, handlers run and restarts happen, while the copies that
\* calls and handlers take of the user do not overlap.
THEOREM AcknowledgedAlways == Spec => []AcknowledgedStands
<1>1. ConsoleInv => AcknowledgedStands
  BY DEF ConsoleInv, Clean, Claims, AcknowledgedStands
<1> QED BY <1>1, ConsoleInvariance, PTL

\* The indices an administrator was shown are those RemoveOverride uses, until an
\* override of that user is removed or the daemon starts again, under the same
\* condition.
THEOREM ListingStandsAlways == Spec => []ListingStands
<1>1. ConsoleInv => ListingStands
  BY DEF ConsoleInv, Clean, Listings, ListingStands
<1> QED BY <1>1, ConsoleInvariance, PTL

\* Memory, file, copies and what is kept of the calls are well typed.
THEOREM ConsoleTypeCorrect == Spec => []ConsoleTypeOK
<1>1. ConsoleInv => ConsoleTypeOK
  BY DEF ConsoleInv
<1> QED BY <1>1, ConsoleInvariance, PTL
=============================================================================
