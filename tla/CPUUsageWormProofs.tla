-------------------------- MODULE CPUUsageWormProofs --------------------------
(***************************************************************************)
(* For any functions, any depth of the stack and any number of timeouts,   *)
(* the detector remembers its breakpoints, nothing unexpected is hit, and  *)
(* at most one search goes on at a time, provided the API is not used      *)
(* twice at a time, nor while timeouts are fired (Careful).                *)
(*                                                                         *)
(* None of the three is inductive: that a breakpoint is expected where it  *)
(* is hit depends on the timeouts that exist, on both lists, being those   *)
(* that the variables of the detector refer to (HandleInv), or, if they    *)
(* were given up while they were to be fired, on nothing else of their     *)
(* kind being started before they have fired.                              *)
(***************************************************************************)
EXTENDS CPUUsageWorm, FiniteSetTheorems, SequenceTheorems, TLAPS

Ids(list) == {list[i].id : i \in DOMAIN list}
OfKind(list, kind) == {list[i].id : i \in {j \in DOMAIN list : list[j].kind = kind}}
Distinct(list) == \A i, j \in DOMAIN list : list[i].id = list[j].id => i = j

-----------------------------------------------------------------------------
(* Filtered lists.                                                         *)

\* t has those of the first n elements of s that are in S, in the order that they have in s.
IsSelected(t, s, n, S) ==
  /\ \A a \in 1 .. n : s[a] \in S => \E i \in 1 .. Len(t) : t[i] = s[a]
  /\ \A i \in 1 .. Len(t) : \E a \in 1 .. n : t[i] = s[a] /\ s[a] \in S
  /\ \A i, j \in 1 .. Len(t) : i < j => \E a, b \in 1 .. n : a < b /\ t[i] = s[a] /\ t[j] = s[b]

\* The positions that are kept, up to i.
UpTo(kept, i) == {j \in kept : j <= i}

\* Each of the kept positions has another rank, and there are as many ranks as positions.
LEMMA Ranks ==
  ASSUME NEW n \in Nat, NEW kept, kept \subseteq 1 .. n
  PROVE  /\ Cardinality(kept) \in Nat
         /\ \A i \in kept : Cardinality(UpTo(kept, i)) \in 1 .. Cardinality(kept)
         /\ \A i, j \in kept : i < j => Cardinality(UpTo(kept, i)) < Cardinality(UpTo(kept, j))
         /\ \A k \in 1 .. Cardinality(kept) : \E i \in kept : Cardinality(UpTo(kept, i)) = k
<1>1. IsFiniteSet(kept) /\ Cardinality(kept) \in Nat
  <2>1. IsFiniteSet(1 .. n)
    BY FS_Interval
  <2>2. IsFiniteSet(kept)
    BY <2>1, FS_Subset
  <2> QED
    BY <2>2, FS_CardinalityType
<1>2. ASSUME NEW i \in kept
      PROVE  IsFiniteSet(UpTo(kept, i)) /\ Cardinality(UpTo(kept, i)) \in 1 .. Cardinality(kept)
  <2>1. UpTo(kept, i) \subseteq kept /\ i \in UpTo(kept, i)
    BY DEF UpTo
  <2>2. IsFiniteSet(UpTo(kept, i)) /\ Cardinality(UpTo(kept, i)) <= Cardinality(kept)
    BY <1>1, <2>1, FS_Subset
  <2>3. Cardinality(UpTo(kept, i)) \in Nat /\ Cardinality(UpTo(kept, i)) # 0
    BY <2>1, <2>2, FS_CardinalityType, FS_EmptySet
  <2> QED
    BY <1>1, <2>2, <2>3
<1>3. ASSUME NEW i \in kept, NEW j \in kept, i < j
      PROVE  Cardinality(UpTo(kept, i)) < Cardinality(UpTo(kept, j))
  <2>1. UpTo(kept, i) \subseteq UpTo(kept, j) /\ j \in UpTo(kept, j) /\ j \notin UpTo(kept, i)
    <3>1. \A x \in kept : x \in Nat
      OBVIOUS
    <3>2. i \in Nat /\ j \in Nat /\ j <= j /\ ~(j <= i) /\ \A x \in Nat : x <= i => x <= j
      BY <1>3, <3>1
    <3> QED
      BY <3>1, <3>2 DEF UpTo
  <2>2. Cardinality(UpTo(kept, i)) <= Cardinality(UpTo(kept, j))
        /\ Cardinality(UpTo(kept, i)) # Cardinality(UpTo(kept, j))
    BY <1>2, <2>1, FS_Subset
  <2> QED
    BY <1>2, <2>2
<1>4. ASSUME NEW k \in 1 .. Cardinality(kept)
      PROVE  \E i \in kept : Cardinality(UpTo(kept, i)) = k
  <2> DEFINE rank == [i \in kept |-> Cardinality(UpTo(kept, i))]
             ranks == 1 .. Cardinality(kept)
  <2>1. rank \in [kept -> ranks] /\ \A i, j \in kept : rank[i] = rank[j] => i = j
    <3>1. \A i \in kept : rank[i] \in ranks
      BY <1>2
    <3>2. ASSUME NEW i \in kept, NEW j \in kept, rank[i] = rank[j] PROVE i = j
      <4>1. rank[i] = Cardinality(UpTo(kept, i)) /\ rank[j] = Cardinality(UpTo(kept, j)) /\ rank[i] \in Nat
        BY <1>2
      <4>2. ~(i < j) /\ ~(j < i)
        <5>1. i < j => Cardinality(UpTo(kept, i)) < Cardinality(UpTo(kept, j))
          BY <1>3
        <5>2. j < i => Cardinality(UpTo(kept, j)) < Cardinality(UpTo(kept, i))
          BY <1>3
        <5>3. Cardinality(UpTo(kept, i)) = Cardinality(UpTo(kept, j)) /\ Cardinality(UpTo(kept, i)) \in Nat
          BY <3>2, <4>1
        <5> QED
          BY <5>1, <5>2, <5>3
      <4>3. i \in Nat /\ j \in Nat
        OBVIOUS
      <4> QED
        BY <4>2, <4>3
    <3> QED
      BY <3>1, <3>2
  <2>2. rank \in Injection(kept, ranks)
    <3> HIDE DEF rank, ranks
    <3> QED
      BY <2>1 DEF Injection, IsInjective
  <2>3. IsFiniteSet(ranks) /\ Cardinality(ranks) = Cardinality(kept)
    BY <1>1, FS_Interval
  <2>4. rank \in Surjection(kept, ranks)
    <3> HIDE DEF rank, ranks
    <3> QED
      BY <2>2, <2>3, FS_Injection
  <2>5. \E i \in kept : rank[i] = k
    <3> HIDE DEF rank
    <3> QED
      BY <2>4 DEF Surjection
  <2> QED
    BY <2>5
<1> QED
  BY <1>1, <1>2, <1>3, <1>4

\* A list comprehension keeps the elements of a list that are in a set and no other, in their order.
LEMMA OnlyProperties ==
  ASSUME NEW T, NEW s \in Seq(T), NEW S
  PROVE  Only(s, S) \in Seq(T) /\ IsSelected(Only(s, S), s, Len(s), S)
<1> DEFINE kept == {i \in 1 .. Len(s) : s[i] \in S}
           N == Cardinality(kept)
           Rank(i) == Cardinality(UpTo(kept, i))
           At(k) == CHOOSE i \in kept : Rank(i) = k
           t == Only(s, S)
<1>1. Len(s) \in Nat /\ kept \subseteq 1 .. Len(s) /\ \A i \in kept : s[i] \in S /\ s[i] \in T
  OBVIOUS
<1>2. t = [k \in 1 .. N |-> s[At(k)]]
  BY DEF Only, UpTo
<1>a. \A i \in 1 .. Len(s) : s[i] \in S => i \in kept
  OBVIOUS
<1> HIDE DEF kept
<1>3. /\ N \in Nat
      /\ \A i \in kept : Rank(i) \in 1 .. N
      /\ \A i, j \in kept : i < j => Rank(i) < Rank(j)
      /\ \A k \in 1 .. N : \E i \in kept : Rank(i) = k
  BY <1>1, Ranks
<1> HIDE DEF N, Rank
<1>4. \A k \in 1 .. N : At(k) \in kept /\ Rank(At(k)) = k
  BY <1>3
<1>5. \A i \in kept : At(Rank(i)) = i
  <2> SUFFICES ASSUME NEW i \in kept PROVE At(Rank(i)) = i
    OBVIOUS
  <2> DEFINE j == At(Rank(i))
  <2>1. j \in kept /\ Rank(j) = Rank(i) /\ Rank(i) \in Nat
    BY <1>3, <1>4
  <2> HIDE DEF j
  <2>2. ~(i < j) /\ ~(j < i)
    BY <1>3, <2>1
  <2>3. i \in Nat /\ j \in Nat
    BY <1>1, <2>1
  <2>4. j = i
    BY <2>2, <2>3
  <2> QED
    BY <2>4 DEF j
<1>6. \A k, l \in 1 .. N : k < l => At(k) < At(l)
  <2> SUFFICES ASSUME NEW k \in 1 .. N, NEW l \in 1 .. N, k < l PROVE At(k) < At(l)
    OBVIOUS
  <2>1. At(k) \in kept /\ At(l) \in kept /\ Rank(At(k)) = k /\ Rank(At(l)) = l
    BY <1>4
  <2> DEFINE i == At(k)
             j == At(l)
  <2>2. i \in Nat /\ j \in Nat
    <3>1. \A x \in kept : x \in Nat
      BY <1>1
    <3> HIDE DEF At
    <3> QED
      BY <2>1, <3>1
  <2> HIDE DEF i, j
  <2>3. ~(j < i) /\ j # i
    BY <1>3, <2>1 DEF i, j
  <2>4. i < j
    BY <2>2, <2>3
  <2> QED
    BY <2>4 DEF i, j
<1> HIDE DEF At
<1>7. t \in Seq(T) /\ Len(t) = N /\ \A k \in 1 .. N : t[k] = s[At(k)]
  <2>1. t \in [1 .. N -> T]
    BY <1>1, <1>2, <1>4
  <2>2. t \in Seq(T) /\ Len(t) = N
    <3> HIDE DEF t
    <3> QED
      BY <1>3, <2>1
  <2> QED
    BY <1>2, <2>2
<1> HIDE DEF t
<1>8. \A a \in 1 .. Len(s) : s[a] \in S => \E k \in 1 .. Len(t) : t[k] = s[a]
  <2> SUFFICES ASSUME NEW a \in kept PROVE \E k \in 1 .. N : t[k] = s[a]
    BY <1>7, <1>a
  <2>1. Rank(a) \in 1 .. N /\ At(Rank(a)) = a
    BY <1>3, <1>5
  <2> QED
    BY <1>7, <2>1
<1>9. \A k \in 1 .. Len(t) : \E a \in 1 .. Len(s) : t[k] = s[a] /\ s[a] \in S
  BY <1>1, <1>4, <1>7
<1>10. \A k, l \in 1 .. Len(t) : k < l => \E a, b \in 1 .. Len(s) : a < b /\ t[k] = s[a] /\ t[l] = s[b]
  BY <1>1, <1>4, <1>6, <1>7
<1> QED
  BY <1>7, <1>8, <1>9, <1>10 DEF t, IsSelected

-----------------------------------------------------------------------------
(* The ids on a list of timeouts.                                          *)

\* The id of a timeout is an id on its list.
LEMMA OfKindInIds ==
  ASSUME NEW L, NEW k
  PROVE  OfKind(L, k) \subseteq Ids(L)
BY DEF OfKind, Ids

\* The ids are those of the type.
LEMMA IdsType ==
  ASSUME NEW L \in Seq(Timeout)
  PROVE  Ids(L) \subseteq TimeoutIds
<1>1. \A i \in DOMAIN L : L[i] \in Timeout
  OBVIOUS
<1> QED
  BY <1>1 DEF Ids, Timeout

\* There are no ids on an empty list.
LEMMA NoIds == Ids(<<>>) = {} /\ \A k : OfKind(<<>>, k) = {}
BY DEF Ids, OfKind

\* Setting a timeout (foSetTimeout) with a new id.
LEMMA AppendTimeout ==
  ASSUME NEW L \in Seq(Timeout), Distinct(L), NEW o \in Timeout, o.id \notin Ids(L)
  PROVE  /\ Append(L, o) \in Seq(Timeout) /\ Distinct(Append(L, o))
         /\ Ids(Append(L, o)) = Ids(L) \cup {o.id}
         /\ OfKind(Append(L, o), o.kind) = OfKind(L, o.kind) \cup {o.id}
         /\ \A k : k # o.kind => OfKind(Append(L, o), k) = OfKind(L, k)
<1> DEFINE M == Append(L, o)
<1>1. /\ M \in Seq(Timeout) /\ Len(L) \in Nat /\ DOMAIN L = 1 .. Len(L)
      /\ DOMAIN M = 1 .. Len(L) + 1 /\ M[Len(L) + 1] = o
      /\ \A i \in 1 .. Len(L) : M[i] = L[i]
  OBVIOUS
<1> HIDE DEF M
<1>2. \A i \in 1 .. Len(L) + 1 : i \in 1 .. Len(L) \/ i = Len(L) + 1
  BY <1>1
<1>3. 1 .. Len(L) \subseteq 1 .. Len(L) + 1 /\ Len(L) + 1 \in 1 .. Len(L) + 1
  BY <1>1
<1>4. Distinct(M)
  BY <1>1, <1>2 DEF Distinct, Ids
<1>5. Ids(M) = Ids(L) \cup {o.id}
  BY <1>1, <1>2, <1>3 DEF Ids
<1>6. OfKind(M, o.kind) = OfKind(L, o.kind) \cup {o.id}
  BY <1>1, <1>2, <1>3 DEF OfKind
<1>7. ASSUME NEW k, k # o.kind PROVE OfKind(M, k) = OfKind(L, k)
  BY <1>1, <1>2, <1>3, <1>7 DEF OfKind
<1> QED
  BY <1>1, <1>4, <1>5, <1>6, <1>7 DEF M

\* Taking timeouts off a list (fClearTimeout and fRunTimeoutCallbacks).
LEMMA OnlyTimeouts ==
  ASSUME NEW L \in Seq(Timeout), Distinct(L), NEW S
  PROVE  /\ Only(L, S) \in Seq(Timeout) /\ Distinct(Only(L, S))
         /\ \A k : OfKind(Only(L, S), k) \subseteq OfKind(L, k)
         /\ \A id \in Ids(Only(L, S)) : \E i \in DOMAIN L : L[i].id = id /\ L[i] \in S
<1> DEFINE M == Only(L, S)
<1>1. M \in Seq(Timeout) /\ IsSelected(M, L, Len(L), S)
  BY OnlyProperties
<1>2. Len(L) \in Nat /\ DOMAIN L = 1 .. Len(L) /\ Len(M) \in Nat /\ DOMAIN M = 1 .. Len(M)
  BY <1>1
<1> HIDE DEF M
<1>3. Distinct(M)
  <2> SUFFICES ASSUME NEW i \in 1 .. Len(M), NEW j \in 1 .. Len(M), i < j PROVE M[i].id # M[j].id
    BY <1>2 DEF Distinct
  <2>1. PICK a \in 1 .. Len(L), b \in 1 .. Len(L) : a < b /\ M[i] = L[a] /\ M[j] = L[b]
    BY <1>1 DEF IsSelected
  <2>2. a # b
    BY <2>1
  <2> QED
    BY <1>2, <2>1, <2>2 DEF Distinct
<1>a. \A j \in DOMAIN M : \E i \in DOMAIN L : M[j] = L[i] /\ L[i] \in S
  BY <1>1, <1>2 DEF IsSelected
<1>4. ASSUME NEW k PROVE OfKind(M, k) \subseteq OfKind(L, k)
  BY <1>a DEF OfKind
<1>5. ASSUME NEW id \in Ids(M) PROVE \E i \in DOMAIN L : L[i].id = id /\ L[i] \in S
  <2>1. PICK j \in DOMAIN M : M[j].id = id
    BY <1>5 DEF Ids
  <2> QED
    BY <1>a, <2>1
<1> QED
  BY <1>1, <1>3, <1>4, <1>5 DEF M

\* The timeouts that stay are not those that are cleared.
LEMMA ClearedTimeouts ==
  ASSUME aoTimeouts \in Seq(Timeout), Distinct(aoTimeouts), NEW ids
  PROVE  /\ Cleared(ids) \in Seq(Timeout) /\ Distinct(Cleared(ids))
         /\ \A k : OfKind(Cleared(ids), k) \subseteq OfKind(aoTimeouts, k) \ ids
         /\ Ids(Cleared(ids)) \subseteq Ids(aoTimeouts) \ ids
<1> DEFINE S == {o \in Range(aoTimeouts) : o.id \notin ids}
<1>1. /\ Cleared(ids) \in Seq(Timeout) /\ Distinct(Cleared(ids))
      /\ \A k : OfKind(Cleared(ids), k) \subseteq OfKind(aoTimeouts, k)
      /\ \A id \in Ids(Cleared(ids)) : \E i \in DOMAIN aoTimeouts : aoTimeouts[i].id = id /\ aoTimeouts[i] \in S
  BY OnlyTimeouts DEF Cleared
<1>2. Ids(Cleared(ids)) \subseteq Ids(aoTimeouts) \ ids
  BY <1>1 DEF Ids
<1> HIDE DEF S
<1> QED
  BY <1>1, <1>2, OfKindInIds

\* The timeouts that are due and those that are not have no id in common.
LEMMA DueTimeouts ==
  ASSUME aoTimeouts \in Seq(Timeout), Distinct(aoTimeouts)
  PROVE  LET taken == Only(aoTimeouts, {o \in Range(aoTimeouts) : o.due})
             rest == Only(aoTimeouts, {o \in Range(aoTimeouts) : ~o.due})
         IN /\ taken \in Seq(Timeout) /\ Distinct(taken)
            /\ rest \in Seq(Timeout) /\ Distinct(rest)
            /\ \A k : OfKind(taken, k) \subseteq OfKind(aoTimeouts, k)
            /\ \A k : OfKind(rest, k) \subseteq OfKind(aoTimeouts, k)
            /\ Ids(taken) \cap Ids(rest) = {}
<1> DEFINE S == {o \in Range(aoTimeouts) : o.due}
           R == {o \in Range(aoTimeouts) : ~o.due}
           taken == Only(aoTimeouts, S)
           rest == Only(aoTimeouts, R)
<1>1. /\ taken \in Seq(Timeout) /\ Distinct(taken)
      /\ \A k : OfKind(taken, k) \subseteq OfKind(aoTimeouts, k)
      /\ \A id \in Ids(taken) : \E i \in DOMAIN aoTimeouts : aoTimeouts[i].id = id /\ aoTimeouts[i] \in S
  BY OnlyTimeouts
<1>2. /\ rest \in Seq(Timeout) /\ Distinct(rest)
      /\ \A k : OfKind(rest, k) \subseteq OfKind(aoTimeouts, k)
      /\ \A id \in Ids(rest) : \E i \in DOMAIN aoTimeouts : aoTimeouts[i].id = id /\ aoTimeouts[i] \in R
  BY OnlyTimeouts
<1> HIDE DEF taken, rest
<1>3. Ids(taken) \cap Ids(rest) = {}
  <2> SUFFICES ASSUME NEW id \in Ids(taken), id \in Ids(rest) PROVE FALSE
    OBVIOUS
  <2>1. PICK i \in DOMAIN aoTimeouts : aoTimeouts[i].id = id /\ aoTimeouts[i].due
    BY <1>1
  <2>2. PICK j \in DOMAIN aoTimeouts : aoTimeouts[j].id = id /\ ~aoTimeouts[j].due
    BY <1>2
  <2>3. i = j
    BY <2>1, <2>2 DEF Distinct
  <2> QED
    BY <2>1, <2>2, <2>3
<1> QED
  BY <1>1, <1>2, <1>3 DEF taken, rest

\* The timeouts that are still to be fired after the first.
LEMMA TailTimeouts ==
  ASSUME NEW L \in Seq(Timeout), Distinct(L), L # <<>>
  PROVE  /\ Tail(L) \in Seq(Timeout) /\ Distinct(Tail(L))
         /\ \A k : OfKind(Tail(L), k) \subseteq OfKind(L, k) \ {L[1].id}
         /\ Ids(Tail(L)) \subseteq Ids(L) \ {L[1].id}
         /\ L[1] \in Timeout /\ Head(L) = L[1] /\ L[1].id \in OfKind(L, L[1].kind)
<1> DEFINE M == Tail(L)
<1>1. /\ M \in Seq(Timeout) /\ Len(L) \in Nat /\ DOMAIN L = 1 .. Len(L) /\ Len(L) # 0
      /\ DOMAIN M = 1 .. Len(L) - 1 /\ \A i \in 1 .. Len(L) - 1 : M[i] = L[i + 1]
      /\ L[1] \in Timeout /\ Head(L) = L[1]
  OBVIOUS
<1> HIDE DEF M
<1>2. \A i \in 1 .. Len(L) - 1 : i + 1 \in 1 .. Len(L) /\ i + 1 # 1
  BY <1>1
<1>3. 1 \in 1 .. Len(L)
  BY <1>1
<1>4. Distinct(M)
  <2> SUFFICES ASSUME NEW i \in 1 .. Len(L) - 1, NEW j \in 1 .. Len(L) - 1, M[i].id = M[j].id
               PROVE  i = j
    BY <1>1 DEF Distinct
  <2>1. i + 1 = j + 1
    BY <1>1, <1>2 DEF Distinct
  <2> QED
    BY <2>1
<1>5. \A i \in DOMAIN M : M[i].id # L[1].id
  BY <1>1, <1>2, <1>3 DEF Distinct
<1>6. Ids(M) \subseteq Ids(L) \ {L[1].id}
  BY <1>1, <1>2, <1>5 DEF Ids
<1>7. ASSUME NEW k PROVE OfKind(M, k) \subseteq OfKind(L, k) \ {L[1].id}
  BY <1>1, <1>2, <1>5 DEF OfKind
<1>8. L[1].id \in OfKind(L, L[1].kind)
  BY <1>1, <1>3 DEF OfKind
<1> QED
  BY <1>1, <1>4, <1>6, <1>7, <1>8 DEF M

\* A timeout that becomes due stays the timeout it is.
LEMMA TimeoutBecomesDue ==
  ASSUME NEW L \in Seq(Timeout), Distinct(L), NEW n \in DOMAIN L
  PROVE  LET M == [L EXCEPT ![n] = New(L[n].id, L[n].kind, TRUE)]
         IN /\ M \in Seq(Timeout) /\ Distinct(M) /\ Ids(M) = Ids(L)
            /\ \A k : OfKind(M, k) = OfKind(L, k)
<1> DEFINE o == New(L[n].id, L[n].kind, TRUE)
           M == [L EXCEPT ![n] = o]
<1>1. L[n] \in Timeout
  OBVIOUS
<1>2. o \in Timeout /\ o.id = L[n].id /\ o.kind = L[n].kind
  BY <1>1 DEF Timeout, New
<1> HIDE DEF o
<1>4. M \in Seq(Timeout)
  BY <1>2
<1>5. DOMAIN M = DOMAIN L
  OBVIOUS
<1>6. \A i \in DOMAIN L : M[i].id = L[i].id /\ M[i].kind = L[i].kind
  BY <1>2
<1> HIDE DEF M
<1>7. Distinct(M) /\ Ids(M) = Ids(L)
  BY <1>5, <1>6 DEF Distinct, Ids
<1>8. ASSUME NEW k PROVE OfKind(M, k) = OfKind(L, k)
  BY <1>5, <1>6 DEF OfKind
<1> QED
  BY <1>4, <1>7, <1>8 DEF M, o

-----------------------------------------------------------------------------
(* The inductive invariant.                                                *)

Waiting(kind) == OfKind(aoTimeouts, kind)
Firing(kind) == OfKind(aoTimeoutsToFire, kind)
NoBreakpoints == uWormBreakpointId = NULL /\ uBugBreakpointId = NULL

ListsInv ==
  /\ aoTimeouts \in Seq(Timeout) /\ Distinct(aoTimeouts)
  /\ aoTimeoutsToFire \in Seq(Timeout) /\ Distinct(aoTimeoutsToFire)
  /\ Ids(aoTimeouts) \cap Ids(aoTimeoutsToFire) = {}

TypesInv ==
  /\ sUse \in {"check", "start"}
  /\ mainPc \in {"run", "hit", "timeouts", "fire", "started", "reported", "failed"}
  /\ sProcess \in {"known", "exited", "gone"}
  /\ stack \in Seq(Functions) /\ Depth \in 1..MaxDepth
  /\ bStarted \in BOOLEAN
  /\ oStartTimeout \in TimeoutIds \cup {NULL}
  /\ oCleanupTimeout \in TimeoutIds \cup {NULL}
  /\ oCheckUsageTimeout \in TimeoutIds \cup {NULL}
  /\ oWormRunTimeout \in TimeoutIds \cup {NULL}
  /\ dfCallback_by_uAddress \in [Addresses -> Roles]
  /\ uWormBreakpointId \in Addresses \cup {NULL}
  /\ uBugBreakpointId \in Addresses \cup {NULL}
  /\ uLastInstructionPointer \in Functions \cup {NULL}
  /\ uLastDepth \in 0..MaxDepth
  /\ uNextBreakpointAddress \in Addresses \cup {NULL}
  /\ reported \in 0..MaxDepth

\* When there are timeouts to fire.
FireInv ==
  /\ mainPc \in {"run", "hit", "timeouts", "reported"} => aoTimeoutsToFire = <<>>
  /\ mainPc \in {"fire", "started"} => aoTimeoutsToFire # <<>>
  /\ mainPc = "started" => /\ aoTimeoutsToFire[1].kind = "start"
                           /\ oCleanupTimeout = NULL /\ bStarted

\* The timeouts on both lists are those that the variables of the detector refer to, except for
\* those to be fired that were given up: a cleanup, or a worm, that is no longer wanted.
HandleInv ==
  /\ Waiting("start") \cup Firing("start") \subseteq {oStartTimeout}
  /\ Waiting("check") \cup Firing("check") \subseteq {oCheckUsageTimeout}
  /\ Waiting("cleanup") \subseteq {oCleanupTimeout}
  /\ Waiting("worm") \subseteq {oWormRunTimeout}
  /\ oCleanupTimeout # NULL => Firing("cleanup") \subseteq {oCleanupTimeout}
  /\ oWormRunTimeout # NULL => Firing("worm") \subseteq {oWormRunTimeout}
  /\ Firing("check") \cup Firing("manual") # {} => Firing("worm") = {}

\* What each entry of the API is not used for.
UseInv ==
  /\ sUse = "start" => Waiting("manual") \cup Firing("manual") = {}
  /\ sUse = "start" /\ ~bStarted => NoBreakpoints /\ oCheckUsageTimeout = NULL
  /\ sUse = "check" =>
       /\ oStartTimeout = NULL /\ oCleanupTimeout = NULL /\ oCheckUsageTimeout = NULL
       /\ \A id, other \in Waiting("manual") \cup Firing("manual") : id = other
       /\ Waiting("manual") \cup Firing("manual") # {} => NoBreakpoints

\* A search is started when no other goes on, and goes through its stages.
ChainInv ==
  /\ Waiting("start") \cup Firing("start") # {} =>
       oCheckUsageTimeout = NULL /\ (oCleanupTimeout = NULL => NoBreakpoints)
  /\ oCheckUsageTimeout # NULL => NoBreakpoints
  /\ oWormRunTimeout = NULL <=> uWormBreakpointId = NULL
  /\ uWormBreakpointId # NULL =>
       /\ uBugBreakpointId = NULL
       /\ uNextBreakpointAddress = uWormBreakpointId
       /\ uLastInstructionPointer # NULL
  /\ uBugBreakpointId # NULL => uNextBreakpointAddress = uBugBreakpointId

BreakpointsInv ==
  \A a \in Addresses :
    /\ dfCallback_by_uAddress[a] = "worm" <=> a = uWormBreakpointId
    /\ dfCallback_by_uAddress[a] = "bug" <=> a = uBugBreakpointId

WInv ==
  /\ TypesInv /\ ListsInv /\ FireInv /\ HandleInv
  /\ UseInv /\ ChainInv /\ BreakpointsInv /\ FailsOnlyWithoutProcess

-----------------------------------------------------------------------------
(* What the actions have in common.                                        *)

\* The elements of two lists together are those of each.
LEMMA BothLists ==
  ASSUME NEW A \in Seq(Timeout), NEW B \in Seq(Timeout)
  PROVE  /\ \A o \in Range(A \o B) : (\E i \in DOMAIN A : A[i] = o) \/ (\E i \in DOMAIN B : B[i] = o)
         /\ \A i \in DOMAIN A : A[i] \in Range(A \o B)
         /\ \A i \in DOMAIN B : B[i] \in Range(A \o B)
<1> DEFINE both == A \o B
<1>1. /\ DOMAIN both = 1 .. Len(A) + Len(B) /\ Len(A) \in Nat /\ Len(B) \in Nat
      /\ DOMAIN A = 1 .. Len(A) /\ DOMAIN B = 1 .. Len(B)
      /\ \A i \in 1 .. Len(A) : both[i] = A[i]
      /\ \A i \in 1 .. Len(B) : both[Len(A) + i] = B[i]
  OBVIOUS
<1>2. \A i \in DOMAIN both : \/ i \in DOMAIN A
                             \/ i - Len(A) \in DOMAIN B /\ i = Len(A) + (i - Len(A))
  BY <1>1
<1>3. (\A i \in DOMAIN A : i \in DOMAIN both) /\ \A i \in DOMAIN B : Len(A) + i \in DOMAIN both
  BY <1>1
<1> HIDE DEF both
<1>4. \A i \in DOMAIN both : (\E j \in DOMAIN A : A[j] = both[i]) \/ (\E j \in DOMAIN B : B[j] = both[i])
  BY <1>1, <1>2
<1>5. /\ \A i \in DOMAIN A : \E j \in DOMAIN both : both[j] = A[i]
      /\ \A i \in DOMAIN B : \E j \in DOMAIN both : both[j] = B[i]
  BY <1>1, <1>3
<1> QED
  BY <1>4, <1>5 DEF Range, both

\* A new timeout is not one that anything refers to.
LEMMA FreeIdsAreFree ==
  ASSUME ListsInv, NEW id \in FreeIds
  PROVE  /\ id \in TimeoutIds /\ id # NULL
         /\ id \notin {oStartTimeout, oCleanupTimeout, oCheckUsageTimeout, oWormRunTimeout}
         /\ id \notin Ids(aoTimeouts) /\ id \notin Ids(aoTimeoutsToFire)
<1>1. /\ \A i \in DOMAIN aoTimeouts : aoTimeouts[i] \in Range(aoTimeouts \o aoTimeoutsToFire)
      /\ \A i \in DOMAIN aoTimeoutsToFire : aoTimeoutsToFire[i] \in Range(aoTimeouts \o aoTimeoutsToFire)
  BY BothLists DEF ListsInv
<1>2. id \notin Ids(aoTimeouts) /\ id \notin Ids(aoTimeoutsToFire)
  BY <1>1 DEF FreeIds, Ids
<1>3. NULL \notin TimeoutIds
  BY CPUUsageWormAssumption
<1> QED
  BY <1>2, <1>3 DEF FreeIds

\* Setting a timeout takes an id that is free.
LEMMA FreeIdIsFree ==
  ASSUME FreeIds # {}
  PROVE  FreeId \in FreeIds
BY DEF FreeId

\* Whether there is a timeout of a kind.
LEMMA ExistsOnAList ==
  ASSUME ListsInv, NEW k
  PROVE  Exists(k) <=> Waiting(k) \cup Firing(k) # {}
<1> DEFINE both == aoTimeouts \o aoTimeoutsToFire
<1>1. /\ \A o \in Range(both) : \/ \E i \in DOMAIN aoTimeouts : aoTimeouts[i] = o
                                \/ \E i \in DOMAIN aoTimeoutsToFire : aoTimeoutsToFire[i] = o
      /\ \A i \in DOMAIN aoTimeouts : aoTimeouts[i] \in Range(both)
      /\ \A i \in DOMAIN aoTimeoutsToFire : aoTimeoutsToFire[i] \in Range(both)
  BY BothLists DEF ListsInv
<1>2. Exists(k) <=> \E o \in Range(both) : o.kind = k
  BY DEF Exists
<1> HIDE DEF both
<1>3. Waiting(k) # {} <=> \E i \in DOMAIN aoTimeouts : aoTimeouts[i].kind = k
  BY DEF Waiting, OfKind
<1>4. Firing(k) # {} <=> \E i \in DOMAIN aoTimeoutsToFire : aoTimeoutsToFire[i].kind = k
  BY DEF Firing, OfKind
<1>5. CASE \E o \in Range(both) : o.kind = k
  <2>1. PICK o \in Range(both) : o.kind = k
    BY <1>5
  <2> QED
    BY <1>1, <1>2, <1>3, <1>4, <2>1
<1>6. CASE ~\E o \in Range(both) : o.kind = k
  BY <1>1, <1>2, <1>3, <1>4, <1>6
<1> QED
  BY <1>5, <1>6

-----------------------------------------------------------------------------
(* The invariant is inductive.                                             *)

\* Init: a detector that has not been used.
LEMMA InitWInv == Init => WInv
<1> SUFFICES ASSUME Init PROVE WInv
  OBVIOUS
<1>1. NULL \notin Addresses
  BY CPUUsageWormAssumption DEF Addresses
<1>2. TypesInv
  <2>1. stack \in Seq(Functions) /\ Depth \in 1 .. MaxDepth
    <3>1. PICK f \in Functions : stack = <<f>>
      BY DEF Init
    <3>2. stack \in Seq(Functions) /\ Len(stack) = 1
      BY <3>1
    <3> QED
      BY <3>2, CPUUsageWormAssumption DEF Depth
  <2>2. 0 \in 0 .. MaxDepth
    BY CPUUsageWormAssumption
  <2>3. dfCallback_by_uAddress \in [Addresses -> Roles]
    BY DEF Init, Roles
  <2> QED
    BY <2>1, <2>2, <2>3 DEF Init, TypesInv
<1>3. ListsInv
  BY DEF Init, ListsInv, Distinct, Ids
<1>4. FireInv
  BY DEF Init, FireInv
<1>5. HandleInv
  BY NoIds DEF Init, HandleInv, Waiting, Firing
<1>6. UseInv
  BY NoIds DEF Init, UseInv, Waiting, Firing, NoBreakpoints
<1>7. ChainInv
  BY NoIds DEF Init, ChainInv, Waiting, Firing
<1>8. BreakpointsInv
  BY <1>1 DEF Init, BreakpointsInv
<1>9. FailsOnlyWithoutProcess
  BY DEF Init, FailsOnlyWithoutProcess
<1> QED
  BY <1>2, <1>3, <1>4, <1>5, <1>6, <1>7, <1>8, <1>9 DEF WInv

\* Nothing changes.
LEMMA StutteringStep == WInv /\ UNCHANGED vars => WInv'
BY DEF WInv, TypesInv, ListsInv, FireInv, HandleInv, UseInv, ChainInv, BreakpointsInv,
       FailsOnlyWithoutProcess, Waiting, Firing, NoBreakpoints, Depth, vars, handleVars,
       breakpointVars, lastVars

\* Only what the detector knows matters, not what the application does.
LEMMA ApplicationStep ==
  ASSUME WInv, Execute \/ Pause PROVE WInv'
<1>1. /\ UNCHANGED <<sUse, aoTimeouts, aoTimeoutsToFire, bStarted, handleVars, breakpointVars,
                     lastVars, reported>>
      /\ mainPc = "run" /\ mainPc' \in {"run", "hit", "timeouts"}
      /\ sProcess' \in {"known", "exited", "gone"}
  BY DEF WInv, TypesInv, Execute, Pause, SelectOther
<1>2. stack' \in Seq(Functions) /\ Depth' \in 1 .. MaxDepth
  <2>1. CASE UNCHANGED stack
    BY <2>1 DEF WInv, TypesInv, Depth
  <2>2. ASSUME NEW f \in Functions, Depth < MaxDepth, stack' = Append(stack, f)
        PROVE  stack' \in Seq(Functions) /\ Depth' \in 1 .. MaxDepth
    BY <2>2, CPUUsageWormAssumption DEF WInv, TypesInv, Depth
  <2>3. CASE Depth > 1 /\ stack' = Front(stack)
    BY <2>3, CPUUsageWormAssumption DEF WInv, TypesInv, Depth, Front
  <2> QED
    BY <2>1, <2>2, <2>3 DEF Execute, Pause
<1>3. TypesInv'
  BY <1>1, <1>2 DEF WInv, TypesInv, handleVars, breakpointVars, lastVars
<1>4. ListsInv' /\ HandleInv' /\ UseInv' /\ ChainInv' /\ BreakpointsInv'
  BY <1>1 DEF WInv, ListsInv, HandleInv, UseInv, ChainInv, BreakpointsInv, Waiting, Firing,
              NoBreakpoints, handleVars, breakpointVars, lastVars
<1>5. FireInv' /\ FailsOnlyWithoutProcess'
  BY <1>1 DEF WInv, FireInv, FailsOnlyWithoutProcess
<1> QED
  BY <1>3, <1>4, <1>5 DEF WInv

\* A timeout becomes due.
LEMMA TimePassesStep ==
  ASSUME WInv, NEW id \in TimeoutIds, TimePasses(id) PROVE WInv'
<1>1. PICK i \in DOMAIN aoTimeouts :
        aoTimeouts' = [aoTimeouts EXCEPT ![i] = New(aoTimeouts[i].id, aoTimeouts[i].kind, TRUE)]
  BY DEF TimePasses
<1>2. /\ aoTimeouts' \in Seq(Timeout) /\ Distinct(aoTimeouts') /\ Ids(aoTimeouts') = Ids(aoTimeouts)
      /\ \A k : OfKind(aoTimeouts', k) = OfKind(aoTimeouts, k)
  BY <1>1, TimeoutBecomesDue DEF WInv, ListsInv
<1>3. UNCHANGED <<sUse, mainPc, sProcess, stack, aoTimeoutsToFire, bStarted, handleVars,
                  breakpointVars, lastVars, reported>>
  BY DEF TimePasses
<1>4. TypesInv' /\ FireInv' /\ BreakpointsInv' /\ FailsOnlyWithoutProcess'
  BY <1>3 DEF WInv, TypesInv, FireInv, BreakpointsInv, FailsOnlyWithoutProcess, Depth,
              handleVars, breakpointVars, lastVars
<1>5. ListsInv'
  BY <1>2, <1>3 DEF WInv, ListsInv
<1>6. HandleInv' /\ UseInv' /\ ChainInv'
  BY <1>2, <1>3 DEF WInv, HandleInv, UseInv, ChainInv, Waiting, Firing, NoBreakpoints,
                    handleVars, breakpointVars, lastVars
<1> QED
  BY <1>4, <1>5, <1>6 DEF WInv

\* fRunTimeoutCallbacks takes what is due off the list.
LEMMA TakeDueStep ==
  ASSUME WInv, TakeDue PROVE WInv'
<1>1. /\ aoTimeouts' \in Seq(Timeout) /\ Distinct(aoTimeouts')
      /\ aoTimeoutsToFire' \in Seq(Timeout) /\ Distinct(aoTimeoutsToFire')
      /\ Ids(aoTimeouts') \cap Ids(aoTimeoutsToFire') = {}
      /\ \A k : OfKind(aoTimeouts', k) \cup OfKind(aoTimeoutsToFire', k) \subseteq OfKind(aoTimeouts, k)
  BY DueTimeouts DEF WInv, ListsInv, TakeDue
<1>2. /\ UNCHANGED <<sUse, sProcess, stack, bStarted, handleVars, breakpointVars, lastVars, reported>>
      /\ mainPc' = IF aoTimeoutsToFire' = <<>> THEN "run" ELSE "fire"
      /\ mainPc = "timeouts"
  BY DEF TakeDue
<1>3. TypesInv' /\ FireInv' /\ BreakpointsInv' /\ FailsOnlyWithoutProcess'
  BY <1>2 DEF WInv, TypesInv, FireInv, BreakpointsInv, FailsOnlyWithoutProcess, Depth,
              handleVars, breakpointVars, lastVars
<1>4. ListsInv'
  BY <1>1 DEF ListsInv
<1>5. Waiting("check") \cup Waiting("manual") # {} => Waiting("worm") = {}
  <2>1. NULL \notin Waiting("check") /\ NULL \notin Waiting("worm")
    BY OfKindInIds, IdsType, CPUUsageWormAssumption DEF WInv, ListsInv, Waiting
  <2>2. Waiting("check") \cup Waiting("manual") # {} => uWormBreakpointId = NULL
    BY <2>1 DEF WInv, TypesInv, HandleInv, UseInv, ChainInv, NoBreakpoints
  <2> QED
    BY <2>1, <2>2 DEF WInv, HandleInv, ChainInv
<1>6. HandleInv'
  BY <1>1, <1>2, <1>5 DEF WInv, HandleInv, Waiting, Firing, handleVars
<1>7. UseInv' /\ ChainInv'
  BY <1>1, <1>2 DEF WInv, UseInv, ChainInv, Waiting, Firing, NoBreakpoints,
                    handleVars, breakpointVars, lastVars
<1> QED
  BY <1>3, <1>4, <1>6, <1>7 DEF WInv

-----------------------------------------------------------------------------
(* Timeouts that are fired.                                                *)

\* An exception ends the cdb stdin/out thread.
LEMMA FailStep ==
  ASSUME WInv, Fail, sProcess # "known" PROVE WInv'
<1>1. /\ UNCHANGED <<sUse, sProcess, stack, aoTimeouts, aoTimeoutsToFire, bStarted, handleVars,
                     breakpointVars, lastVars, reported>>
      /\ mainPc' = "failed"
  BY DEF Fail
<1>2. TypesInv' /\ ListsInv' /\ FireInv' /\ BreakpointsInv' /\ FailsOnlyWithoutProcess'
  BY <1>1 DEF WInv, TypesInv, ListsInv, FireInv, BreakpointsInv, FailsOnlyWithoutProcess, Depth,
              handleVars, breakpointVars, lastVars
<1>3. HandleInv' /\ UseInv' /\ ChainInv'
  BY <1>1 DEF WInv, HandleInv, UseInv, ChainInv, Waiting, Firing, NoBreakpoints,
              handleVars, breakpointVars, lastVars
<1> QED
  BY <1>2, <1>3 DEF WInv

\* What the detector expects stays true when it changes nothing but loses timeouts.
LEMMA FewerTimeouts ==
  ASSUME WInv,
         UNCHANGED <<sUse, bStarted, handleVars, breakpointVars, lastVars>>,
         \A k : OfKind(aoTimeouts', k) \subseteq OfKind(aoTimeouts, k),
         \A k : OfKind(aoTimeoutsToFire', k) \subseteq OfKind(aoTimeoutsToFire, k)
  PROVE  HandleInv' /\ UseInv' /\ ChainInv' /\ BreakpointsInv'
<1>1. HandleInv'
  BY DEF WInv, HandleInv, Waiting, Firing, handleVars
<1>2. UseInv'
  BY DEF WInv, UseInv, Waiting, Firing, NoBreakpoints, handleVars, breakpointVars
<1>3. ChainInv'
  BY DEF WInv, ChainInv, Waiting, Firing, NoBreakpoints, handleVars, breakpointVars, lastVars
<1>4. BreakpointsInv'
  BY DEF WInv, BreakpointsInv, breakpointVars
<1> QED
  BY <1>1, <1>2, <1>3, <1>4

first == aoTimeoutsToFire[1]

\* The timeout that is fired: no other timeout has its id.
LEMMA FirstTimeout ==
  ASSUME WInv, mainPc \in {"fire", "started"}
  PROVE  /\ first = Head(aoTimeoutsToFire) /\ first \in Timeout
         /\ first.id \in Firing(first.kind) /\ first.id # NULL
         /\ \A k : first.id \notin Waiting(k)
         /\ first.id \notin Ids(Tail(aoTimeoutsToFire))
         /\ \A k : first.id \notin OfKind(Tail(aoTimeoutsToFire), k)
         /\ Tail(aoTimeoutsToFire) \in Seq(Timeout) /\ Distinct(Tail(aoTimeoutsToFire))
         /\ Ids(Tail(aoTimeoutsToFire)) \subseteq Ids(aoTimeoutsToFire)
         /\ \A k : OfKind(Tail(aoTimeoutsToFire), k) \subseteq Firing(k)
<1>1. aoTimeoutsToFire # <<>>
  BY DEF WInv, FireInv
<1>2. /\ aoTimeoutsToFire \in Seq(Timeout) /\ Distinct(aoTimeoutsToFire)
      /\ Ids(aoTimeouts) \cap Ids(aoTimeoutsToFire) = {}
  BY DEF WInv, ListsInv
<1> DEFINE rest == Tail(aoTimeoutsToFire)
<1>3. /\ rest \in Seq(Timeout) /\ Distinct(rest)
      /\ \A k : OfKind(rest, k) \subseteq OfKind(aoTimeoutsToFire, k) \ {first.id}
      /\ Ids(rest) \subseteq Ids(aoTimeoutsToFire) \ {first.id}
      /\ first \in Timeout /\ Head(aoTimeoutsToFire) = first
      /\ first.id \in OfKind(aoTimeoutsToFire, first.kind)
  BY <1>1, <1>2, TailTimeouts DEF first
<1>4. first.id \in Ids(aoTimeoutsToFire)
  BY <1>3, OfKindInIds
<1>5. \A k : first.id \notin Waiting(k)
  BY <1>2, <1>4, OfKindInIds DEF Waiting
<1>6. first.id # NULL
  BY <1>3, CPUUsageWormAssumption DEF Timeout
<1> HIDE DEF rest
<1> QED
  BY <1>3, <1>5, <1>6 DEF Firing, rest

\* What firing it leaves to be fired.
LEMMA FiredTimeout ==
  ASSUME WInv, mainPc \in {"fire", "started"}, Fired
  PROVE  /\ aoTimeoutsToFire' \in Seq(Timeout) /\ Distinct(aoTimeoutsToFire')
         /\ Ids(aoTimeoutsToFire') \subseteq Ids(aoTimeoutsToFire)
         /\ \A k : OfKind(aoTimeoutsToFire', k) \subseteq OfKind(aoTimeoutsToFire, k) \ {first.id}
         /\ FireInv' /\ FailsOnlyWithoutProcess'
         /\ mainPc' \in {"timeouts", "fire"} /\ UNCHANGED <<sUse, stack, reported>>
<1>1. aoTimeoutsToFire' = Tail(aoTimeoutsToFire)
  BY DEF Fired
<1>2. FireInv'
  BY DEF Fired, FireInv
<1>3. mainPc' \in {"timeouts", "fire"} /\ UNCHANGED <<sUse, stack, reported>>
  BY DEF Fired
<1> QED
  BY <1>1, <1>2, <1>3, FirstTimeout DEF FailsOnlyWithoutProcess, Firing

\* fCleanup: afterwards no cleanup is wanted, and the worm and its timeout are gone if one was.
LEMMA CleanupEffect ==
  ASSUME WInv, Cleanup
  PROVE  /\ aoTimeouts' \in Seq(Timeout) /\ Distinct(aoTimeouts')
         /\ Ids(aoTimeouts') \subseteq Ids(aoTimeouts)
         /\ \A k : OfKind(aoTimeouts', k) \subseteq Waiting(k)
         /\ oCleanupTimeout' = NULL
         /\ OfKind(aoTimeouts', "cleanup") \subseteq {NULL}
         /\ \/ UNCHANGED <<oCleanupTimeout, oWormRunTimeout, breakpointVars>>
            \/ /\ OfKind(aoTimeouts', "worm") = {} /\ oWormRunTimeout' = NULL /\ NoBreakpoints'
               /\ dfCallback_by_uAddress' = Without({uWormBreakpointId, uBugBreakpointId})
<1>1. aoTimeouts \in Seq(Timeout) /\ Distinct(aoTimeouts)
  BY DEF WInv, ListsInv
<1>2. CASE oCleanupTimeout = NULL
  <2>1. UNCHANGED <<aoTimeouts, oCleanupTimeout, oWormRunTimeout, breakpointVars>>
    BY <1>2 DEF Cleanup
  <2> QED
    BY <1>1, <1>2, <2>1 DEF WInv, HandleInv, Waiting
<1>3. CASE oCleanupTimeout # NULL
  <2> DEFINE ids == {oCleanupTimeout, oWormRunTimeout}
  <2>1. /\ aoTimeouts' = Cleared(ids) /\ oCleanupTimeout' = NULL /\ oWormRunTimeout' = NULL
        /\ uWormBreakpointId' = NULL /\ uBugBreakpointId' = NULL
        /\ dfCallback_by_uAddress' = Without({uWormBreakpointId, uBugBreakpointId})
    BY <1>3 DEF Cleanup
  <2>2. /\ Cleared(ids) \in Seq(Timeout) /\ Distinct(Cleared(ids))
        /\ \A k : OfKind(Cleared(ids), k) \subseteq OfKind(aoTimeouts, k) \ ids
        /\ Ids(Cleared(ids)) \subseteq Ids(aoTimeouts) \ ids
    BY <1>1, ClearedTimeouts
  <2>3. OfKind(Cleared(ids), "worm") = {} /\ OfKind(Cleared(ids), "cleanup") = {}
    BY <2>2 DEF WInv, HandleInv, Waiting
  <2> HIDE DEF ids
  <2> QED
    BY <2>1, <2>2, <2>3 DEF NoBreakpoints, Waiting
<1> QED
  BY <1>2, <1>3

\* What the detector expects stays true of what is left.
LEMMA CleanedUp ==
  ASSUME WInv, Cleanup,
         UNCHANGED <<sUse, oStartTimeout, oCheckUsageTimeout, lastVars>>,
         bStarted' = bStarted \/ (bStarted' = TRUE /\ sUse = "start"),
         \A k : OfKind(aoTimeoutsToFire', k) \subseteq OfKind(aoTimeoutsToFire, k)
  PROVE  HandleInv' /\ UseInv' /\ ChainInv' /\ BreakpointsInv'
<1>1. CASE UNCHANGED <<oCleanupTimeout, oWormRunTimeout, breakpointVars>>
  <2>1. HandleInv'
    BY <1>1, CleanupEffect DEF WInv, HandleInv, Waiting, Firing
  <2>2. UseInv'
    BY <1>1, CleanupEffect DEF WInv, UseInv, Waiting, Firing, NoBreakpoints, breakpointVars
  <2>3. ChainInv'
    BY <1>1, CleanupEffect DEF WInv, ChainInv, Waiting, Firing, NoBreakpoints, breakpointVars, lastVars
  <2>4. BreakpointsInv'
    BY <1>1 DEF WInv, BreakpointsInv, breakpointVars
  <2> QED
    BY <2>1, <2>2, <2>3, <2>4
<1>2. CASE /\ OfKind(aoTimeouts', "worm") = {} /\ oWormRunTimeout' = NULL /\ NoBreakpoints'
           /\ dfCallback_by_uAddress' = Without({uWormBreakpointId, uBugBreakpointId})
  <2>1. HandleInv'
    BY <1>2, CleanupEffect DEF WInv, HandleInv, Waiting, Firing
  <2>2. UseInv'
    BY <1>2, CleanupEffect DEF WInv, UseInv, Waiting, Firing
  <2>3. ChainInv'
    BY <1>2, CleanupEffect DEF WInv, ChainInv, Waiting, Firing, NoBreakpoints
  <2>4. BreakpointsInv'
    <3>1. \A a \in Addresses : a # NULL
      BY CPUUsageWormAssumption DEF Addresses
    <3>2. \A a \in Addresses : dfCallback_by_uAddress'[a] = "none"
      BY <1>2 DEF WInv, TypesInv, BreakpointsInv, Without, Roles
    <3> QED
      BY <1>2, <3>1, <3>2 DEF BreakpointsInv, NoBreakpoints
  <2> QED
    BY <2>1, <2>2, <2>3, <2>4
<1> QED
  BY <1>1, <1>2, CleanupEffect

\* The types after it.
LEMMA CleanupTypes ==
  ASSUME WInv, Cleanup
  PROVE  /\ oCleanupTimeout' \in TimeoutIds \cup {NULL} /\ oWormRunTimeout' \in TimeoutIds \cup {NULL}
         /\ dfCallback_by_uAddress' \in [Addresses -> Roles]
         /\ uWormBreakpointId' \in Addresses \cup {NULL} /\ uBugBreakpointId' \in Addresses \cup {NULL}
BY DEF WInv, TypesInv, Cleanup, Without, Roles, breakpointVars

\* It fails only when the process is gone.
LEMMA CleanupFailsStep ==
  ASSUME WInv, CleanupFails PROVE WInv'
BY FailStep DEF CleanupFails, CanRemove

\* The cleanup that fStartTimeout sets.
LEMMA fCleanupStep ==
  ASSUME WInv, fCleanup PROVE WInv'
<1>1. CASE Cleanup /\ Fired /\ UNCHANGED <<sProcess, bStarted, oStartTimeout, oCheckUsageTimeout, lastVars>>
  <2>1. mainPc = "fire"
    BY DEF fCleanup, Fires
  <2>2. TypesInv'
    BY <1>1, <2>1, CleanupTypes, FiredTimeout DEF WInv, TypesInv, Depth, lastVars
  <2>3. ListsInv'
    BY <1>1, <2>1, CleanupEffect, FiredTimeout DEF WInv, ListsInv
  <2>4. HandleInv' /\ UseInv' /\ ChainInv' /\ BreakpointsInv'
    <3>1. UNCHANGED <<sUse, oStartTimeout, oCheckUsageTimeout, lastVars>>
      BY <1>1, <2>1, FiredTimeout
    <3>2. \A k : OfKind(aoTimeoutsToFire', k) \subseteq OfKind(aoTimeoutsToFire, k)
      BY <1>1, <2>1, FiredTimeout
    <3>3. bStarted' = bStarted
      BY <1>1
    <3> QED
      BY <1>1, <3>1, <3>2, <3>3, CleanedUp
  <2> QED
    BY <1>1, <2>1, <2>2, <2>3, <2>4, FiredTimeout DEF WInv
<1> QED
  BY <1>1, CleanupFailsStep DEF fCleanup

\* fStart, until it has read the CPU usage.
LEMMA fStartStep ==
  ASSUME WInv, fStart PROVE WInv'
<1>1. CASE /\ Cleanup /\ GetUsageData /\ bStarted' = TRUE /\ mainPc' = "started"
           /\ UNCHANGED <<sUse, stack, aoTimeoutsToFire, oStartTimeout, oCheckUsageTimeout, lastVars, reported>>
  <2>1. mainPc = "fire" /\ first.kind = "start"
    BY FirstTimeout DEF fStart, Fires
  <2>2. sUse = "start"
    <3>1. oStartTimeout # NULL
      BY <2>1, FirstTimeout DEF WInv, HandleInv
    <3> QED
      BY <3>1 DEF WInv, TypesInv, UseInv
  <2>3. TypesInv'
    BY <1>1, CleanupTypes DEF WInv, TypesInv, Depth, lastVars, GetUsageData, SelectOther
  <2>4. ListsInv'
    BY <1>1, CleanupEffect DEF WInv, ListsInv
  <2>5. HandleInv' /\ UseInv' /\ ChainInv' /\ BreakpointsInv'
    BY <1>1, <2>2, CleanedUp
  <2>6. FireInv'
    BY <1>1, <2>1, CleanupEffect DEF WInv, FireInv, first
  <2> QED
    BY <1>1, <2>3, <2>4, <2>5, <2>6 DEF WInv, FailsOnlyWithoutProcess
<1> QED
  BY <1>1, CleanupFailsStep DEF fStart

\* Setting a timeout.
LEMMA SetTimeout ==
  ASSUME WInv, FreeIds # {}, NEW kind \in Kinds, NEW due \in BOOLEAN,
         aoTimeouts' = Append(aoTimeouts, New(FreeId, kind, due))
  PROVE  /\ aoTimeouts' \in Seq(Timeout) /\ Distinct(aoTimeouts')
         /\ Ids(aoTimeouts') = Ids(aoTimeouts) \cup {FreeId}
         /\ OfKind(aoTimeouts', kind) = Waiting(kind) \cup {FreeId}
         /\ \A k : k # kind => OfKind(aoTimeouts', k) = Waiting(k)
         /\ FreeId \in TimeoutIds /\ FreeId # NULL /\ FreeId \notin Ids(aoTimeoutsToFire)
<1> DEFINE o == New(FreeId, kind, due)
<1>1. /\ FreeId \in TimeoutIds /\ FreeId # NULL
      /\ FreeId \notin Ids(aoTimeouts) /\ FreeId \notin Ids(aoTimeoutsToFire)
  BY FreeIdIsFree, FreeIdsAreFree DEF WInv
<1>2. o \in Timeout /\ o.id = FreeId /\ o.kind = kind
  BY <1>1 DEF New, Timeout
<1>3. aoTimeouts' = Append(aoTimeouts, o) /\ aoTimeouts \in Seq(Timeout) /\ Distinct(aoTimeouts)
  BY DEF WInv, ListsInv
<1> HIDE DEF o
<1>4. /\ Append(aoTimeouts, o) \in Seq(Timeout) /\ Distinct(Append(aoTimeouts, o))
      /\ Ids(Append(aoTimeouts, o)) = Ids(aoTimeouts) \cup {o.id}
      /\ OfKind(Append(aoTimeouts, o), o.kind) = OfKind(aoTimeouts, o.kind) \cup {o.id}
      /\ \A k : k # o.kind => OfKind(Append(aoTimeouts, o), k) = OfKind(aoTimeouts, k)
  BY <1>1, <1>2, <1>3, AppendTimeout
<1> QED
  BY <1>1, <1>2, <1>3, <1>4 DEF Waiting

\* fStart, after it has read the CPU usage.
LEMMA SetCheckTimeoutStep ==
  ASSUME WInv, SetCheckTimeout PROVE WInv'
<1>1. /\ mainPc = "started" /\ FreeIds # {} /\ Fired
      /\ aoTimeouts' = Append(aoTimeouts, New(FreeId, "check", FALSE))
      /\ oCheckUsageTimeout' = FreeId
      /\ UNCHANGED <<sUse, sProcess, stack, reported, bStarted, oStartTimeout, oCleanupTimeout,
                     oWormRunTimeout, breakpointVars, lastVars>>
  BY DEF SetCheckTimeout, Fired
<1>2. /\ aoTimeouts' \in Seq(Timeout) /\ Distinct(aoTimeouts')
      /\ Ids(aoTimeouts') = Ids(aoTimeouts) \cup {FreeId}
      /\ OfKind(aoTimeouts', "check") = Waiting("check") \cup {FreeId}
      /\ \A k : k # "check" => OfKind(aoTimeouts', k) = Waiting(k)
      /\ FreeId \in TimeoutIds /\ FreeId # NULL /\ FreeId \notin Ids(aoTimeoutsToFire)
  BY <1>1, SetTimeout DEF Kinds
<1>3. /\ aoTimeoutsToFire' \in Seq(Timeout) /\ Distinct(aoTimeoutsToFire')
      /\ Ids(aoTimeoutsToFire') \subseteq Ids(aoTimeoutsToFire)
      /\ \A k : OfKind(aoTimeoutsToFire', k) \subseteq Firing(k) \ {first.id}
      /\ FireInv' /\ FailsOnlyWithoutProcess' /\ mainPc' \in {"timeouts", "fire"}
  BY <1>1, FiredTimeout DEF Firing
<1>4. /\ first.id \in Firing("start") /\ first.id \notin Waiting("start") /\ first.id # NULL
      /\ oCleanupTimeout = NULL /\ bStarted
  BY <1>1, FirstTimeout DEF WInv, FireInv, first
<1>5. /\ Waiting("start") = {} /\ OfKind(aoTimeoutsToFire', "start") = {}
      /\ oCheckUsageTimeout = NULL /\ NoBreakpoints /\ sUse = "start"
  BY <1>3, <1>4 DEF WInv, HandleInv, ChainInv, UseInv, TypesInv
<1>6. Waiting("check") = {} /\ Firing("check") = {}
  BY <1>5, OfKindInIds, IdsType, CPUUsageWormAssumption DEF WInv, ListsInv, HandleInv, Waiting, Firing
<1>7. TypesInv'
  BY <1>1, <1>2, <1>3 DEF WInv, TypesInv, Depth, breakpointVars, lastVars
<1>8. ListsInv'
  BY <1>2, <1>3 DEF WInv, ListsInv
<1>9. HandleInv'
  BY <1>1, <1>2, <1>3, <1>6 DEF WInv, HandleInv, Waiting, Firing
<1>10. UseInv'
  BY <1>1, <1>2, <1>3, <1>4, <1>5 DEF WInv, UseInv, Waiting, Firing
<1>11. ChainInv'
  BY <1>1, <1>2, <1>3, <1>5 DEF WInv, ChainInv, Waiting, Firing, NoBreakpoints, breakpointVars, lastVars
<1>12. BreakpointsInv'
  BY <1>1 DEF WInv, BreakpointsInv, breakpointVars
<1> QED
  BY <1>3, <1>7, <1>8, <1>9, <1>10, <1>11, <1>12 DEF WInv

\* None is not the id of a timeout.
LEMMA NoIdIsNull ==
  ASSUME WInv
  PROVE  \A k : NULL \notin Waiting(k) /\ NULL \notin Firing(k)
BY OfKindInIds, IdsType, CPUUsageWormAssumption DEF WInv, ListsInv, Waiting, Firing

\* When usage is checked, there are no breakpoints,
LEMMA NoBreakpointsWhenChecked ==
  ASSUME WInv, mainPc = "fire", first.kind \in {"check", "manual"}
  PROVE  NoBreakpoints
BY FirstTimeout DEF WInv, HandleInv, UseInv, ChainInv, TypesInv

\* and nothing else goes on.
LEMMA NothingElseGoesOn ==
  ASSUME WInv, mainPc = "fire", Fired, first.kind \in {"check", "manual"}
  PROVE  /\ NoBreakpoints /\ oWormRunTimeout = NULL
         /\ \A k \in {"start", "check", "manual", "worm"} : Waiting(k) = {} /\ OfKind(aoTimeoutsToFire', k) = {}
         /\ first.kind = "check" => sUse = "start" /\ oCheckUsageTimeout # NULL /\ bStarted
         /\ first.kind = "manual" => sUse = "check" /\ oCheckUsageTimeout = NULL
<1>1. \A k : OfKind(aoTimeoutsToFire', k) \subseteq Firing(k) \ {first.id}
  BY FiredTimeout DEF Firing
<1>2. first.id \in Firing(first.kind) /\ first.id # NULL /\ \A k : first.id \notin Waiting(k)
  BY FirstTimeout
<1>3. NoBreakpoints
  BY NoBreakpointsWhenChecked
<1>4. oWormRunTimeout = NULL
  BY <1>3 DEF WInv, ChainInv, NoBreakpoints
<1>5. Waiting("worm") = {} /\ OfKind(aoTimeoutsToFire', "worm") = {}
  <2>1. Firing("worm") = {}
    BY <1>2 DEF WInv, HandleInv
  <2>2. Waiting("worm") = {}
    BY <1>4, NoIdIsNull DEF WInv, HandleInv
  <2> QED
    BY <1>1, <2>1, <2>2
<1>6. CASE first.kind = "check"
  <2>1. first.id = oCheckUsageTimeout /\ oCheckUsageTimeout # NULL
    BY <1>2, <1>6 DEF WInv, HandleInv
  <2>2. sUse = "start" /\ bStarted
    BY <2>1 DEF WInv, UseInv, TypesInv
  <2>3. Waiting("start") = {} /\ Firing("start") = {}
    BY <2>1 DEF WInv, ChainInv
  <2>4. Waiting("check") = {} /\ OfKind(aoTimeoutsToFire', "check") = {}
    BY <1>1, <1>2, <2>1 DEF WInv, HandleInv
  <2>5. Waiting("manual") = {} /\ Firing("manual") = {}
    BY <2>2 DEF WInv, UseInv
  <2> QED
    BY <1>1, <1>3, <1>4, <1>5, <1>6, <2>1, <2>2, <2>3, <2>4, <2>5
<1>7. CASE first.kind = "manual"
  <2>1. sUse = "check"
    BY <1>2, <1>7 DEF WInv, UseInv, TypesInv
  <2>2. oStartTimeout = NULL /\ oCheckUsageTimeout = NULL
    BY <2>1 DEF WInv, UseInv
  <2>3. /\ Waiting("start") = {} /\ Firing("start") = {}
        /\ Waiting("check") = {} /\ Firing("check") = {}
    BY <2>2, NoIdIsNull DEF WInv, HandleInv
  <2>4. Waiting("manual") = {} /\ OfKind(aoTimeoutsToFire', "manual") = {}
    BY <1>1, <1>2, <1>7, <2>1 DEF WInv, UseInv
  <2> QED
    BY <1>1, <1>3, <1>4, <1>5, <1>7, <2>1, <2>2, <2>3, <2>4
<1> QED
  BY <1>6, <1>7

\* fInstallWorm.
LEMMA InstallWormStep ==
  ASSUME WInv, mainPc = "fire", first.kind \in {"check", "manual"}, FreeIds # {}, InstallWorm,
         oCheckUsageTimeout' = NULL, UNCHANGED <<bStarted, oStartTimeout, oCleanupTimeout>>
  PROVE  WInv'
<1>1. /\ dfCallback_by_uAddress' = [dfCallback_by_uAddress EXCEPT ![IP] = "worm"]
      /\ uWormBreakpointId' = IP /\ uLastInstructionPointer' = IP /\ uLastDepth' = Depth
      /\ uNextBreakpointAddress' = IP /\ oWormRunTimeout' = FreeId
      /\ aoTimeouts' = Append(aoTimeouts, New(FreeId, "worm", FALSE))
      /\ Fired /\ UNCHANGED <<sProcess, uBugBreakpointId>>
  BY DEF InstallWorm
<1>2. /\ aoTimeouts' \in Seq(Timeout) /\ Distinct(aoTimeouts')
      /\ Ids(aoTimeouts') = Ids(aoTimeouts) \cup {FreeId}
      /\ OfKind(aoTimeouts', "worm") = Waiting("worm") \cup {FreeId}
      /\ \A k : k # "worm" => OfKind(aoTimeouts', k) = Waiting(k)
      /\ FreeId \in TimeoutIds /\ FreeId # NULL /\ FreeId \notin Ids(aoTimeoutsToFire)
  BY <1>1, SetTimeout DEF Kinds
<1>3. /\ aoTimeoutsToFire' \in Seq(Timeout) /\ Distinct(aoTimeoutsToFire')
      /\ Ids(aoTimeoutsToFire') \subseteq Ids(aoTimeoutsToFire)
      /\ \A k : OfKind(aoTimeoutsToFire', k) \subseteq Firing(k) \ {first.id}
      /\ FireInv' /\ FailsOnlyWithoutProcess' /\ mainPc' \in {"timeouts", "fire"}
      /\ UNCHANGED <<sUse, stack, reported>>
  BY <1>1, FiredTimeout DEF Firing
<1>4. /\ NoBreakpoints /\ oWormRunTimeout = NULL
      /\ \A k \in {"start", "check", "manual", "worm"} : Waiting(k) = {} /\ OfKind(aoTimeoutsToFire', k) = {}
      /\ sUse = "start" => bStarted
  BY <1>1, NothingElseGoesOn
<1>5. IP \in Functions /\ IP \in Addresses /\ IP # NULL
  BY CPUUsageWormAssumption DEF WInv, TypesInv, IP, Depth, Addresses
<1>6. TypesInv'
  <2>1. dfCallback_by_uAddress' \in [Addresses -> Roles] /\ Depth \in 0 .. MaxDepth
    BY <1>1, <1>5 DEF WInv, TypesInv, Roles, Depth
  <2> QED
    BY <1>1, <1>2, <1>3, <1>5, <2>1 DEF WInv, TypesInv, Depth
<1>7. ListsInv'
  BY <1>2, <1>3 DEF WInv, ListsInv
<1>8. HandleInv'
  BY <1>1, <1>2, <1>3, <1>4 DEF WInv, HandleInv, Waiting, Firing
<1>9. UseInv'
  BY <1>1, <1>2, <1>3, <1>4 DEF WInv, UseInv, Waiting, Firing
<1>10. ChainInv'
  BY <1>1, <1>2, <1>3, <1>4, <1>5 DEF WInv, ChainInv, Waiting, Firing, NoBreakpoints
<1>11. BreakpointsInv'
  <2>1. \A a \in Addresses : a # NULL
    BY CPUUsageWormAssumption DEF Addresses
  <2> QED
    BY <1>1, <1>4, <1>5, <2>1 DEF WInv, TypesInv, BreakpointsInv, NoBreakpoints
<1> QED
  BY <1>3, <1>6, <1>7, <1>8, <1>9, <1>10, <1>11 DEF WInv

\* The first breakpoint can always be set.
LEMMA InstallNeverFails ==
  ASSUME WInv, mainPc = "fire", first.kind \in {"check", "manual"}
  PROVE  ~InstallFails
<1>1. IP \in Addresses /\ IP # NULL
  BY CPUUsageWormAssumption DEF WInv, TypesInv, IP, Depth, Addresses
<1>2. dfCallback_by_uAddress[IP] \in Roles
  BY <1>1 DEF WInv, TypesInv
<1>3. dfCallback_by_uAddress[IP] = "none"
  BY <1>1, <1>2, NoBreakpointsWhenChecked DEF WInv, BreakpointsInv, NoBreakpoints, Roles
<1> QED
  BY <1>3 DEF InstallFails, CanAdd

\* The timeout that is fired is forgotten, and nothing else changes but what cdb was asked.
LEMMA FiredOnlyStep ==
  ASSUME WInv, mainPc = "fire", Fired, sProcess' \in {"known", "exited", "gone"},
         UNCHANGED <<aoTimeouts, bStarted, handleVars, breakpointVars, lastVars>>
  PROVE  WInv'
<1>1. /\ aoTimeoutsToFire' \in Seq(Timeout) /\ Distinct(aoTimeoutsToFire')
      /\ Ids(aoTimeoutsToFire') \subseteq Ids(aoTimeoutsToFire)
      /\ \A k : OfKind(aoTimeoutsToFire', k) \subseteq OfKind(aoTimeoutsToFire, k)
      /\ FireInv' /\ FailsOnlyWithoutProcess' /\ mainPc' \in {"timeouts", "fire"}
      /\ UNCHANGED <<sUse, stack, reported>>
  BY FiredTimeout
<1>2. TypesInv'
  BY <1>1 DEF WInv, TypesInv, Depth, handleVars, breakpointVars, lastVars
<1>3. ListsInv'
  BY <1>1 DEF WInv, ListsInv
<1>4. HandleInv' /\ UseInv' /\ ChainInv' /\ BreakpointsInv'
  BY <1>1, FewerTimeouts
<1> QED
  BY <1>1, <1>2, <1>3, <1>4 DEF WInv

\* The timeout of fCheckForExcessiveCPUUsage.
LEMMA fManualCheckStep ==
  ASSUME WInv, fExcessiveCPUUsageCheckIntervalTimeoutHandler PROVE WInv'
<1>1. mainPc = "fire" /\ first.kind = "manual" /\ FreeIds # {}
  BY FirstTimeout DEF fExcessiveCPUUsageCheckIntervalTimeoutHandler, Fires
<1>2. CASE /\ GetUsageData /\ Fired
           /\ UNCHANGED <<stack, aoTimeouts, bStarted, handleVars, breakpointVars, lastVars>>
  <2>1. sProcess' \in {"known", "exited", "gone"}
    BY <1>2 DEF WInv, TypesInv, GetUsageData, SelectOther
  <2> QED
    BY <1>1, <1>2, <2>1, FiredOnlyStep
<1>3. CASE InstallWorm /\ UNCHANGED <<bStarted, oStartTimeout, oCleanupTimeout, oCheckUsageTimeout>>
  <2>1. Fired
    BY <1>3 DEF InstallWorm
  <2>2. oCheckUsageTimeout' = NULL
    BY <1>1, <1>3, <2>1, NothingElseGoesOn
  <2> QED
    BY <1>1, <1>3, <2>2, InstallWormStep
<1> QED
  BY <1>1, <1>2, <1>3, InstallNeverFails DEF fExcessiveCPUUsageCheckIntervalTimeoutHandler

\* fCheckUsage.
LEMMA fCheckUsageStep ==
  ASSUME WInv, fCheckUsage PROVE WInv'
<1>1. mainPc = "fire" /\ first.kind = "check" /\ FreeIds # {}
  BY FirstTimeout DEF fCheckUsage, Fires
<1>2. CASE /\ Fired
           /\ UNCHANGED <<sProcess, stack, aoTimeouts, bStarted, handleVars, breakpointVars, lastVars>>
  <2>1. sProcess' \in {"known", "exited", "gone"}
    BY <1>2 DEF WInv, TypesInv
  <2> QED
    BY <1>1, <1>2, <2>1, FiredOnlyStep
<1>3. CASE /\ GetUsageData /\ Fired
           /\ oCheckUsageTimeout' = NULL /\ UNCHANGED aoTimeouts
           /\ UNCHANGED <<stack, bStarted, oStartTimeout, oCleanupTimeout, oWormRunTimeout,
                          breakpointVars, lastVars>>
  <2>1. /\ aoTimeoutsToFire' \in Seq(Timeout) /\ Distinct(aoTimeoutsToFire')
        /\ Ids(aoTimeoutsToFire') \subseteq Ids(aoTimeoutsToFire)
        /\ \A k : OfKind(aoTimeoutsToFire', k) \subseteq Firing(k)
        /\ FireInv' /\ FailsOnlyWithoutProcess' /\ mainPc' \in {"timeouts", "fire"}
        /\ UNCHANGED <<sUse, stack, reported>>
    BY <1>1, <1>3, FiredTimeout DEF Firing
  <2>2. /\ NoBreakpoints /\ sUse = "start" /\ bStarted
        /\ Waiting("start") = {} /\ Waiting("check") = {} /\ Waiting("manual") = {}
        /\ OfKind(aoTimeoutsToFire', "start") = {} /\ OfKind(aoTimeoutsToFire', "check") = {}
        /\ OfKind(aoTimeoutsToFire', "manual") = {}
    BY <1>1, <1>3, NothingElseGoesOn
  <2>3. TypesInv'
    <3>1. sProcess' \in {"known", "exited", "gone"}
      BY <1>3 DEF WInv, TypesInv, GetUsageData, SelectOther
    <3> QED
      BY <1>3, <2>1, <3>1 DEF WInv, TypesInv, Depth, breakpointVars, lastVars
  <2>4. ListsInv'
    BY <1>3, <2>1 DEF WInv, ListsInv
  <2>5. HandleInv' /\ UseInv'
    BY <1>3, <2>1, <2>2 DEF WInv, HandleInv, UseInv, Waiting, Firing
  <2>6. ChainInv' /\ BreakpointsInv'
    BY <1>3, <2>1, <2>2 DEF WInv, ChainInv, BreakpointsInv, Waiting, Firing, NoBreakpoints,
                            breakpointVars, lastVars
  <2> QED
    BY <2>1, <2>3, <2>4, <2>5, <2>6 DEF WInv
<1>4. CASE /\ GetUsageData /\ Fired
           /\ oCheckUsageTimeout' = FreeId
           /\ aoTimeouts' = Append(aoTimeouts, New(FreeId, "check", FALSE))
           /\ UNCHANGED <<stack, bStarted, oStartTimeout, oCleanupTimeout, oWormRunTimeout,
                          breakpointVars, lastVars>>
  <2>1. /\ aoTimeoutsToFire' \in Seq(Timeout) /\ Distinct(aoTimeoutsToFire')
        /\ Ids(aoTimeoutsToFire') \subseteq Ids(aoTimeoutsToFire)
        /\ \A k : OfKind(aoTimeoutsToFire', k) \subseteq Firing(k)
        /\ FireInv' /\ FailsOnlyWithoutProcess' /\ mainPc' \in {"timeouts", "fire"}
        /\ UNCHANGED <<sUse, stack, reported>>
    BY <1>1, <1>4, FiredTimeout DEF Firing
  <2>2. /\ NoBreakpoints /\ sUse = "start" /\ bStarted
        /\ Waiting("start") = {} /\ Waiting("check") = {} /\ Waiting("manual") = {}
        /\ OfKind(aoTimeoutsToFire', "start") = {} /\ OfKind(aoTimeoutsToFire', "check") = {}
        /\ OfKind(aoTimeoutsToFire', "manual") = {}
    BY <1>1, <1>4, NothingElseGoesOn
  <2>3. /\ aoTimeouts' \in Seq(Timeout) /\ Distinct(aoTimeouts')
        /\ Ids(aoTimeouts') = Ids(aoTimeouts) \cup {FreeId}
        /\ OfKind(aoTimeouts', "check") = Waiting("check") \cup {FreeId}
        /\ \A k : k # "check" => OfKind(aoTimeouts', k) = Waiting(k)
        /\ FreeId \in TimeoutIds /\ FreeId # NULL /\ FreeId \notin Ids(aoTimeoutsToFire)
    BY <1>1, <1>4, SetTimeout DEF Kinds
  <2>4. TypesInv'
    <3>1. sProcess' \in {"known", "exited", "gone"}
      BY <1>4 DEF WInv, TypesInv, GetUsageData, SelectOther
    <3> QED
      BY <1>4, <2>1, <2>3, <3>1 DEF WInv, TypesInv, Depth, breakpointVars, lastVars
  <2>5. ListsInv'
    BY <2>1, <2>3 DEF WInv, ListsInv
  <2>6. HandleInv' /\ UseInv'
    BY <1>4, <2>1, <2>2, <2>3 DEF WInv, HandleInv, UseInv, Waiting, Firing
  <2>7. ChainInv' /\ BreakpointsInv'
    BY <1>4, <2>1, <2>2, <2>3 DEF WInv, ChainInv, BreakpointsInv, Waiting, Firing, NoBreakpoints,
                                  breakpointVars, lastVars
  <2> QED
    BY <2>1, <2>4, <2>5, <2>6, <2>7 DEF WInv
<1>5. CASE /\ oCheckUsageTimeout' = NULL /\ InstallWorm
           /\ UNCHANGED <<bStarted, oStartTimeout, oCleanupTimeout>>
  BY <1>1, <1>5, InstallWormStep
<1> QED
  BY <1>1, <1>2, <1>3, <1>4, <1>5, InstallNeverFails DEF fCheckUsage

\* fSetBugBreakpointAfterTimeout: the bug breakpoint can always be set.
LEMMA fSetBugBreakpointStep ==
  ASSUME WInv, fSetBugBreakpointAfterTimeout PROVE WInv'
<1>1. mainPc = "fire" /\ first.kind = "worm" /\ UNCHANGED <<sProcess, stack, aoTimeouts, bStarted>>
  BY FirstTimeout DEF fSetBugBreakpointAfterTimeout, Fires
<1>2. CASE oWormRunTimeout = NULL /\ Fired /\ UNCHANGED <<handleVars, breakpointVars, lastVars>>
  <2>1. sProcess' \in {"known", "exited", "gone"}
    BY <1>1 DEF WInv, TypesInv
  <2> QED
    BY <1>1, <1>2, <2>1, FiredOnlyStep
<1>3. ASSUME oWormRunTimeout # NULL
      PROVE  /\ uWormBreakpointId # NULL /\ uBugBreakpointId = NULL /\ oCheckUsageTimeout = NULL
             /\ uLastInstructionPointer \in Functions /\ uLastInstructionPointer \in Addresses
             /\ Without({uWormBreakpointId}) = [a \in Addresses |-> "none"]
  <2>1. uWormBreakpointId # NULL
    BY <1>3 DEF WInv, ChainInv
  <2>2. uBugBreakpointId = NULL /\ oCheckUsageTimeout = NULL /\ uLastInstructionPointer \in Functions
    BY <2>1 DEF WInv, TypesInv, ChainInv, NoBreakpoints
  <2>3. \A a \in Addresses : a # NULL
    BY CPUUsageWormAssumption DEF Addresses
  <2>4. \A a \in Addresses : (IF a \in {uWormBreakpointId} THEN "none" ELSE dfCallback_by_uAddress[a]) = "none"
    BY <2>2, <2>3 DEF WInv, TypesInv, BreakpointsInv, Roles
  <2> QED
    BY <2>1, <2>2, <2>4 DEF Without, Addresses
<1>4. CASE /\ oWormRunTimeout # NULL /\ SetBugBreakpoint /\ Fired
           /\ UNCHANGED <<oStartTimeout, oCleanupTimeout, oCheckUsageTimeout, uLastInstructionPointer, uLastDepth>>
  <2>1. /\ aoTimeoutsToFire' \in Seq(Timeout) /\ Distinct(aoTimeoutsToFire')
        /\ Ids(aoTimeoutsToFire') \subseteq Ids(aoTimeoutsToFire)
        /\ \A k : OfKind(aoTimeoutsToFire', k) \subseteq Firing(k) \ {first.id}
        /\ FireInv' /\ FailsOnlyWithoutProcess' /\ mainPc' \in {"timeouts", "fire"}
        /\ UNCHANGED <<sUse, stack, reported>>
    BY <1>1, <1>4, FiredTimeout DEF Firing
  <2>2. /\ uWormBreakpointId # NULL /\ uBugBreakpointId = NULL /\ oCheckUsageTimeout = NULL
        /\ uLastInstructionPointer \in Functions /\ uLastInstructionPointer \in Addresses
        /\ Without({uWormBreakpointId}) = [a \in Addresses |-> "none"]
    BY <1>3, <1>4
  <2>3. /\ oWormRunTimeout' = NULL /\ uWormBreakpointId' = NULL
        /\ dfCallback_by_uAddress' = [Without({uWormBreakpointId}) EXCEPT ![uLastInstructionPointer] = "bug"]
        /\ uBugBreakpointId' = uLastInstructionPointer
        /\ uNextBreakpointAddress' = uLastInstructionPointer
    BY <1>4 DEF SetBugBreakpoint
  <2>4. dfCallback_by_uAddress' = [a \in Addresses |-> IF a = uLastInstructionPointer THEN "bug" ELSE "none"]
    BY <2>2, <2>3
  <2>5. Waiting("worm") = {}
    BY <1>1, <1>4, FirstTimeout DEF WInv, HandleInv
  <2>6. TypesInv'
    BY <1>1, <1>4, <2>1, <2>2, <2>3, <2>4 DEF WInv, TypesInv, Depth, Roles
  <2>7. ListsInv'
    BY <1>1, <2>1 DEF WInv, ListsInv
  <2>8. HandleInv'
    BY <1>1, <1>4, <2>1, <2>3, <2>5 DEF WInv, HandleInv, Waiting, Firing
  <2>9. UseInv'
    BY <1>1, <1>4, <2>1, <2>2 DEF WInv, UseInv, Waiting, Firing, NoBreakpoints
  <2>10. ChainInv'
    BY <1>1, <1>4, <2>1, <2>2, <2>3 DEF WInv, ChainInv, Waiting, Firing, NoBreakpoints
  <2>11. BreakpointsInv'
    <3>1. \A a \in Addresses : a # NULL
      BY CPUUsageWormAssumption DEF Addresses
    <3> QED
      BY <2>3, <2>4, <3>1 DEF BreakpointsInv
  <2> QED
    BY <2>1, <2>6, <2>7, <2>8, <2>9, <2>10, <2>11 DEF WInv
<1>5. CASE /\ oWormRunTimeout # NULL /\ Fail
           /\ ~CanAdd(Without({uWormBreakpointId}), uLastInstructionPointer)
  <2>1. sProcess # "known"
    BY <1>3, <1>5 DEF CanAdd
  <2> QED
    BY <1>5, <2>1, FailStep
<1> QED
  BY <1>1, <1>2, <1>4, <1>5 DEF fSetBugBreakpointAfterTimeout

-----------------------------------------------------------------------------
(* Breakpoints that are hit.                                               *)

\* Nothing is to be fired then, and the breakpoint is the one that is expected.
LEMMA ExpectedHit ==
  ASSUME WInv, NEW role \in {"worm", "bug"}, Hits(role)
  PROVE  /\ mainPc = "hit" /\ aoTimeoutsToFire = <<>>
         /\ IP \in Functions /\ IP \in Addresses /\ IP # NULL
         /\ IP = uNextBreakpointAddress
         /\ role = "worm" => IP = uWormBreakpointId /\ uBugBreakpointId = NULL /\ oCheckUsageTimeout = NULL
         /\ role = "bug" => IP = uBugBreakpointId /\ uWormBreakpointId = NULL
<1>1. mainPc = "hit" /\ dfCallback_by_uAddress[IP] = role
  BY DEF Hits
<1>2. IP \in Functions /\ IP \in Addresses /\ IP # NULL
  BY CPUUsageWormAssumption DEF WInv, TypesInv, IP, Depth, Addresses
<1>3. role = "worm" => IP = uWormBreakpointId /\ uBugBreakpointId = NULL /\ oCheckUsageTimeout = NULL
  BY <1>1, <1>2 DEF WInv, BreakpointsInv, ChainInv, NoBreakpoints
<1>4. role = "bug" => IP = uBugBreakpointId /\ uWormBreakpointId = NULL
  BY <1>1, <1>2 DEF WInv, BreakpointsInv, ChainInv, NoBreakpoints
<1>5. IP = uNextBreakpointAddress
  BY <1>2, <1>3, <1>4 DEF WInv, ChainInv
<1> QED
  BY <1>1, <1>2, <1>3, <1>4, <1>5 DEF WInv, FireInv

\* fReportCPUUsageBug.
LEMMA fReportStep ==
  ASSUME WInv, fReportCPUUsageBug PROVE WInv'
<1>1. Hits("bug")
  BY DEF fReportCPUUsageBug
<1>2. /\ mainPc = "hit" /\ aoTimeoutsToFire = <<>> /\ IP = uBugBreakpointId /\ IP # NULL
      /\ uWormBreakpointId = NULL /\ IP = uNextBreakpointAddress
  BY <1>1, ExpectedHit
<1>3. UNCHANGED <<sUse, sProcess, stack, aoTimeouts, aoTimeoutsToFire, bStarted, handleVars, lastVars>>
  BY <1>2 DEF fReportCPUUsageBug, HitUnchanged, handleVars
<1>4. CASE IgnoreBugHit
  <2>1. mainPc' = "timeouts" /\ UNCHANGED <<breakpointVars, reported>>
    BY <1>4 DEF IgnoreBugHit
  <2>2. TypesInv'
    BY <1>3, <2>1 DEF WInv, TypesInv, Depth, handleVars, breakpointVars, lastVars
  <2>3. ListsInv' /\ FireInv' /\ FailsOnlyWithoutProcess'
    BY <1>2, <1>3, <2>1 DEF WInv, ListsInv, FireInv, FailsOnlyWithoutProcess
  <2>4. HandleInv' /\ UseInv' /\ ChainInv' /\ BreakpointsInv'
    BY <1>3, <2>1, FewerTimeouts
  <2> QED
    BY <2>2, <2>3, <2>4 DEF WInv
<1>5. CASE ReportBug
  <2>1. /\ mainPc' = "reported" /\ reported' = Depth /\ uBugBreakpointId' = NULL
        /\ UNCHANGED uWormBreakpointId
        /\ dfCallback_by_uAddress' = Without({uBugBreakpointId})
    BY <1>5 DEF ReportBug
  <2>2. \A a \in Addresses : a # NULL
    BY CPUUsageWormAssumption DEF Addresses
  <2>3. dfCallback_by_uAddress' = [a \in Addresses |-> "none"]
    <3>1. \A a \in Addresses : (IF a \in {uBugBreakpointId} THEN "none" ELSE dfCallback_by_uAddress[a]) = "none"
      BY <1>2, <2>2 DEF WInv, TypesInv, BreakpointsInv, Roles
    <3> QED
      BY <2>1, <3>1 DEF Without
  <2>4. TypesInv'
    <3>1. reported' \in 0 .. MaxDepth
      BY <2>1, CPUUsageWormAssumption DEF WInv, TypesInv
    <3>2. dfCallback_by_uAddress' \in [Addresses -> Roles]
      BY <2>3 DEF Roles
    <3> QED
      BY <1>3, <2>1, <3>1, <3>2 DEF WInv, TypesInv, Depth, handleVars, lastVars
  <2>5. ListsInv' /\ FireInv' /\ FailsOnlyWithoutProcess'
    BY <1>2, <1>3, <2>1 DEF WInv, ListsInv, FireInv, FailsOnlyWithoutProcess
  <2>6. HandleInv' /\ UseInv' /\ ChainInv'
    BY <1>2, <1>3, <2>1 DEF WInv, HandleInv, UseInv, ChainInv, Waiting, Firing, NoBreakpoints,
                            handleVars, lastVars
  <2>7. BreakpointsInv'
    BY <1>2, <2>1, <2>2, <2>3 DEF BreakpointsInv
  <2> QED
    BY <2>4, <2>5, <2>6, <2>7 DEF WInv
<1> QED
  BY <1>2, <1>4, <1>5 DEF fReportCPUUsageBug

\* A new timeout is a timeout.
LEMMA NewTimeout ==
  ASSUME WInv, NEW id \in FreeIds, NEW kind \in Kinds, NEW due \in BOOLEAN
  PROVE  /\ New(id, kind, due) \in Timeout
         /\ New(id, kind, due).id = id /\ New(id, kind, due).kind = kind
<1>1. id \in TimeoutIds
  BY FreeIdsAreFree DEF WInv
<1> QED
  BY <1>1 DEF New, Timeout

\* Some timeouts are cleared and another is set.
LEMMA ReplaceTimeouts ==
  ASSUME WInv, NEW ids, NEW o \in Timeout, o.id \in FreeIds, NEW M, M = Append(Cleared(ids), o)
  PROVE  /\ M \in Seq(Timeout) /\ Distinct(M)
         /\ Ids(M) \subseteq Ids(aoTimeouts) \cup {o.id}
         /\ OfKind(M, o.kind) \subseteq (Waiting(o.kind) \ ids) \cup {o.id}
         /\ \A k : k # o.kind => OfKind(M, k) \subseteq Waiting(k) \ ids
<1> DEFINE L == Cleared(ids)
<1>1. o.id \in TimeoutIds /\ o.id \notin Ids(aoTimeouts)
  BY FreeIdsAreFree DEF WInv
<1>2. /\ L \in Seq(Timeout) /\ Distinct(L) /\ Ids(L) \subseteq Ids(aoTimeouts) \ ids
      /\ \A k : OfKind(L, k) \subseteq OfKind(aoTimeouts, k) \ ids
  BY ClearedTimeouts DEF WInv, ListsInv
<1>3. M = Append(L, o)
  OBVIOUS
<1> HIDE DEF L
<1>4. /\ M \in Seq(Timeout) /\ Distinct(M)
      /\ Ids(M) = Ids(L) \cup {o.id}
      /\ OfKind(M, o.kind) = OfKind(L, o.kind) \cup {o.id}
      /\ \A k : k # o.kind => OfKind(M, k) = OfKind(L, k)
  BY <1>1, <1>2, <1>3, AppendTimeout
<1> QED
  BY <1>2, <1>4 DEF Waiting

\* The stack is never empty.
LEMMA ReturnAddressType ==
  ASSUME WInv
  PROVE  Depth \in 0 .. MaxDepth /\ uReturnAddress \in Addresses /\ \A a \in Addresses : a # NULL
<1>1. Depth \in 1 .. MaxDepth /\ Depth = Len(stack) /\ stack \in Seq(Functions)
  BY DEF WInv, TypesInv, Depth
<1>2. Depth \in 0 .. MaxDepth
  BY <1>1, CPUUsageWormAssumption
<1>3. Depth # 1 => stack[Depth - 1] \in Functions
  BY <1>1
<1> QED
  BY <1>2, <1>3, CPUUsageWormAssumption DEF uReturnAddress, Addresses

\* The worm moves, or stays where it is, and its timeout is started again.
LEMMA WormMovesStep ==
  ASSUME WInv, Hits("worm"), FreeIds # {}, MoveUp, RestartWormTimeout, mainPc' = "timeouts", HitUnchanged,
         UNCHANGED reported
  PROVE  WInv'
<1>1. /\ mainPc = "hit" /\ aoTimeoutsToFire = <<>>
      /\ IP \in Functions /\ IP \in Addresses /\ IP # NULL
      /\ IP = uNextBreakpointAddress /\ IP = uWormBreakpointId
      /\ uBugBreakpointId = NULL /\ oCheckUsageTimeout = NULL
  BY ExpectedHit
<1>2. UNCHANGED <<sUse, sProcess, stack, aoTimeoutsToFire, bStarted, oStartTimeout, oCleanupTimeout,
                  oCheckUsageTimeout, reported>>
  BY DEF HitUnchanged
<1>3. /\ aoTimeouts' \in Seq(Timeout) /\ Distinct(aoTimeouts')
      /\ Ids(aoTimeouts') \subseteq Ids(aoTimeouts) \cup {FreeId}
      /\ OfKind(aoTimeouts', "worm") \subseteq (Waiting("worm") \ {oWormRunTimeout}) \cup {FreeId}
      /\ \A k : k # "worm" => OfKind(aoTimeouts', k) \subseteq Waiting(k)
      /\ oWormRunTimeout' = FreeId
  <2> DEFINE o == New(FreeId, "worm", FALSE)
  <2>1. o \in Timeout /\ o.id = FreeId /\ o.kind = "worm" /\ FreeId \in FreeIds
    BY NewTimeout, FreeIdIsFree DEF Kinds
  <2>2. aoTimeouts' = Append(Cleared({oWormRunTimeout}), o) /\ oWormRunTimeout' = FreeId
    BY DEF RestartWormTimeout
  <2> HIDE DEF o
  <2>3. /\ aoTimeouts' \in Seq(Timeout) /\ Distinct(aoTimeouts')
        /\ Ids(aoTimeouts') \subseteq Ids(aoTimeouts) \cup {o.id}
        /\ OfKind(aoTimeouts', o.kind) \subseteq (Waiting(o.kind) \ {oWormRunTimeout}) \cup {o.id}
        /\ \A k : k # o.kind => OfKind(aoTimeouts', k) \subseteq Waiting(k) \ {oWormRunTimeout}
    BY <2>1, <2>2, ReplaceTimeouts
  <2> QED
    BY <2>1, <2>2, <2>3
<1>4. FreeId \in TimeoutIds /\ FreeId # NULL
  BY FreeIdIsFree, FreeIdsAreFree DEF WInv
<1>5. \A k : Firing(k) = {} /\ OfKind(aoTimeoutsToFire', k) = {}
  BY <1>1, <1>2, NoIds DEF Firing
<1>6. Depth \in 0 .. MaxDepth /\ uReturnAddress \in Addresses /\ \A a \in Addresses : a # NULL
  BY ReturnAddressType
<1>7. uLastDepth' \in 0 .. MaxDepth
  BY <1>6 DEF MoveUp, MoveBreakpoint, WInv, TypesInv, lastVars
<1>8. \/ UNCHANGED <<breakpointVars, uLastInstructionPointer, uNextBreakpointAddress>>
      \/ /\ dfCallback_by_uAddress' = [Without({uWormBreakpointId}) EXCEPT ![uReturnAddress] = "worm"]
         /\ uWormBreakpointId' = uReturnAddress /\ uLastInstructionPointer' = IP
         /\ uNextBreakpointAddress' = uReturnAddress /\ UNCHANGED uBugBreakpointId
  BY DEF MoveUp, MoveBreakpoint, lastVars
<1>9. /\ dfCallback_by_uAddress' \in [Addresses -> Roles] /\ BreakpointsInv'
      /\ uWormBreakpointId' \in Addresses /\ uBugBreakpointId' = NULL
      /\ uNextBreakpointAddress' = uWormBreakpointId'
      /\ uLastInstructionPointer' \in Functions
  <2>1. CASE UNCHANGED <<breakpointVars, uLastInstructionPointer, uNextBreakpointAddress>>
    <3>1. uLastInstructionPointer \in Functions
      BY <1>1 DEF WInv, TypesInv, ChainInv
    <3> QED
      BY <1>1, <2>1, <3>1 DEF WInv, TypesInv, BreakpointsInv, breakpointVars
  <2>2. CASE /\ dfCallback_by_uAddress' = [Without({uWormBreakpointId}) EXCEPT ![uReturnAddress] = "worm"]
             /\ uWormBreakpointId' = uReturnAddress /\ uLastInstructionPointer' = IP
             /\ uNextBreakpointAddress' = uReturnAddress /\ UNCHANGED uBugBreakpointId
    <3>1. \A a \in Addresses : (IF a \in {uWormBreakpointId} THEN "none" ELSE dfCallback_by_uAddress[a]) = "none"
      BY <1>1, <1>6 DEF WInv, TypesInv, BreakpointsInv, Roles
    <3>2. Without({uWormBreakpointId}) = [a \in Addresses |-> "none"]
      BY <3>1 DEF Without
    <3>3. dfCallback_by_uAddress' = [a \in Addresses |-> IF a = uReturnAddress THEN "worm" ELSE "none"]
      BY <1>6, <2>2, <3>2
    <3>4. BreakpointsInv'
      BY <1>1, <1>6, <2>2, <3>3 DEF BreakpointsInv
    <3>5. dfCallback_by_uAddress' \in [Addresses -> Roles]
      BY <3>3 DEF Roles
    <3> QED
      BY <1>1, <1>6, <2>2, <3>4, <3>5
  <2> QED
    BY <1>8, <2>1, <2>2
<1>10. TypesInv'
  BY <1>2, <1>3, <1>4, <1>6, <1>7, <1>9 DEF WInv, TypesInv, Depth
<1>11. ListsInv'
  BY <1>1, <1>2, <1>3 DEF WInv, ListsInv, Ids
<1>12. FireInv' /\ FailsOnlyWithoutProcess'
  BY <1>1, <1>2 DEF FireInv, FailsOnlyWithoutProcess
<1>13. HandleInv'
  BY <1>2, <1>3, <1>4, <1>5 DEF WInv, HandleInv, Waiting, Firing
<1>14. UseInv'
  BY <1>1, <1>2, <1>3, <1>5 DEF WInv, UseInv, Waiting, Firing, NoBreakpoints
<1>15. ChainInv'
  BY <1>1, <1>2, <1>3, <1>4, <1>5, <1>6, <1>9, CPUUsageWormAssumption
     DEF WInv, ChainInv, Waiting, Firing, NoBreakpoints
<1> QED
  BY <1>9, <1>10, <1>11, <1>12, <1>13, <1>14, <1>15 DEF WInv

\* fMoveWormBreakpointUpTheStack: the worm can always be moved where it is not.
LEMMA fMoveStep ==
  ASSUME WInv, fMoveWormBreakpointUpTheStack PROVE WInv'
<1>1. Hits("worm") /\ FreeIds # {}
  BY DEF fMoveWormBreakpointUpTheStack
<1>2. /\ mainPc = "hit" /\ aoTimeoutsToFire = <<>> /\ IP = uNextBreakpointAddress
      /\ IP = uWormBreakpointId /\ uBugBreakpointId = NULL
  BY <1>1, ExpectedHit
<1>3. CASE MoveUp /\ RestartWormTimeout /\ mainPc' = "timeouts" /\ HitUnchanged /\ UNCHANGED reported
  BY <1>1, <1>3, WormMovesStep
<1>4. CASE /\ UNCHANGED <<aoTimeouts, oWormRunTimeout, breakpointVars, lastVars>>
           /\ mainPc' = "timeouts" /\ HitUnchanged /\ UNCHANGED reported
  <2>1. UNCHANGED <<sUse, sProcess, stack, aoTimeouts, aoTimeoutsToFire, bStarted, handleVars,
                    breakpointVars, lastVars, reported>>
    BY <1>4 DEF HitUnchanged, handleVars
  <2>2. TypesInv'
    BY <1>4, <2>1 DEF WInv, TypesInv, Depth, handleVars, breakpointVars, lastVars
  <2>3. ListsInv' /\ FireInv' /\ FailsOnlyWithoutProcess'
    BY <1>2, <1>4, <2>1 DEF WInv, ListsInv, FireInv, FailsOnlyWithoutProcess
  <2>4. HandleInv' /\ UseInv' /\ ChainInv' /\ BreakpointsInv'
    BY <2>1, FewerTimeouts
  <2> QED
    BY <2>2, <2>3, <2>4 DEF WInv
<1>5. CASE /\ uReturnAddress \notin NotExecutable \cup {uNextBreakpointAddress}
           /\ ~CanAdd(dfCallback_by_uAddress, uReturnAddress) /\ Fail
  <2>1. uReturnAddress \in Addresses /\ uReturnAddress # NULL
    BY ReturnAddressType
  <2>2. dfCallback_by_uAddress[uReturnAddress] = "none"
    BY <1>2, <1>5, <2>1 DEF WInv, TypesInv, BreakpointsInv, Roles
  <2>3. sProcess # "known"
    BY <1>5, <2>2 DEF CanAdd
  <2> QED
    BY <1>5, <2>3, FailStep
<1> QED
  BY <1>2, <1>3, <1>4, <1>5 DEF fMoveWormBreakpointUpTheStack, HandleWormHit

-----------------------------------------------------------------------------
(* The API.                                                                *)

\* fCheckForExcessiveCPUUsage.
LEMMA fManualStep ==
  ASSUME Careful, WInv, fCheckForExcessiveCPUUsage PROVE WInv'
<1>1. /\ sUse = "check" /\ mainPc = "timeouts" /\ ~Exists("manual") /\ NoBreakpoints /\ FreeIds # {}
      /\ aoTimeouts' = Append(aoTimeouts, New(FreeId, "manual", FALSE)) /\ GetUsageData
  BY DEF fCheckForExcessiveCPUUsage, NoBreakpoints
<1>2. UNCHANGED <<sUse, mainPc, stack, aoTimeoutsToFire, bStarted, handleVars, breakpointVars,
                  lastVars, reported>>
  BY DEF fCheckForExcessiveCPUUsage, ApiUnchanged, handleVars
<1>3. /\ aoTimeouts' \in Seq(Timeout) /\ Distinct(aoTimeouts')
      /\ Ids(aoTimeouts') = Ids(aoTimeouts) \cup {FreeId}
      /\ OfKind(aoTimeouts', "manual") = Waiting("manual") \cup {FreeId}
      /\ \A k : k # "manual" => OfKind(aoTimeouts', k) = Waiting(k)
      /\ FreeId \in TimeoutIds /\ FreeId # NULL /\ FreeId \notin Ids(aoTimeoutsToFire)
  BY <1>1, SetTimeout DEF Kinds
<1>4. Waiting("manual") = {} /\ Firing("manual") = {}
  BY <1>1, ExistsOnAList DEF WInv
<1>5. \A k : Firing(k) = {}
  BY <1>1, NoIds DEF WInv, FireInv, Firing
<1>6. TypesInv'
  <2>1. sProcess' \in {"known", "exited", "gone"}
    BY <1>1 DEF WInv, TypesInv, GetUsageData, SelectOther
  <2> QED
    BY <1>2, <2>1 DEF WInv, TypesInv, Depth, handleVars, breakpointVars, lastVars
<1>7. ListsInv'
  BY <1>2, <1>3 DEF WInv, ListsInv
<1>8. FireInv' /\ FailsOnlyWithoutProcess'
  BY <1>1, <1>2 DEF WInv, FireInv, FailsOnlyWithoutProcess
<1>9. HandleInv'
  BY <1>2, <1>3, <1>5 DEF WInv, HandleInv, Waiting, Firing, handleVars
<1>10. UseInv'
  BY <1>1, <1>2, <1>3, <1>4, <1>5 DEF WInv, UseInv, Waiting, Firing, NoBreakpoints, handleVars, breakpointVars
<1>11. ChainInv' /\ BreakpointsInv'
  BY <1>2, <1>3 DEF WInv, ChainInv, BreakpointsInv, Waiting, Firing, NoBreakpoints,
                    handleVars, breakpointVars, lastVars
<1> QED
  BY <1>6, <1>7, <1>8, <1>9, <1>10, <1>11 DEF WInv

\* fStartTimeout.
LEMMA fStartTimeoutStep ==
  ASSUME Careful, WInv, NEW sWhen \in {"never", "now", "later"}, fStartTimeout(sWhen) PROVE WInv'
<1> DEFINE bStart == sWhen = "now" \/ (sWhen = "later" /\ mainPc # "run")
           aoRest == IF bStarted THEN Append(Cleared(Stopped), New(FreeId, "cleanup", TRUE))
                                 ELSE aoTimeouts
           due == sWhen = "now"
<1>1. /\ sUse = "start" /\ mainPc \in {"run", "timeouts"} /\ aoTimeoutsToFire = <<>>
      /\ bStarted \/ ~Exists("start")
  BY DEF fStartTimeout, WInv, FireInv
<1>2. /\ UNCHANGED <<sUse, mainPc, sProcess, stack, aoTimeoutsToFire, bStarted, oWormRunTimeout,
                     breakpointVars, lastVars, reported>>
      /\ oCleanupTimeout' = IF bStarted THEN FreeId ELSE oCleanupTimeout
      /\ oCheckUsageTimeout' = IF bStarted THEN NULL ELSE oCheckUsageTimeout
  BY DEF fStartTimeout, ApiUnchanged
<1>3. /\ aoTimeouts' = IF bStart THEN Append(aoRest, New(OtherFreeId, "start", due)) ELSE aoRest
      /\ oStartTimeout' = IF bStart THEN OtherFreeId ELSE IF bStarted THEN NULL ELSE oStartTimeout
  BY DEF fStartTimeout
<1>4. FreeId \in FreeIds /\ OtherFreeId \in FreeIds /\ OtherFreeId # FreeId
  <2>1. PICK id \in FreeIds, other \in FreeIds : id # other
    BY DEF fStartTimeout
  <2>2. \E x \in FreeIds \ {FreeId} : TRUE
    BY <2>1
  <2>3. OtherFreeId \in FreeIds \ {FreeId}
    BY <2>2 DEF OtherFreeId
  <2> QED
    BY <2>1, <2>3 DEF FreeId
<1>5. /\ FreeId \in TimeoutIds /\ FreeId # NULL /\ FreeId \notin Ids(aoTimeouts)
      /\ OtherFreeId \in TimeoutIds /\ OtherFreeId # NULL /\ OtherFreeId \notin Ids(aoTimeouts)
  BY <1>4, FreeIdsAreFree DEF WInv
<1>6. /\ aoRest \in Seq(Timeout) /\ Distinct(aoRest) /\ OtherFreeId \notin Ids(aoRest)
      /\ OfKind(aoRest, "start") = {}
      /\ OfKind(aoRest, "check") \subseteq {oCheckUsageTimeout'}
      /\ OfKind(aoRest, "cleanup") \subseteq {oCleanupTimeout'}
      /\ OfKind(aoRest, "worm") \subseteq {oWormRunTimeout}
      /\ OfKind(aoRest, "manual") = {}
  <2>1. CASE bStarted
    <3> DEFINE o == New(FreeId, "cleanup", TRUE)
    <3>1. o \in Timeout /\ o.id = FreeId /\ o.kind = "cleanup"
      BY <1>4, NewTimeout DEF Kinds
    <3>2. aoRest = Append(Cleared(Stopped), o)
      BY <2>1
    <3> HIDE DEF o, aoRest
    <3>3. /\ aoRest \in Seq(Timeout) /\ Distinct(aoRest)
          /\ Ids(aoRest) \subseteq Ids(aoTimeouts) \cup {o.id}
          /\ OfKind(aoRest, o.kind) \subseteq (Waiting(o.kind) \ Stopped) \cup {o.id}
          /\ \A k : k # o.kind => OfKind(aoRest, k) \subseteq Waiting(k) \ Stopped
      BY <1>4, <3>1, <3>2, ReplaceTimeouts
    <3>4. oCleanupTimeout' = FreeId
      BY <1>2, <2>1
    <3>5. OtherFreeId \notin Ids(aoRest)
      BY <1>4, <1>5, <3>1, <3>3
    <3>6. /\ Waiting("start") \ Stopped = {} /\ Waiting("check") \ Stopped = {}
          /\ Waiting("cleanup") \ Stopped = {} /\ Waiting("worm") \subseteq {oWormRunTimeout}
          /\ Waiting("manual") = {}
      BY <1>1 DEF WInv, HandleInv, UseInv, Stopped
    <3>7. /\ OfKind(aoRest, "start") \subseteq Waiting("start") \ Stopped
          /\ OfKind(aoRest, "check") \subseteq Waiting("check") \ Stopped
          /\ OfKind(aoRest, "worm") \subseteq Waiting("worm") \ Stopped
          /\ OfKind(aoRest, "manual") \subseteq Waiting("manual") \ Stopped
          /\ OfKind(aoRest, "cleanup") \subseteq (Waiting("cleanup") \ Stopped) \cup {FreeId}
      BY <3>1, <3>3
    <3>8. /\ OfKind(aoRest, "start") = {} /\ OfKind(aoRest, "check") = {}
          /\ OfKind(aoRest, "manual") = {} /\ OfKind(aoRest, "cleanup") \subseteq {FreeId}
          /\ OfKind(aoRest, "worm") \subseteq {oWormRunTimeout}
      BY <3>6, <3>7
    <3> QED
      BY <3>3, <3>4, <3>5, <3>8
  <2>2. CASE ~bStarted
    <3>1. aoRest = aoTimeouts /\ oCleanupTimeout' = oCleanupTimeout /\ oCheckUsageTimeout' = oCheckUsageTimeout
      BY <1>2, <2>2
    <3>2. Waiting("start") = {}
      BY <1>1, <2>2, ExistsOnAList DEF WInv
    <3> HIDE DEF aoRest
    <3> QED
      BY <1>1, <1>5, <3>1, <3>2 DEF WInv, ListsInv, HandleInv, UseInv, Waiting
  <2> HIDE DEF aoRest
  <2> QED
    BY <2>1, <2>2
<1> HIDE DEF aoRest
<1>7. /\ aoTimeouts' \in Seq(Timeout) /\ Distinct(aoTimeouts')
      /\ OfKind(aoTimeouts', "start") \subseteq {oStartTimeout'}
      /\ oStartTimeout' \in TimeoutIds \cup {NULL}
      /\ \A k : k # "start" => OfKind(aoTimeouts', k) = OfKind(aoRest, k)
  <2>1. CASE bStart
    <3> DEFINE o == New(OtherFreeId, "start", due)
    <3>1. o \in Timeout /\ o.id = OtherFreeId /\ o.kind = "start"
      BY <1>4, NewTimeout DEF Kinds
    <3>2. aoTimeouts' = Append(aoRest, o) /\ oStartTimeout' = OtherFreeId
      BY <1>3, <2>1
    <3> HIDE DEF o
    <3>3. /\ aoTimeouts' \in Seq(Timeout) /\ Distinct(aoTimeouts')
          /\ OfKind(aoTimeouts', o.kind) = OfKind(aoRest, o.kind) \cup {o.id}
          /\ \A k : k # o.kind => OfKind(aoTimeouts', k) = OfKind(aoRest, k)
      BY <1>6, <3>1, <3>2, AppendTimeout
    <3> QED
      BY <1>5, <1>6, <3>1, <3>2, <3>3
  <2>2. CASE ~bStart
    <3>1. aoTimeouts' = aoRest /\ oStartTimeout' \in {NULL, oStartTimeout}
      BY <1>3, <2>2
    <3> QED
      BY <1>6, <3>1 DEF WInv, TypesInv
  <2> QED
    BY <2>1, <2>2
<1> HIDE DEF bStart, due
<1>8. /\ \A k : OfKind(aoTimeoutsToFire', k) = {}
      /\ aoTimeoutsToFire' = aoTimeoutsToFire /\ Ids(aoTimeoutsToFire) = {}
  BY <1>1, <1>2, NoIds
<1>9. bStarted => oCleanupTimeout' = FreeId /\ oCheckUsageTimeout' = NULL
  BY <1>2
<1>10. ~bStarted => /\ oCleanupTimeout' = oCleanupTimeout /\ oCheckUsageTimeout' = NULL
                    /\ oCheckUsageTimeout = NULL /\ NoBreakpoints
  BY <1>1, <1>2 DEF WInv, UseInv
<1>11. bStarted \in BOOLEAN /\ bStarted' = bStarted
  BY <1>2 DEF WInv, TypesInv
<1>12. TypesInv'
  <2>1. oCleanupTimeout' \in TimeoutIds \cup {NULL} /\ oCheckUsageTimeout' = NULL
    BY <1>5, <1>9, <1>10, <1>11 DEF WInv, TypesInv
  <2> QED
    BY <1>2, <1>7, <2>1 DEF WInv, TypesInv, Depth, breakpointVars, lastVars
<1>13. ListsInv'
  BY <1>7, <1>8 DEF WInv, ListsInv
<1>14. FireInv' /\ FailsOnlyWithoutProcess'
  BY <1>1, <1>2 DEF WInv, FireInv, FailsOnlyWithoutProcess
<1>15. HandleInv'
  BY <1>2, <1>6, <1>7, <1>8 DEF HandleInv, Waiting, Firing
<1>16. UseInv'
  BY <1>1, <1>2, <1>6, <1>7, <1>8, <1>10 DEF UseInv, Waiting, Firing, NoBreakpoints, breakpointVars
<1>17. ChainInv' /\ BreakpointsInv'
  <2>1. oCheckUsageTimeout' = NULL /\ (oCleanupTimeout' = NULL => NoBreakpoints)
    BY <1>5, <1>9, <1>10, <1>11
  <2> QED
    BY <1>2, <2>1 DEF WInv, ChainInv, BreakpointsInv, NoBreakpoints, breakpointVars, lastVars
<1> QED
  BY <1>12, <1>13, <1>14, <1>15, <1>16, <1>17 DEF WInv

-----------------------------------------------------------------------------
(* The theorems.                                                           *)

\* Every step keeps the invariant.
LEMMA NextStep ==
  ASSUME Careful, WInv, [Next]_vars PROVE WInv'
<1>1. CASE UNCHANGED vars
  BY <1>1, StutteringStep
<1>2. CASE Api
  BY <1>2, fManualStep, fStartTimeoutStep DEF Api
<1>3. CASE fRunTimeoutCallbacks
  BY <1>3, TakeDueStep, fCleanupStep, fStartStep, SetCheckTimeoutStep, fCheckUsageStep,
     fManualCheckStep, fSetBugBreakpointStep DEF fRunTimeoutCallbacks
<1>4. CASE fHandleBreakpoint
  BY <1>4, fMoveStep, fReportStep DEF fHandleBreakpoint
<1>5. CASE Environment
  BY <1>5, ApplicationStep, TimePassesStep DEF Environment
<1> QED
  BY <1>1, <1>2, <1>3, <1>4, <1>5 DEF Next

\* WInv holds in every state.
LEMMA SpecWInv ==
  ASSUME Careful PROVE Spec => []WInv
<1>1. WInv /\ [Next]_vars => WInv'
  BY NextStep
<1> QED
  BY <1>1, InitWInv, PTL DEF Spec

\* The invariant implies the type invariant: ids are not used twice on the lists together.
LEMMA WInvTypeOK == WInv => TypeOK
<1> SUFFICES ASSUME WInv PROVE TypeOK
  OBVIOUS
<1> DEFINE both == aoTimeouts \o aoTimeoutsToFire
           ids == [i \in DOMAIN both |-> both[i].id]
<1>1. /\ DOMAIN both = 1 .. Len(aoTimeouts) + Len(aoTimeoutsToFire)
      /\ Len(aoTimeouts) \in Nat /\ Len(aoTimeoutsToFire) \in Nat
      /\ DOMAIN aoTimeouts = 1 .. Len(aoTimeouts)
      /\ DOMAIN aoTimeoutsToFire = 1 .. Len(aoTimeoutsToFire)
      /\ \A i \in 1 .. Len(aoTimeouts) : both[i] = aoTimeouts[i]
      /\ \A i \in DOMAIN both : i > Len(aoTimeouts) => both[i] = aoTimeoutsToFire[i - Len(aoTimeouts)]
  BY DEF WInv, ListsInv
<1> HIDE DEF both
<1>2. ASSUME NEW i \in DOMAIN both, NEW j \in DOMAIN both, both[i].id = both[j].id PROVE i = j
  <2>1. CASE i \in DOMAIN aoTimeouts /\ j \in DOMAIN aoTimeouts
    BY <1>1, <1>2, <2>1 DEF WInv, ListsInv, Distinct
  <2>2. CASE i \notin DOMAIN aoTimeouts /\ j \notin DOMAIN aoTimeouts
    <3>1. /\ i - Len(aoTimeouts) \in DOMAIN aoTimeoutsToFire /\ j - Len(aoTimeouts) \in DOMAIN aoTimeoutsToFire
          /\ both[i] = aoTimeoutsToFire[i - Len(aoTimeouts)] /\ both[j] = aoTimeoutsToFire[j - Len(aoTimeouts)]
      BY <1>1, <2>2
    <3>2. i - Len(aoTimeouts) = j - Len(aoTimeouts)
      BY <1>2, <3>1 DEF WInv, ListsInv, Distinct
    <3> QED
      BY <1>1, <3>2
  <2>3. ASSUME NEW a \in DOMAIN both, NEW b \in DOMAIN both, both[a].id = both[b].id,
               a \in DOMAIN aoTimeouts, b \notin DOMAIN aoTimeouts
        PROVE  FALSE
    <3>1. b - Len(aoTimeouts) \in DOMAIN aoTimeoutsToFire /\ both[b] = aoTimeoutsToFire[b - Len(aoTimeouts)]
      BY <1>1, <2>3
    <3>2. both[b].id \in Ids(aoTimeoutsToFire) /\ both[a].id \in Ids(aoTimeouts)
      BY <1>1, <2>3, <3>1 DEF Ids
    <3> QED
      BY <2>3, <3>2 DEF WInv, ListsInv
  <2> QED
    BY <1>2, <2>1, <2>2, <2>3
<1>3. IsInjective(ids)
  BY <1>2 DEF IsInjective
<1>4. IsInjective([i \in DOMAIN (aoTimeouts \o aoTimeoutsToFire) |-> (aoTimeouts \o aoTimeoutsToFire)[i].id])
  BY <1>3 DEF both
<1> HIDE DEF ids
<1> QED
  BY <1>4 DEF WInv, TypesInv, ListsInv, TypeOK

\* cExcessiveCPUUsageDetector: every timeout has its own id, and what refers to it one that exists.
THEOREM SpecTypeOK ==
  ASSUME Careful PROVE Spec => []TypeOK
BY SpecWInv, WInvTypeOK, PTL

\* No breakpoint of the detector is left behind to be hit when nothing expects it.
THEOREM SpecBreakpointsAreRemembered ==
  ASSUME Careful PROVE Spec => []BreakpointsAreRemembered
<1>1. WInv => BreakpointsAreRemembered
  BY DEF WInv, BreakpointsInv, BreakpointsAreRemembered
<1> QED
  BY <1>1, SpecWInv, PTL

\* The assertions of both breakpoint callbacks hold, and a breakpoint can be set wherever one is
\* wanted, as long as the process exists.
THEOREM SpecFailsOnlyWithoutProcess ==
  ASSUME Careful PROVE Spec => []FailsOnlyWithoutProcess
<1>1. WInv => FailsOnlyWithoutProcess
  BY DEF WInv
<1> QED
  BY <1>1, SpecWInv, PTL

\* At most one search for a bug goes on at a time.
THEOREM SpecOneChain ==
  ASSUME Careful PROVE Spec => []OneChain
<1>1. WInv => OneChain
  BY DEF WInv, ChainInv, NoBreakpoints, OneChain
<1> QED
  BY <1>1, SpecWInv, PTL

=============================================================================
