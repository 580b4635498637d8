-------------------------- MODULE CollectiveProofs --------------------------
(***************************************************************************)
(* The inference of a batch, for every number of observations, providers   *)
(* and candidates, every loss model and every distribution: the domain     *)
(* that is gated, the decision, the topology, and what is called exact.    *)
(***************************************************************************)
EXTENDS CollectiveProperties, WellFoundedInduction, FiniteSetTheorems, SequenceTheorems, TLAPS

-----------------------------------------------------------------------------
(***************************************************************************)
(* Numbers, and the order of a candidate group.                            *)
(***************************************************************************)

(* A set of numbers has a smallest one.                                    *)
LEMMA SmallestNumber ==
    ASSUME NEW S \in SUBSET Nat, S # {}
    PROVE  \E m \in S : \A n \in S : m <= n
<1> DEFINE less == {p \in Nat \X Nat : p[1] < p[2]}
<1>1. IsWellFoundedOn(less, Nat)
  BY NatLessThanWellFounded, Zenon DEF OpToRel
<1>2. PICK m \in S : \A n \in S : <<n, m>> \notin less
  BY <1>1, WFMin
<1>3. ASSUME NEW n \in S, ~(m <= n) PROVE FALSE
  <2>1. <<n, m>> \in Nat \X Nat /\ n < m
    BY <1>3
  <2> QED
    BY <1>2, <2>1
<1> QED
  BY <1>3

Increasing(s) == \A a, b \in DOMAIN s : a < b => s[a] < s[b]

(* A finite set of numbers can be put in order.                            *)
LEMMA SortedExists ==
    ASSUME NEW S \in SUBSET Nat, IsFiniteSet(S)
    PROVE  \E sorted \in [1..Cardinality(S) -> S] : Increasing(sorted)
<1> DEFINE Sortable(T) == \E sorted \in [1..Cardinality(T) -> T] : Increasing(sorted)
           missing == {n \in Nat : \E T \in SUBSET Nat :
                          IsFiniteSet(T) /\ Cardinality(T) = n /\ ~Sortable(T)}
<1>1. missing = {}
  <2> SUFFICES ASSUME missing # {} PROVE FALSE
    OBVIOUS
  <2>1. PICK n \in missing : \A k \in missing : n <= k
    BY SmallestNumber
  <2>2. PICK T \in SUBSET Nat : IsFiniteSet(T) /\ Cardinality(T) = n /\ ~Sortable(T)
    BY <2>1
  <2>3. T # {}
    <3>1. ASSUME T = {} PROVE Sortable(T)
      <4>1. Cardinality(T) = 0
        BY <3>1, FS_EmptySet
      <4>2. [k \in 1..0 |-> 0] \in [1..0 -> T] /\ Increasing([k \in 1..0 |-> 0])
        BY DEF Increasing
      <4> QED
        BY <4>1, <4>2
    <3> QED
      BY <2>2, <3>1
  <2>4. PICK m \in T : \A x \in T : m <= x
    BY <2>3, SmallestNumber
  <2> DEFINE U == T \ {m}
  <2>5. IsFiniteSet(U) /\ Cardinality(U) = n - 1
    BY <2>2, FS_RemoveElement
  <2>6. n - 1 \in Nat /\ n \in Nat
    BY <2>1, <2>5, FS_CardinalityType
  <2>7. Sortable(U)
    <3> HIDE DEF Sortable
    <3> QED
      BY <2>1, <2>5, <2>6
  <2>8. PICK s \in [1..(n - 1) -> U] : Increasing(s)
    BY <2>5, <2>7
  <2> DEFINE t == [k \in 1..n |-> IF k = 1 THEN m ELSE s[k - 1]]
  <2>9. t \in [1..n -> T]
    BY <2>6, <2>8
  <2>10. ASSUME NEW a \in 1..n, NEW b \in 1..n, a < b PROVE t[a] < t[b]
    <3>1. b # 1 /\ b - 1 \in 1..(n - 1) /\ t[b] = s[b - 1] /\ s[b - 1] \in U
      BY <2>6, <2>8, <2>10
    <3>2. CASE a = 1
      <4>1. t[a] = m /\ m \in Nat
        BY <3>2
      <4>2. t[b] \in Nat /\ m <= t[b] /\ m # t[b]
        BY <2>4, <3>1
      <4> HIDE DEF t
      <4> QED
        BY <4>1, <4>2
    <3>3. CASE a # 1
      <4>1. a - 1 \in 1..(n - 1) /\ a - 1 < b - 1 /\ t[a] = s[a - 1]
        BY <2>6, <2>10, <3>3
      <4> QED
        BY <2>8, <3>1, <4>1 DEF Increasing
    <3> QED
      BY <3>2, <3>3
  <2>11. Increasing(t)
    BY <2>9, <2>10 DEF Increasing
  <2> HIDE DEF t
  <2> QED
    BY <2>2, <2>9, <2>11
<1> HIDE DEF Sortable
<1>2. Sortable(S)
  BY <1>1, FS_CardinalityType
<1> QED
  BY <1>2 DEF Sortable

(* push_observation leaves the group in order, each candidate once.        *)
LEMMA CanonicalSorts ==
    ASSUME NEW group \in Seq(Nat)
    PROVE  /\ Canonical(group) \in Seq(Nat)
           /\ Increasing(Canonical(group))
           /\ Ext!ToSet(Canonical(group)) = Ext!ToSet(group)
<1> DEFINE members == {group[k] : k \in DOMAIN group}
           c == Canonical(group)
<1>1. members \in SUBSET Nat /\ Ext!ToSet(group) = members
  BY DEF Ext!ToSet
<1>2. IsFiniteSet(members)
  <2>1. group \in Surjection(1..Len(group), members)
    BY DEF Surjection
  <2>2. IsFiniteSet(1..Len(group))
    BY FS_Interval
  <2> QED
    BY <2>1, <2>2, FS_Surjection
<1>3. Cardinality(members) \in Nat
  BY <1>2, FS_CardinalityType
<1>4. c \in [1..Cardinality(members) -> members] /\ Increasing(c)
  <2>1. c = CHOOSE s \in [1..Cardinality(members) -> members] : Increasing(s)
    BY DEF Canonical, Increasing
  <2> HIDE DEF c, members
  <2> QED
    BY <1>1, <1>2, <2>1, SortedExists
<1> HIDE DEF c, members
<1>5. c \in Seq(Nat)
  <2>1. \A k \in 1..Cardinality(members) : c[k] \in Nat
    BY <1>1, <1>4
  <2>2. [k \in 1..Cardinality(members) |-> c[k]] \in Seq(Nat)
    BY <1>3, <2>1
  <2>3. c = [k \in 1..Cardinality(members) |-> c[k]]
    BY <1>4
  <2> QED
    BY <2>2, <2>3
<1>6. c \in Injection(1..Cardinality(members), members)
  <2>1. ASSUME NEW a \in 1..Cardinality(members), NEW b \in 1..Cardinality(members), a # b
        PROVE  c[a] # c[b]
    <3>1. a < b \/ b < a
      BY <1>3, <2>1
    <3>2. c[a] \in Nat /\ c[b] \in Nat
      BY <1>1, <1>4
    <3> QED
      BY <1>4, <3>1, <3>2 DEF Increasing
  <2> QED
    BY <1>4, <2>1 DEF Injection, IsInjective
<1>7. c \in Surjection(1..Cardinality(members), members)
  <2>1. IsFiniteSet(1..Cardinality(members))
        /\ Cardinality(1..Cardinality(members)) = Cardinality(members)
    BY <1>3, FS_Interval
  <2> QED
    BY <1>2, <1>6, <2>1, FS_Injection
<1>8. Ext!ToSet(c) = members
  BY <1>4, <1>7 DEF Ext!ToSet, Surjection
<1> QED
  BY <1>1, <1>4, <1>5, <1>8 DEF c

-----------------------------------------------------------------------------
(***************************************************************************)
(* CandidateBuffer: the ranges that the offsets make.                      *)
(***************************************************************************)
BufferType == [offsets: Seq(Nat), candidates: Seq(Nat)]

Groups(buffer) == 1..(Len(buffer.offsets) - 1)

(* The ranges follow each other up to the end, each group is in order.     *)
IsBuffer(buffer) ==
    /\ buffer \in BufferType
    /\ Len(buffer.offsets) >= 1
    /\ buffer.offsets[Len(buffer.offsets)] = Len(buffer.candidates)
    /\ \A i \in Groups(buffer) : buffer.offsets[i] <= buffer.offsets[i + 1]
    /\ \A i \in DOMAIN buffer.offsets : buffer.offsets[i] <= Len(buffer.candidates)
    /\ \A i \in Groups(buffer) : Increasing(Group(buffer, i))

(* A group is a piece of the candidates.                                   *)
LEMMA GroupIsRange ==
    ASSUME NEW buffer \in BufferType, NEW i \in Nat,
           i \in DOMAIN buffer.offsets, i + 1 \in DOMAIN buffer.offsets,
           buffer.offsets[i] <= buffer.offsets[i + 1],
           buffer.offsets[i + 1] <= Len(buffer.candidates)
    PROVE  /\ Group(buffer, i) \in Seq(Nat)
           /\ Len(Group(buffer, i)) = buffer.offsets[i + 1] - buffer.offsets[i]
           /\ \A k \in 1..(buffer.offsets[i + 1] - buffer.offsets[i]) :
                  Group(buffer, i)[k] = buffer.candidates[buffer.offsets[i] + k]
<1> DEFINE o == buffer.offsets[i]
           n == buffer.offsets[i + 1]
           s == buffer.candidates
<1>1. o \in Nat /\ n \in Nat /\ s \in Seq(Nat) /\ o <= n /\ n <= Len(s)
  BY DEF BufferType
<1>2. Group(buffer, i) = SubSeq(s, o + 1, n)
  BY DEF Group
<1> HIDE DEF o, n, s
<1>3. Len(s) \in Nat /\ \A k \in 1..Len(s) : s[k] \in Nat
  BY <1>1
<1> DEFINE m == o + 1
<1>4. m \in Nat /\ m >= 1 /\ m <= n + 1 /\ n - m + 1 = n - o
  BY <1>1
<1>5. \A k \in 1..(n - o) : m + k - 1 = o + k
  BY <1>1
<1> HIDE DEF m
<1>6. \A k \in m..n : s[k] \in Nat
  BY <1>1, <1>3, <1>4
<1>7. /\ SubSeq(s, m, n) \in Seq(Nat)
      /\ Len(SubSeq(s, m, n)) = IF m <= n THEN n - m + 1 ELSE 0
      /\ \A k \in 1..(n - m + 1) : SubSeq(s, m, n)[k] = s[m + k - 1]
  BY <1>1, <1>4, <1>6, SubSeqProperties
<1>8. Len(SubSeq(s, m, n)) = n - o
  BY <1>1, <1>4, <1>7
<1>9. \A k \in 1..(n - o) : SubSeq(s, m, n)[k] = s[o + k]
  BY <1>4, <1>5, <1>7
<1> QED
  BY <1>2, <1>7, <1>8, <1>9 DEF m, n, o, s

(* The groups of a buffer are increasing sequences.                        *)
LEMMA GroupsOf ==
    ASSUME NEW buffer, IsBuffer(buffer), NEW i \in Groups(buffer)
    PROVE  Group(buffer, i) \in Seq(Nat) /\ Increasing(Group(buffer, i))
<1>1. /\ buffer \in BufferType /\ Len(buffer.offsets) \in Nat
      /\ i \in 1..Len(buffer.offsets) /\ i + 1 \in 1..Len(buffer.offsets) /\ i \in Nat
  BY DEF IsBuffer, Groups, BufferType
<1>2. i \in DOMAIN buffer.offsets /\ i + 1 \in DOMAIN buffer.offsets
  BY <1>1 DEF BufferType
<1>3. buffer.offsets[i] <= buffer.offsets[i + 1] /\ buffer.offsets[i + 1] <= Len(buffer.candidates)
  BY <1>2 DEF IsBuffer
<1>4. Group(buffer, i) \in Seq(Nat)
  BY <1>1, <1>2, <1>3, GroupIsRange
<1> QED
  BY <1>4 DEF IsBuffer

(* A buffer that was reset has no groups.                                  *)
LEMMA EmptyIsBuffer ==
    IsBuffer(EmptyBuffer) /\ Groups(EmptyBuffer) = {} /\ Len(EmptyBuffer.offsets) = 1
<1>1. EmptyBuffer.offsets = <<0>> /\ EmptyBuffer.candidates = <<>>
  BY DEF EmptyBuffer
<1>2. /\ EmptyBuffer \in BufferType /\ Len(EmptyBuffer.offsets) = 1
      /\ Len(EmptyBuffer.candidates) = 0 /\ EmptyBuffer.offsets[1] = 0
      /\ DOMAIN EmptyBuffer.offsets = 1..1
  BY DEF BufferType, EmptyBuffer
<1>3. Groups(EmptyBuffer) = {}
  BY <1>2 DEF Groups
<1> QED
  BY <1>2, <1>3 DEF IsBuffer

(* push_observation adds a group and leaves the others as they are.        *)
LEMMA PushAddsGroup ==
    ASSUME NEW buffer, IsBuffer(buffer), NEW group \in Seq(Nat)
    PROVE  /\ IsBuffer(Pushed(buffer, group))
           /\ Len(Pushed(buffer, group).offsets) = Len(buffer.offsets) + 1
           /\ \A i \in Groups(buffer) : Group(Pushed(buffer, group), i) = Group(buffer, i)
           /\ Group(Pushed(buffer, group), Len(buffer.offsets)) = Canonical(group)
<1> DEFINE offsets == buffer.offsets
           s == buffer.candidates
           c == Canonical(group)
           l == Len(offsets)
           after == Pushed(buffer, group)
<1>1. c \in Seq(Nat) /\ Increasing(c)
  BY CanonicalSorts
<1>2. /\ offsets \in Seq(Nat) /\ s \in Seq(Nat) /\ l \in Nat /\ l >= 1 /\ offsets[l] = Len(s)
      /\ buffer \in BufferType /\ l = Len(offsets) /\ Groups(buffer) = 1..(l - 1)
      /\ \A i \in 1..(l - 1) : offsets[i] <= offsets[i + 1]
      /\ \A i \in 1..l : offsets[i] <= Len(s)
  BY DEF IsBuffer, BufferType, Groups
<1> HIDE DEF c
<1>3. /\ s \o c \in Seq(Nat) /\ Len(s \o c) = Len(s) + Len(c)
      /\ \A k \in 1..(Len(s) + Len(c)) :
             (s \o c)[k] = IF k <= Len(s) THEN s[k] ELSE c[k - Len(s)]
      /\ Len(s) \in Nat /\ Len(c) \in Nat
  BY <1>1, <1>2
<1>4. /\ after.offsets = Append(offsets, Len(s \o c)) /\ after.candidates = s \o c
      /\ after = [offsets |-> after.offsets, candidates |-> after.candidates]
  BY DEF Pushed, c
<1> HIDE DEF offsets, s, after, l
<1>5. /\ after.offsets \in Seq(Nat) /\ Len(after.offsets) = l + 1
      /\ DOMAIN after.offsets = 1..(l + 1)
      /\ \A i \in 1..l : after.offsets[i] = offsets[i]
      /\ after.offsets[l + 1] = Len(s) + Len(c)
  BY <1>2, <1>3, <1>4
<1>6. after \in BufferType
  BY <1>3, <1>4, <1>5 DEF BufferType
<1>7. \A i \in 1..l : after.offsets[i] <= after.offsets[i + 1]
  <2>1. ASSUME NEW i \in 1..l PROVE after.offsets[i] <= after.offsets[i + 1]
    <3>1. CASE i = l
      BY <1>2, <1>3, <1>5, <3>1
    <3>2. CASE i # l
      <4>1. i \in 1..(l - 1) /\ i + 1 \in 1..l
        BY <1>2, <3>2
      <4> QED
        BY <1>2, <1>5, <4>1
    <3> QED
      BY <3>1, <3>2
  <2> QED
    BY <2>1
<1>8. \A i \in 1..(l + 1) : after.offsets[i] <= Len(after.candidates)
  <2>1. ASSUME NEW i \in 1..(l + 1) PROVE after.offsets[i] <= Len(after.candidates)
    <3>1. CASE i = l + 1
      BY <1>3, <1>4, <1>5, <3>1
    <3>2. CASE i # l + 1
      <4>1. i \in 1..l /\ offsets[i] \in Nat
        BY <1>2, <3>2
      <4> QED
        BY <1>2, <1>3, <1>4, <1>5, <4>1
    <3> QED
      BY <3>1, <3>2
  <2> QED
    BY <2>1
<1>9. ASSUME NEW i \in 1..l
      PROVE  /\ Group(after, i) \in Seq(Nat)
             /\ Len(Group(after, i)) = after.offsets[i + 1] - after.offsets[i]
             /\ \A k \in 1..(after.offsets[i + 1] - after.offsets[i]) :
                    Group(after, i)[k] = (s \o c)[after.offsets[i] + k]
  <2>1. /\ i \in Nat /\ i \in DOMAIN after.offsets /\ i + 1 \in DOMAIN after.offsets
        /\ i + 1 \in 1..(l + 1)
    <3>1. i \in Nat /\ i \in 1..(l + 1) /\ i + 1 \in 1..(l + 1)
      BY <1>2
    <3> QED
      BY <1>5, <3>1
  <2> QED
    BY <1>4, <1>6, <1>7, <1>8, <2>1, GroupIsRange
<1>10. ASSUME NEW i \in Groups(buffer) PROVE Group(after, i) = Group(buffer, i)
  <2>1. i \in 1..(l - 1) /\ i \in 1..l /\ i + 1 \in 1..l /\ i \in Nat
    BY <1>2
  <2>2. /\ i \in DOMAIN buffer.offsets /\ i + 1 \in DOMAIN buffer.offsets
        /\ offsets[i] \in Nat /\ offsets[i + 1] \in Nat
    <3>1. DOMAIN offsets = 1..l /\ \A k \in 1..l : offsets[k] \in Nat
      BY <1>2
    <3> QED
      BY <2>1, <3>1 DEF offsets
  <2>3. /\ Group(buffer, i) \in Seq(Nat)
        /\ Len(Group(buffer, i)) = offsets[i + 1] - offsets[i]
        /\ \A k \in 1..(offsets[i + 1] - offsets[i]) :
               Group(buffer, i)[k] = s[offsets[i] + k]
    <3>1. offsets[i] <= offsets[i + 1] /\ offsets[i + 1] <= Len(s)
      BY <1>2, <2>1
    <3> QED
      BY <1>2, <2>1, <2>2, <3>1, GroupIsRange DEF offsets, s
  <2>4. after.offsets[i] = offsets[i] /\ after.offsets[i + 1] = offsets[i + 1]
    BY <1>5, <2>1
  <2>5. ASSUME NEW k \in 1..(offsets[i + 1] - offsets[i])
        PROVE  Group(after, i)[k] = Group(buffer, i)[k]
    <3>1. offsets[i] + k \in 1..Len(s) /\ offsets[i] + k <= Len(s)
      <4>1. offsets[i + 1] <= Len(s) /\ offsets[i] <= offsets[i + 1]
        BY <1>2, <2>1
      <4>2. offsets[i] + k <= offsets[i + 1] /\ k >= 1 /\ k \in Nat
        BY <2>2, <4>1
      <4> QED
        BY <1>3, <2>2, <4>1, <4>2
    <3>2. (s \o c)[offsets[i] + k] = s[offsets[i] + k]
      BY <1>3, <3>1
    <3> QED
      BY <1>9, <2>1, <2>3, <2>4, <3>2
  <2>6. Len(Group(after, i)) = Len(Group(buffer, i)) /\ Group(after, i) \in Seq(Nat)
    BY <1>9, <2>1, <2>3, <2>4
  <2> QED
    BY <2>3, <2>5, <2>6, SeqEqual
<1>11. Group(after, l) = c
  <2>1. l \in 1..l /\ after.offsets[l] = Len(s) /\ after.offsets[l + 1] = Len(s) + Len(c)
    BY <1>2, <1>5
  <2>2. Group(after, l) \in Seq(Nat) /\ Len(Group(after, l)) = Len(c)
    BY <1>3, <1>9, <2>1
  <2>3. ASSUME NEW k \in 1..Len(c) PROVE Group(after, l)[k] = c[k]
    <3>1. Group(after, l)[k] = (s \o c)[Len(s) + k]
      <4>1. k \in 1..(after.offsets[l + 1] - after.offsets[l])
        BY <1>3, <2>1
      <4> QED
        BY <1>9, <2>1, <4>1
    <3>2. Len(s) + k \in 1..(Len(s) + Len(c)) /\ ~(Len(s) + k <= Len(s)) /\ Len(s) + k - Len(s) = k
      BY <1>3
    <3> QED
      BY <1>3, <3>1, <3>2
  <2> QED
    BY <1>1, <2>2, <2>3, SeqEqual
<1>12. \A i \in 1..l : Increasing(Group(after, i))
  <2>1. ASSUME NEW i \in 1..l PROVE Increasing(Group(after, i))
    <3>1. CASE i = l
      BY <1>1, <1>11, <3>1
    <3>2. CASE i # l
      <4>1. i \in Groups(buffer)
        BY <1>2, <3>2
      <4> QED
        BY <1>10, <4>1 DEF IsBuffer
    <3> QED
      BY <3>1, <3>2
  <2> QED
    BY <2>1
<1>13. Groups(after) = 1..l
  BY <1>2, <1>5 DEF Groups
<1>14. IsBuffer(after)
  <2>1. Len(after.offsets) >= 1 /\ after.offsets[Len(after.offsets)] = Len(after.candidates)
    BY <1>2, <1>3, <1>4, <1>5
  <2>2. \A i \in DOMAIN after.offsets : after.offsets[i] <= Len(after.candidates)
    BY <1>5, <1>8
  <2> QED
    BY <1>6, <1>7, <1>12, <1>13, <2>1, <2>2 DEF IsBuffer
<1> QED
  BY <1>2, <1>5, <1>10, <1>11, <1>14 DEF after, offsets, c, l

-----------------------------------------------------------------------------
(***************************************************************************)
(* Gating: from what providers propose to the domain of the solver.        *)
(***************************************************************************)
Bound == Greatest(BatchLength)

(* The scratch space has a place for every observation of a batch.         *)
LEMMA BatchFits ==
    \A n \in BatchLength : n \in Nat \ {0} /\ n \in 1..Bound /\ Bound \in Nat
<1> SUFFICES ASSUME NEW n \in BatchLength
             PROVE  n \in Nat \ {0} /\ n \in 1..Bound /\ Bound \in Nat
  OBVIOUS
<1>1. BatchLength \in SUBSET Nat /\ IsFiniteSet(BatchLength) /\ n \in Nat \ {0}
  BY CollectiveAssumption
<1>2. PICK s \in [1..Cardinality(BatchLength) -> BatchLength] : Increasing(s)
  BY <1>1, SortedExists
<1> DEFINE c == Cardinality(BatchLength)
<1>3. c \in Nat
  BY <1>1, FS_CardinalityType
<1>4. s \in Surjection(1..c, BatchLength)
  <2>1. \A a, b \in 1..c : s[a] = s[b] => a = b
    <3>1. ASSUME NEW a \in 1..c, NEW b \in 1..c, a # b PROVE s[a] # s[b]
      <4>1. a < b \/ b < a
        BY <1>3, <3>1
      <4>2. s[a] \in Nat /\ s[b] \in Nat
        BY <1>1, <1>2
      <4> QED
        BY <1>2, <4>1, <4>2 DEF Increasing
    <3> QED
      BY <3>1
  <2>2. s \in Injection(1..c, BatchLength)
    BY <1>2, <2>1 DEF Injection, IsInjective
  <2>3. IsFiniteSet(1..c) /\ Cardinality(1..c) = c
    BY <1>3, FS_Interval
  <2> QED
    BY <1>1, <2>2, <2>3, FS_Injection
<1>5. \A m \in BatchLength : \E a \in 1..c : s[a] = m
  BY <1>4 DEF Surjection
<1> HIDE DEF c
<1>6. c \in 1..c
  BY <1>3, <1>5
<1>7. s[c] \in BatchLength /\ \A m \in BatchLength : m <= s[c]
  <2>1. s[c] \in BatchLength
    BY <1>2, <1>6 DEF c
  <2>2. ASSUME NEW m \in BatchLength PROVE m <= s[c]
    <3>1. PICK a \in 1..c : s[a] = m
      BY <1>5
    <3>2. a = c \/ a < c
      BY <1>3
    <3>3. m \in Nat /\ s[c] \in Nat
      BY <1>1, <2>1
    <3>4. DOMAIN s = 1..c
      BY <1>2 DEF c
    <3> QED
      BY <1>2, <1>6, <3>1, <3>2, <3>3, <3>4 DEF Increasing
  <2> QED
    BY <2>1, <2>2
<1>8. Bound \in BatchLength /\ \A m \in BatchLength : m <= Bound
  BY <1>7 DEF Bound, Greatest
<1> QED
  BY <1>1, <1>8

GatingTypeOK ==
    /\ IsBuffer(provider_candidates)
    /\ candidate_groups \in [1..Bound -> Seq(Nat)]
    /\ phase # "idle" =>
           /\ batch \in BatchLength /\ providers \in Nat /\ provider \in Nat \ {0}
           /\ IsBuffer(candidates)
           /\ proposed \in [1..batch -> SUBSET Nat]
           /\ Len(candidates.offsets) <= batch + 1
           /\ Len(provider_candidates.offsets) <= batch + 1

(* What the group of observation i of a buffer holds so far.               *)
Held(buffer, i) == IF i \in Groups(buffer) THEN Ext!ToSet(Group(buffer, i)) ELSE {}

(* The only provider fills the solver's buffer ...                         *)
OnlyProvider == \A i \in 1..batch : proposed[i] = Held(candidates, i)

(* ... several fill a buffer of their own, which is added to the groups ... *)
SeveralProviders ==
    /\ candidates = EmptyBuffer
    /\ \A i \in 1..batch :
           proposed[i] = Ext!ToSet(candidate_groups[i]) \cup Held(provider_candidates, i)

(* ... from which the solver's buffer is filled in the end.                *)
Merging ==
    \A i \in 1..batch :
        proposed[i] = IF i \in Groups(candidates) THEN Ext!ToSet(Group(candidates, i))
                      ELSE Ext!ToSet(candidate_groups[i])

GatingHolds ==
    /\ phase = "gating" =>
           /\ providers = 1 => OnlyProvider
           /\ providers = 1 /\ provider > 1 => Complete(candidates, batch)
           /\ providers # 1 /\ provider <= providers => SeveralProviders
           /\ providers # 1 /\ provider > providers => Merging
    /\ phase \notin {"idle", "gating"} => Complete(candidates, batch) /\ OnlyProvider

GatingInv == GatingTypeOK /\ GatingHolds

(* The domains are gated when it holds.                                    *)
LEMMA GatingGives == GatingInv => DomainsGated
<1> SUFFICES ASSUME GatingInv, phase \notin {"idle", "gating"}
             PROVE  /\ Complete(candidates, batch)
                    /\ \A i \in 1..batch :
                           /\ Ext!ToSet(Group(candidates, i)) = proposed[i]
                           /\ Increasing(Group(candidates, i))
  BY DEF DomainsGated, Increasing
<1>1. Complete(candidates, batch) /\ OnlyProvider /\ IsBuffer(candidates) /\ batch \in Nat
  BY BatchFits DEF GatingInv, GatingTypeOK, GatingHolds
<1>2. Groups(candidates) = 1..batch
  BY <1>1 DEF Groups, Complete
<1> QED
  BY <1>1, <1>2, GroupsOf DEF OnlyProvider, Held

(* Begin starts with empty buffers and groups.                             *)
LEMMA BeginGates ==
    ASSUME GatingInv, NEW n \in BatchLength, NEW k \in Providers, Begin(n, k)
    PROVE  GatingInv'
<1>1. /\ phase' = "gating" /\ batch' = n /\ providers' = k /\ provider' = 1
      /\ candidates' = EmptyBuffer /\ provider_candidates' = EmptyBuffer
      /\ candidate_groups' = GroupsReset(n) /\ proposed' = [i \in 1..n |-> {}]
  BY DEF Begin
<1>2. n \in Nat \ {0} /\ n \in 1..Bound /\ Bound \in Nat /\ k \in Nat
  BY BatchFits, CollectiveAssumption
<1>3. candidate_groups \in [1..Bound -> Seq(Nat)]
  BY DEF GatingInv, GatingTypeOK
<1>4. /\ candidate_groups' \in [1..Bound -> Seq(Nat)]
      /\ \A i \in 1..n : candidate_groups'[i] = <<>>
  <2>1. 1..n \subseteq 1..Bound
    BY <1>2
  <2> QED
    BY <1>1, <1>2, <1>3, <2>1 DEF GroupsReset
<1>5. GatingTypeOK'
  BY <1>1, <1>2, <1>4, EmptyIsBuffer DEF GatingTypeOK
<1>6. \A i \in 1..n : Ext!ToSet(candidate_groups'[i]) = {}
  BY <1>4 DEF Ext!ToSet
<1>7. OnlyProvider' /\ SeveralProviders' /\ Merging'
  BY <1>1, <1>6, EmptyIsBuffer DEF OnlyProvider, SeveralProviders, Merging, Held
<1> QED
  BY <1>1, <1>5, <1>7 DEF GatingInv, GatingHolds

(* A pushed group is held, and the ones before it stay.                    *)
LEMMA PushHolds ==
    ASSUME NEW buffer, IsBuffer(buffer), NEW group \in Seq(Nat)
    PROVE  /\ Len(buffer.offsets) \in Nat \ {0}
           /\ Held(Pushed(buffer, group), Len(buffer.offsets)) = Ext!ToSet(group)
           /\ Held(buffer, Len(buffer.offsets)) = {}
           /\ \A i \in Nat : i # Len(buffer.offsets) =>
                  Held(Pushed(buffer, group), i) = Held(buffer, i)
           /\ \A i \in Nat : i \in Groups(Pushed(buffer, group)) <=>
                  i \in Groups(buffer) \/ i = Len(buffer.offsets)
<1> DEFINE after == Pushed(buffer, group)
           l == Len(buffer.offsets)
<1>1. /\ Len(after.offsets) = l + 1
      /\ \A i \in Groups(buffer) : Group(after, i) = Group(buffer, i)
      /\ Group(after, l) = Canonical(group)
  BY PushAddsGroup
<1>2. Ext!ToSet(Canonical(group)) = Ext!ToSet(group)
  BY CanonicalSorts
<1>3. l \in Nat \ {0}
  BY DEF IsBuffer, BufferType
<1> HIDE DEF after
<1>4. Groups(buffer) = 1..(l - 1) /\ Groups(after) = 1..l
  BY <1>1, <1>3 DEF Groups
<1> HIDE DEF l
<1>5. l \in Groups(after) /\ l \notin Groups(buffer)
  BY <1>3, <1>4
<1>6. \A i \in Nat : i \in Groups(after) <=> i \in Groups(buffer) \/ i = l
  BY <1>3, <1>4
<1>7. Held(after, l) = Ext!ToSet(group) /\ Held(buffer, l) = {}
  BY <1>1, <1>2, <1>5 DEF Held
<1>8. ASSUME NEW i \in Nat, i # l PROVE Held(after, i) = Held(buffer, i)
  BY <1>1, <1>6, <1>8 DEF Held
<1> QED
  BY <1>3, <1>6, <1>7, <1>8 DEF after, l

(* A provider proposes the group of the next observation.                  *)
LEMMA GenerateGates ==
    ASSUME GatingInv, NEW group \in Proposable(batch), GenerateCandidates(group)
    PROVE  GatingInv'
<1>1. /\ phase = "gating" /\ provider <= providers /\ ~Complete(Output, batch)
      /\ proposed' = [proposed EXCEPT ![Len(Output.offsets)] = @ \cup Ext!ToSet(group)]
      /\ UNCHANGED <<phase, candidate_groups, batch, providers, provider>>
  BY DEF GenerateCandidates, Generating
<1>2. /\ batch \in BatchLength /\ batch \in Nat \ {0} /\ providers \in Nat
      /\ provider \in Nat \ {0}
      /\ IsBuffer(candidates) /\ IsBuffer(provider_candidates)
      /\ proposed \in [1..batch -> SUBSET Nat]
      /\ Len(candidates.offsets) <= batch + 1 /\ Len(provider_candidates.offsets) <= batch + 1
      /\ candidate_groups \in [1..Bound -> Seq(Nat)]
  BY <1>1, BatchFits DEF GatingInv, GatingTypeOK
<1>3. group \in Seq(Nat)
  BY <1>2, CollectiveAssumption
<1> DEFINE l == Len(Output.offsets)
           after == Pushed(Output, group)
<1>4. IsBuffer(Output) /\ Len(Output.offsets) <= batch + 1
  BY <1>2 DEF Output
<1>5. /\ l \in 1..batch /\ IsBuffer(after) /\ Len(after.offsets) <= batch + 1
  <2>1. IsBuffer(after) /\ Len(after.offsets) = l + 1 /\ l \in Nat \ {0}
    BY <1>3, <1>4, PushAddsGroup, PushHolds
  <2>2. l # batch + 1
    BY <1>1 DEF Complete
  <2> HIDE DEF after
  <2> QED
    BY <1>2, <1>4, <2>1, <2>2
<1>6. /\ Held(after, l) = Ext!ToSet(group) /\ Held(Output, l) = {}
      /\ \A i \in Nat : i # l => Held(after, i) = Held(Output, i)
  BY <1>3, <1>4, PushHolds
<1>7. Ext!ToSet(group) \subseteq Nat
  BY <1>3 DEF Ext!ToSet
<1> HIDE DEF l, after
<1>8. /\ proposed' \in [1..batch -> SUBSET Nat]
      /\ \A i \in 1..batch : proposed'[i] = IF i = l THEN proposed[i] \cup Ext!ToSet(group)
                                            ELSE proposed[i]
  BY <1>1, <1>2, <1>5, <1>7 DEF l
<1>9. CASE providers = 1
  <2>1. Output = candidates /\ candidates' = after /\ provider_candidates' = provider_candidates
    BY <1>9 DEF GenerateCandidates, Output, after
  <2>2. GatingTypeOK'
    BY <1>1, <1>2, <1>5, <1>8, <2>1 DEF GatingTypeOK
  <2>3. OnlyProvider
    BY <1>1, <1>9 DEF GatingInv, GatingHolds
  <2>4. ASSUME NEW i \in 1..batch PROVE proposed'[i] = Held(after, i)
    <3>1. proposed[i] = Held(Output, i)
      BY <2>1, <2>3 DEF OnlyProvider
    <3>2. CASE i = l
      BY <1>6, <1>8, <3>1, <3>2
    <3>3. CASE i # l
      BY <1>2, <1>6, <1>8, <3>1, <3>3
    <3> QED
      BY <3>2, <3>3
  <2>5. OnlyProvider'
    BY <1>1, <2>1, <2>4 DEF OnlyProvider, Held
  <2>6. ~(provider > 1)
    BY <1>1, <1>2, <1>9
  <2> QED
    BY <1>1, <1>9, <2>2, <2>5, <2>6 DEF GatingInv, GatingHolds
<1>10. CASE providers # 1
  <2>1. Output = provider_candidates /\ candidates' = candidates /\ provider_candidates' = after
    BY <1>10 DEF GenerateCandidates, Output, after
  <2>2. GatingTypeOK'
    BY <1>1, <1>2, <1>5, <1>8, <2>1 DEF GatingTypeOK
  <2>3. SeveralProviders
    BY <1>1, <1>10 DEF GatingInv, GatingHolds
  <2>4. ASSUME NEW i \in 1..batch
        PROVE  proposed'[i] = Ext!ToSet(candidate_groups[i]) \cup Held(after, i)
    <3>1. proposed[i] = Ext!ToSet(candidate_groups[i]) \cup Held(Output, i)
      BY <2>1, <2>3 DEF SeveralProviders
    <3> QED
      BY <1>2, <1>6, <1>8, <3>1
  <2>5. SeveralProviders'
    BY <1>1, <2>1, <2>3, <2>4 DEF SeveralProviders, Held
  <2>6. ~(provider > providers)
    BY <1>1, <1>2
  <2> QED
    BY <1>1, <1>10, <2>2, <2>5, <2>6 DEF GatingInv, GatingHolds
<1> QED
  BY <1>9, <1>10

(* Two groups one after the other hold what either holds.                  *)
LEMMA ConcatHolds ==
    ASSUME NEW s \in Seq(Nat), NEW t \in Seq(Nat)
    PROVE  Ext!ToSet(s \o t) = Ext!ToSet(s) \cup Ext!ToSet(t)
<1> DEFINE u == s \o t
<1>1. /\ DOMAIN u = 1..(Len(s) + Len(t)) /\ Len(s) \in Nat /\ Len(t) \in Nat
      /\ \A k \in 1..(Len(s) + Len(t)) : u[k] = IF k <= Len(s) THEN s[k] ELSE t[k - Len(s)]
  OBVIOUS
<1> HIDE DEF u
<1>2. \A k \in DOMAIN u : u[k] \in Ext!ToSet(s) \cup Ext!ToSet(t)
  BY <1>1 DEF Ext!ToSet
<1>3. \A k \in DOMAIN s : k \in DOMAIN u /\ u[k] = s[k]
  BY <1>1
<1>4. \A k \in DOMAIN t : Len(s) + k \in DOMAIN u /\ u[Len(s) + k] = t[k]
  BY <1>1
<1>5. Ext!ToSet(s) \subseteq Ext!ToSet(u)
  BY <1>3 DEF Ext!ToSet
<1>6. Ext!ToSet(t) \subseteq Ext!ToSet(u)
  BY <1>4 DEF Ext!ToSet
<1>7. Ext!ToSet(u) \subseteq Ext!ToSet(s) \cup Ext!ToSet(t)
  BY <1>2 DEF Ext!ToSet
<1> QED
  BY <1>5, <1>6, <1>7 DEF u

(* A provider has returned: what it proposed is added to the groups.       *)
LEMMA ReturnGates ==
    ASSUME GatingInv, ProviderReturns
    PROVE  GatingInv'
<1>1. /\ phase = "gating" /\ provider <= providers /\ Complete(Output, batch)
      /\ provider' = provider + 1
      /\ UNCHANGED <<phase, candidates, batch, providers, proposed>>
  BY DEF ProviderReturns, Generating
<1>2. /\ batch \in BatchLength /\ batch \in Nat \ {0} /\ providers \in Nat
      /\ provider \in Nat \ {0} /\ 1..batch \subseteq 1..Bound
      /\ IsBuffer(candidates) /\ IsBuffer(provider_candidates)
      /\ proposed \in [1..batch -> SUBSET Nat]
      /\ Len(candidates.offsets) <= batch + 1 /\ Len(provider_candidates.offsets) <= batch + 1
      /\ candidate_groups \in [1..Bound -> Seq(Nat)]
  <2>1. batch \in BatchLength
    BY <1>1 DEF GatingInv, GatingTypeOK
  <2>2. batch \in Nat \ {0} /\ batch \in 1..Bound /\ Bound \in Nat
    BY <2>1, BatchFits
  <2>3. 1..batch \subseteq 1..Bound
    BY <2>2
  <2> QED
    BY <1>1, <2>1, <2>2, <2>3 DEF GatingInv, GatingTypeOK
<1>3. CASE providers = 1
  <2>1. /\ UNCHANGED <<provider_candidates, candidate_groups>> /\ Complete(candidates, batch)
    BY <1>1, <1>3 DEF ProviderReturns, Output
  <2>2. GatingTypeOK'
    BY <1>1, <1>2, <2>1 DEF GatingTypeOK
  <2>3. OnlyProvider
    BY <1>1, <1>3 DEF GatingInv, GatingHolds
  <2>4. OnlyProvider' /\ Complete(candidates, batch)'
    BY <1>1, <2>1, <2>3 DEF OnlyProvider, Held, Complete
  <2> QED
    BY <1>1, <1>3, <2>2, <2>4 DEF GatingInv, GatingHolds
<1>4. CASE providers # 1
  <2>1. /\ candidate_groups' = AddedGroups /\ provider_candidates' = EmptyBuffer
        /\ Complete(provider_candidates, batch)
    BY <1>1, <1>4 DEF ProviderReturns, Output
  <2>2. SeveralProviders
    BY <1>1, <1>4 DEF GatingInv, GatingHolds
  <2>3. Groups(provider_candidates) = 1..batch
    BY <1>2, <2>1 DEF Complete, Groups
  <2>4. \A i \in 1..batch : Group(provider_candidates, i) \in Seq(Nat)
    BY <1>2, <2>3, GroupsOf
  <2>5. /\ candidate_groups' \in [1..Bound -> Seq(Nat)]
        /\ \A i \in 1..batch :
               candidate_groups'[i] = candidate_groups[i] \o Group(provider_candidates, i)
    <3>1. ASSUME NEW i \in 1..Bound
          PROVE  (IF i <= batch THEN candidate_groups[i] \o Group(provider_candidates, i)
                                ELSE candidate_groups[i]) \in Seq(Nat)
      <4>1. CASE i <= batch
        <5>1. i \in 1..batch
          BY <1>2, <4>1
        <5> QED
          BY <1>2, <2>4, <4>1, <5>1, ConcatProperties
      <4>2. CASE ~(i <= batch)
        BY <1>2, <4>2
      <4> QED
        BY <4>1, <4>2
    <3>2. \A i \in 1..batch : i \in 1..Bound /\ i <= batch
      BY <1>2
    <3>3. DOMAIN candidate_groups = 1..Bound
      BY <1>2
    <3> QED
      BY <2>1, <3>1, <3>2, <3>3 DEF AddedGroups
  <2>6. ASSUME NEW i \in 1..batch PROVE proposed[i] = Ext!ToSet(candidate_groups'[i])
    <3>1. proposed[i] = Ext!ToSet(candidate_groups[i]) \cup Ext!ToSet(Group(provider_candidates, i))
      BY <2>2, <2>3 DEF SeveralProviders, Held
    <3>2. candidate_groups[i] \in Seq(Nat) /\ Group(provider_candidates, i) \in Seq(Nat)
      BY <1>2, <2>4
    <3> QED
      BY <2>5, <3>1, <3>2, ConcatHolds
  <2>7. GatingTypeOK'
    BY <1>1, <1>2, <2>1, <2>5, EmptyIsBuffer DEF GatingTypeOK
  <2>8. SeveralProviders'
    BY <1>1, <2>1, <2>2, <2>6, EmptyIsBuffer DEF SeveralProviders, Held
  <2>9. Merging'
    BY <1>1, <2>2, <2>6, EmptyIsBuffer DEF SeveralProviders, Merging
  <2> QED
    BY <1>1, <1>4, <2>7, <2>8, <2>9 DEF GatingInv, GatingHolds
<1> QED
  BY <1>3, <1>4

(* The groups of the next observation become its domain.                   *)
LEMMA AggregateGates ==
    ASSUME GatingInv, Aggregate
    PROVE  GatingInv'
<1> DEFINE l == Len(candidates.offsets)
           after == Pushed(candidates, candidate_groups[l])
<1>1. /\ phase = "gating" /\ provider > providers /\ ~Complete(candidates, batch)
      /\ candidates' = after /\ candidate_groups' = [candidate_groups EXCEPT ![l] = <<>>]
      /\ UNCHANGED <<phase, provider_candidates, batch, providers, provider, proposed>>
  BY DEF Aggregate, Aggregating, gating
<1>2. /\ batch \in BatchLength /\ providers \in Nat /\ provider \in Nat \ {0}
      /\ IsBuffer(candidates) /\ IsBuffer(provider_candidates)
      /\ proposed \in [1..batch -> SUBSET Nat]
      /\ Len(candidates.offsets) <= batch + 1 /\ Len(provider_candidates.offsets) <= batch + 1
      /\ candidate_groups \in [1..Bound -> Seq(Nat)]
  BY <1>1 DEF GatingInv, GatingTypeOK
<1>3. batch \in Nat \ {0} /\ 1..batch \subseteq 1..Bound
  <2>1. batch \in Nat \ {0} /\ batch \in 1..Bound /\ Bound \in Nat
    BY <1>2, BatchFits
  <2> QED
    BY <2>1
<1>4. providers # 1 /\ Merging
  BY <1>1, <1>2 DEF GatingInv, GatingHolds
<1>5. l \in 1..batch
  <2>1. l \in Nat \ {0}
    BY <1>2 DEF IsBuffer, BufferType
  <2>2. l # batch + 1
    BY <1>1 DEF Complete
  <2> QED
    BY <1>2, <1>3, <2>1, <2>2
<1>6. candidate_groups[l] \in Seq(Nat)
  BY <1>2, <1>3, <1>5
<1>7. /\ IsBuffer(after) /\ Len(after.offsets) = l + 1
      /\ Held(after, l) = Ext!ToSet(candidate_groups[l])
      /\ \A i \in Nat : i # l => Held(after, i) = Held(candidates, i)
      /\ \A i \in Nat : i \in Groups(after) <=> i \in Groups(candidates) \/ i = l
  BY <1>2, <1>6, PushAddsGroup, PushHolds
<1> HIDE DEF l, after
<1>8. /\ candidate_groups' \in [1..Bound -> Seq(Nat)]
      /\ \A i \in 1..batch : i # l => candidate_groups'[i] = candidate_groups[i]
  <2>1. <<>> \in Seq(Nat)
    BY EmptySeq
  <2> QED
    BY <1>1, <1>2, <1>3, <2>1
<1>9. Len(after.offsets) <= batch + 1
  BY <1>3, <1>5, <1>7
<1>10. GatingTypeOK'
  BY <1>1, <1>2, <1>7, <1>8, <1>9 DEF GatingTypeOK
<1>11. ASSUME NEW i \in 1..batch
       PROVE  proposed[i] = IF i \in Groups(after) THEN Ext!ToSet(Group(after, i))
                            ELSE Ext!ToSet(candidate_groups'[i])
  <2>1. proposed[i] = IF i \in Groups(candidates) THEN Held(candidates, i)
                      ELSE Ext!ToSet(candidate_groups[i])
    BY <1>4 DEF Merging, Held
  <2>2. CASE i = l
    <3>1. i \in Groups(after) /\ i \notin Groups(candidates)
      <4>1. Groups(candidates) = 1..(l - 1)
        BY DEF Groups, l
      <4> QED
        BY <1>3, <1>5, <1>7, <2>2, <4>1
    <3> QED
      BY <1>7, <2>1, <2>2, <3>1 DEF Held
  <2>3. CASE i # l
    <3>1. i \in Groups(after) <=> i \in Groups(candidates)
      BY <1>3, <1>7, <2>3
    <3>2. Held(after, i) = Held(candidates, i) /\ candidate_groups'[i] = candidate_groups[i]
      BY <1>3, <1>7, <1>8, <2>3
    <3> QED
      BY <2>1, <3>1, <3>2 DEF Held
  <2> QED
    BY <2>2, <2>3
<1>12. Merging'
  BY <1>1, <1>11 DEF Merging
<1>13. ~(provider <= providers)
  BY <1>1, <1>2
<1> QED
  BY <1>1, <1>4, <1>10, <1>12, <1>13 DEF GatingInv, GatingHolds

(* Once there is a group for every observation, the domain is complete.    *)
LEMMA GatedGates ==
    ASSUME GatingInv, Gated
    PROVE  GatingInv'
<1>1. /\ phase = "gating" /\ provider > providers /\ Complete(candidates, batch)
      /\ phase' = "factors" /\ UNCHANGED <<buffers, gating>>
  BY DEF Gated
<1>2. batch \in Nat /\ IsBuffer(candidates) /\ providers \in Nat /\ provider \in Nat
  BY <1>1, BatchFits DEF GatingInv, GatingTypeOK
<1>3. Groups(candidates) = 1..batch
  BY <1>1, <1>2 DEF Groups, Complete
<1>4. OnlyProvider
  BY <1>1, <1>3 DEF GatingInv, GatingHolds, Merging, OnlyProvider, Held
<1>5. GatingTypeOK'
  BY <1>1 DEF GatingInv, GatingTypeOK, buffers, gating
<1>6. OnlyProvider' /\ Complete(candidates, batch)'
  BY <1>1, <1>4 DEF OnlyProvider, Held, Complete, buffers, gating
<1> QED
  BY <1>1, <1>5, <1>6 DEF GatingInv, GatingHolds

(* A call that fails leaves nothing but groups of the right type.          *)
LEMMA FailGates ==
    ASSUME GatingInv, Fail \/ AggregateOverflows
    PROVE  GatingInv'
<1>1. phase' = "idle" /\ provider_candidates' = provider_candidates
  BY DEF Fail, AggregateOverflows, buffers
<1>2. candidate_groups \in [1..Bound -> Seq(Nat)] /\ IsBuffer(provider_candidates)
  BY DEF GatingInv, GatingTypeOK
<1>3. candidate_groups' \in [1..Bound -> Seq(Nat)]
  <2>1. <<>> \in Seq(Nat)
    BY EmptySeq
  <2> QED
    BY <1>2, <2>1 DEF Fail, AggregateOverflows, buffers
<1> QED
  BY <1>1, <1>2, <1>3 DEF GatingInv, GatingTypeOK, GatingHolds

(* After gating, the domain stays as it is.                                *)
LEMMA GatedStays ==
    ASSUME GatingInv, phase \notin {"idle", "gating"}, phase' # "gating",
           UNCHANGED <<candidates, provider_candidates, candidate_groups, gating>>
    PROVE  GatingInv'
<1>1. GatingTypeOK'
  BY DEF GatingInv, GatingTypeOK, gating
<1>2. OnlyProvider /\ Complete(candidates, batch)
  BY DEF GatingInv, GatingHolds
<1>3. OnlyProvider' /\ Complete(candidates, batch)'
  BY <1>2 DEF OnlyProvider, Held, Complete, gating
<1> QED
  BY <1>1, <1>3 DEF GatingInv, GatingHolds

LaterStep ==
    \/ \E table \in Emittable(batch) : EmitFactor(table)
    \/ Compile \/ Unite \/ SetLimit \/ Iterate \/ Collect
    \/ \E loss \in LossModel : phase = "deciding" /\
           \E masses \in Distributions(cursor) : Decide(masses, loss)

(* The steps after gating leave it alone.                                  *)
LEMMA LaterGates ==
    ASSUME LaterStep
    PROVE  /\ phase \notin {"idle", "gating"} /\ phase' # "gating"
           /\ UNCHANGED <<candidates, provider_candidates, candidate_groups, gating>>
<1>1. CASE \E table \in Emittable(batch) : EmitFactor(table)
  BY <1>1 DEF EmitFactor
<1>2. CASE Compile \/ Unite \/ SetLimit \/ Iterate \/ Collect
  BY <1>2 DEF Compile, Unite, SetLimit, Iterate, Passing, Collect, buffers
<1>3. CASE \E loss \in LossModel : phase = "deciding" /\
               \E masses \in Distributions(cursor) : Decide(masses, loss)
  BY <1>3 DEF Decide, buffers
<1> QED
  BY <1>1, <1>2, <1>3 DEF LaterStep

(* A step gates, fails, or comes after the gating.                         *)
LEMMA CollectiveSteps ==
    ASSUME CollectiveNext
    PROVE  \/ \E n \in BatchLength, k \in Providers : Begin(n, k)
           \/ \E group \in Proposable(batch) : GenerateCandidates(group)
           \/ ProviderReturns \/ Aggregate \/ Gated
           \/ Fail \/ AggregateOverflows
           \/ LaterStep
BY DEF CollectiveNext, LaterStep, ProviderFails, EmitFails, CompileFails, SolverFails

(* Every step keeps what gating has come to.                               *)
LEMMA GatingSteps ==
    /\ CollectiveInit => GatingInv
    /\ GatingInv /\ [CollectiveNext]_collectivevars => GatingInv'
<1>1. ASSUME CollectiveInit PROVE GatingInv
  <2>1. <<>> \in Seq(Nat)
    BY EmptySeq
  <2>2. candidate_groups \in [1..Bound -> Seq(Nat)]
    BY <1>1, <2>1 DEF CollectiveInit, Bound
  <2>3. phase = "idle" /\ provider_candidates = EmptyBuffer
    BY <1>1 DEF CollectiveInit
  <2> QED
    BY <2>2, <2>3, EmptyIsBuffer DEF GatingInv, GatingTypeOK, GatingHolds
<1>2. ASSUME GatingInv, UNCHANGED collectivevars PROVE GatingInv'
  BY <1>2 DEF GatingInv, GatingTypeOK, GatingHolds, OnlyProvider, SeveralProviders, Merging,
     Held, Complete, collectivevars, buffers, gating
<1>3. ASSUME GatingInv, CollectiveNext PROVE GatingInv'
  <2>1. CASE LaterStep
    BY <1>3, <2>1, LaterGates, GatedStays
  <2> QED
    BY <1>3, <2>1, CollectiveSteps, BeginGates, GenerateGates, ReturnGates, AggregateGates,
       GatedGates, FailGates
<1> QED
  BY <1>1, <1>2, <1>3

(* The domain that the solver and the policy work on is what the providers *)
(* of this batch have proposed for the observation, in order and without   *)
(* duplicates, for any number of providers and whatever batches have       *)
(* failed before.                                                          *)
THEOREM DomainsAreGated == CollectiveSpec => []DomainsGated
<1>1. CollectiveInit => GatingInv
  BY GatingSteps
<1>2. GatingInv /\ [CollectiveNext]_collectivevars => GatingInv'
  BY GatingSteps
<1> QED
  BY <1>1, <1>2, GatingGives, PTL DEF CollectiveSpec

-----------------------------------------------------------------------------
(***************************************************************************)
(* The decision.                                                           *)
(***************************************************************************)

(* The best action so far, from one action to the next.                    *)
BestUpTo(risk, order, best, m) ==
    /\ best \in [1..m -> Int]
    /\ best[1] = order[1]
    /\ \A k \in 2..m :
           best[k] = IF risk[order[k]] < risk[best[k - 1]] THEN order[k] ELSE best[k - 1]

(* The loop of decide is well defined.                                     *)
LEMMA BestExists ==
    ASSUME NEW risk, NEW order \in Seq(Int), order # <<>>
    PROVE  \A m \in 1..Len(order) : \E best : BestUpTo(risk, order, best, m)
<1> DEFINE missing == {m \in Nat : m \in 1..Len(order) /\ ~\E best : BestUpTo(risk, order, best, m)}
<1>1. Len(order) \in Nat \ {0}
  OBVIOUS
<1>2. SUFFICES ASSUME missing # {} PROVE FALSE
  BY <1>1
<1>3. PICK m \in missing : \A n \in missing : m <= n
  BY <1>2, SmallestNumber
<1>4. m \in 1..Len(order) /\ m \in Nat /\ ~\E best : BestUpTo(risk, order, best, m)
  BY <1>3
<1>5. m # 1
  <2>1. order[1] \in Int
    BY <1>1
  <2>2. BestUpTo(risk, order, [k \in 1..1 |-> order[1]], 1)
    BY <2>1 DEF BestUpTo
  <2> QED
    BY <1>4, <2>2
<1>6. m - 1 \in 1..Len(order) /\ m - 1 \in Nat /\ m - 1 < m
  BY <1>1, <1>4, <1>5
<1>7. PICK before : BestUpTo(risk, order, before, m - 1)
  <2>1. m - 1 \notin missing
    <3> HIDE DEF missing
    <3> QED
      BY <1>3, <1>4, <1>6
  <2> QED
    BY <1>6, <2>1
<1> DEFINE last == IF risk[order[m]] < risk[before[m - 1]] THEN order[m] ELSE before[m - 1]
           best == [k \in 1..m |-> IF k = m THEN last ELSE before[k]]
<1>8. last \in Int
  <2>1. order[m] \in Int /\ before[m - 1] \in Int
    BY <1>4, <1>6, <1>7 DEF BestUpTo
  <2> QED
    BY <2>1
<1>9. /\ best \in [1..m -> Int] /\ best[m] = last
      /\ \A k \in 1..(m - 1) : best[k] = before[k]
  <2> HIDE DEF last
  <2> QED
    BY <1>4, <1>6, <1>7, <1>8 DEF BestUpTo
<1> HIDE DEF best
<1>10. best[1] = order[1]
  <2>1. 1 \in 1..(m - 1)
    BY <1>6
  <2> QED
    BY <1>7, <1>9, <2>1 DEF BestUpTo
<1>11. ASSUME NEW k \in 2..m
       PROVE  best[k] = IF risk[order[k]] < risk[best[k - 1]] THEN order[k] ELSE best[k - 1]
  <2>1. CASE k = m
    <3>1. m - 1 \in 1..(m - 1)
      BY <1>6
    <3>2. best[m - 1] = before[m - 1]
      BY <1>9, <3>1
    <3> QED
      BY <1>9, <2>1, <3>2
  <2>2. CASE k # m
    <3>1. k \in 2..(m - 1) /\ k \in 1..(m - 1) /\ k - 1 \in 1..(m - 1)
      BY <1>4, <1>6, <2>2
    <3>2. best[k] = before[k] /\ best[k - 1] = before[k - 1]
      BY <1>9, <3>1
    <3> QED
      BY <1>7, <3>1, <3>2 DEF BestUpTo
  <2> QED
    BY <2>1, <2>2
<1>12. BestUpTo(risk, order, best, m)
  BY <1>9, <1>10, <1>11 DEF BestUpTo
<1> QED
  BY <1>4, <1>12

(* After k actions the best is one of them, none of them has less risk,    *)
(* and those before it have more.                                          *)
LEMMA BestSoFar ==
    ASSUME NEW order \in Seq(Int), order # <<>>,
           NEW risk, \A k \in DOMAIN order : risk[order[k]] \in Int,
           NEW best, BestUpTo(risk, order, best, Len(order))
    PROVE  \A m \in 1..Len(order) : \E k \in 1..m :
               /\ best[m] = order[k]
               /\ \A j \in 1..m : risk[order[k]] <= risk[order[j]]
               /\ \A j \in 1..(k - 1) : risk[order[k]] < risk[order[j]]
<1> DEFINE First(m, k) ==
               /\ best[m] = order[k]
               /\ \A j \in 1..m : risk[order[k]] <= risk[order[j]]
               /\ \A j \in 1..(k - 1) : risk[order[k]] < risk[order[j]]
           missing == {m \in Nat : m \in 1..Len(order) /\ ~\E k \in 1..m : First(m, k)}
<1>1. Len(order) \in Nat \ {0} /\ DOMAIN order = 1..Len(order)
  OBVIOUS
<1>2. SUFFICES ASSUME missing # {} PROVE FALSE
  BY <1>1
<1>3. PICK m \in missing : \A n \in missing : m <= n
  BY <1>2, SmallestNumber
<1>4. m \in 1..Len(order) /\ m \in Nat /\ ~\E k \in 1..m : First(m, k)
  BY <1>3
<1>5. \A j \in 1..Len(order) : risk[order[j]] \in Int
  BY <1>1
<1>6. m # 1
  <2>1. First(1, 1)
    BY <1>1, <1>5 DEF BestUpTo
  <2> HIDE DEF First
  <2> QED
    BY <1>4, <2>1
<1>7. m - 1 \in 1..Len(order) /\ m - 1 \in Nat /\ m - 1 < m /\ m \in 2..Len(order)
  BY <1>1, <1>4, <1>6
<1>8. PICK k \in 1..(m - 1) : First(m - 1, k)
  <2>1. m - 1 \notin missing
    <3> HIDE DEF missing
    <3> QED
      BY <1>3, <1>4, <1>7
  <2> HIDE DEF First
  <2> QED
    BY <1>7, <2>1
<1>9. best[m] = IF risk[order[m]] < risk[order[k]] THEN order[m] ELSE order[k]
  BY <1>7, <1>8 DEF BestUpTo
<1>10. risk[order[m]] \in Int /\ \A j \in 1..(m - 1) : risk[order[j]] \in Int
  BY <1>4, <1>5
<1>11. \A j \in 1..m : j = m \/ j \in 1..(m - 1)
  BY <1>4
<1>12. CASE risk[order[m]] < risk[order[k]]
  <2>1. First(m, m)
    <3>1. k \in 1..(m - 1) /\ \A j \in 1..(m - 1) : risk[order[k]] <= risk[order[j]]
      BY <1>8
    <3>2. risk[order[k]] \in Int
      BY <1>10, <3>1
    <3>3. \A j \in 1..(m - 1) : risk[order[m]] < risk[order[j]]
      BY <1>10, <1>12, <3>1, <3>2
    <3>4. \A j \in 1..m : risk[order[m]] <= risk[order[j]]
      BY <1>10, <1>11, <3>3
    <3>5. best[m] = order[m]
      BY <1>9, <1>12
    <3> QED
      BY <3>3, <3>4, <3>5
  <2>2. m \in 1..m
    BY <1>4
  <2> HIDE DEF First
  <2> QED
    BY <1>4, <2>1, <2>2
<1>13. CASE ~(risk[order[m]] < risk[order[k]])
  <2>1. First(m, k)
    BY <1>8, <1>9, <1>10, <1>11, <1>13
  <2>2. k \in 1..m
    BY <1>4
  <2> HIDE DEF First
  <2> QED
    BY <1>4, <2>1, <2>2
<1> QED
  BY <1>12, <1>13

(* decide takes the first of the actions with the least risk.              *)
LEMMA BestIsFirstLeast ==
    ASSUME NEW order \in Seq(Int), order # <<>>,
           NEW risk, \A k \in DOMAIN order : risk[order[k]] \in Int
    PROVE  \E k \in DOMAIN order :
               /\ Best(risk, order) = order[k]
               /\ \A j \in DOMAIN order : risk[order[k]] <= risk[order[j]]
               /\ \A j \in 1..(k - 1) : risk[order[k]] < risk[order[j]]
<1> DEFINE Step(f) ==
               [k \in DOMAIN order |->
                   IF k = 1 THEN order[1]
                   ELSE IF risk[order[k]] < risk[f[k - 1]] THEN order[k] ELSE f[k - 1]]
           best == CHOOSE f : f = Step(f)
           n == Len(order)
<1>1. n \in Nat \ {0} /\ DOMAIN order = 1..n
  OBVIOUS
<1>2. Best(risk, order) = best[n]
  BY DEF Best
<1>3. PICK f : BestUpTo(risk, order, f, n)
  <2>1. n \in 1..n
    BY <1>1
  <2> QED
    BY <2>1, BestExists
<1> HIDE DEF n
<1>4. f = Step(f)
  <2>1. DOMAIN f = 1..n /\ f = [k \in 1..n |-> f[k]]
    BY <1>3 DEF BestUpTo
  <2>2. ASSUME NEW k \in 1..n PROVE f[k] = Step(f)[k]
    <3>1. k = 1 \/ k \in 2..n
      BY <1>1
    <3> QED
      BY <1>1, <1>3, <3>1 DEF BestUpTo
  <2>3. Step(f) = [k \in 1..n |-> Step(f)[k]]
    BY <1>1
  <2> HIDE DEF Step
  <2> QED
    BY <2>1, <2>2, <2>3
<1>5. best = Step(best)
  <2> HIDE DEF Step
  <2> QED
    BY <1>4
<1> HIDE DEF best
<1>6. best[1] = order[1] /\ best = [k \in 1..n |-> best[k]]
  BY <1>1, <1>5
<1>7. ASSUME NEW k \in 2..n
      PROVE  best[k] = IF risk[order[k]] < risk[best[k - 1]] THEN order[k] ELSE best[k - 1]
  <2>1. k \in DOMAIN order /\ k # 1
    BY <1>1
  <2> QED
    BY <1>5, <2>1
<1>8. \A k \in 1..n : best[k] \in Int
  <2> DEFINE odd == {k \in Nat : k \in 1..n /\ best[k] \notin Int}
  <2> SUFFICES ASSUME odd # {} PROVE FALSE
    BY <1>1
  <2>1. PICK k \in odd : \A j \in odd : k <= j
    BY SmallestNumber
  <2>2. order[1] \in Int /\ order[k] \in Int
    BY <1>1, <2>1
  <2>3. k # 1 /\ k \in 2..n /\ k - 1 \in 1..n /\ k - 1 \in Nat
    BY <1>1, <1>6, <2>1, <2>2
  <2>4. best[k - 1] \in Int
    <3>1. k - 1 \notin odd
      <4> HIDE DEF odd
      <4>1. k \in Nat
        BY <2>3
      <4> QED
        BY <2>1, <4>1
    <3> QED
      BY <2>3, <3>1
  <2>5. best[k] \in Int
    BY <1>7, <2>2, <2>3, <2>4
  <2> QED
    BY <2>1, <2>5
<1>9. BestUpTo(risk, order, best, n)
  <2>1. best \in [1..n -> Int]
    BY <1>6, <1>8
  <2> QED
    BY <1>6, <1>7, <2>1 DEF BestUpTo
<1>10. PICK k \in 1..n :
           /\ best[n] = order[k]
           /\ \A j \in 1..n : risk[order[k]] <= risk[order[j]]
           /\ \A j \in 1..(k - 1) : risk[order[k]] < risk[order[j]]
  <2>1. n \in 1..n
    BY <1>1
  <2> QED
    BY <1>9, <2>1, BestSoFar DEF n
<1> QED
  BY <1>1, <1>2, <1>10

(* decide looks at every action: a new identity, the candidates in order,  *)
(* noise and abstention.                                                   *)
LEMMA AllConsidered ==
    ASSUME NEW v, States(v) \in Nat, States(v) >= 2
    PROVE  /\ Considered(v) \in Seq(Int) /\ Considered(v) # <<>>
           /\ DOMAIN Considered(v) = Actions(v)
           /\ Considered(v)[1] = New(v)
           /\ \A k \in 2..(States(v) - 1) : Considered(v)[k] = k - 1
           /\ \A k \in States(v)..(States(v) + 1) : Considered(v)[k] = k
<1> DEFINE n == States(v)
           middle == [k \in 1..(n - 2) |-> k]
           front == <<New(v)>> \o middle
           back == <<Noise(v), Abstain(v)>>
<1>1. n \in Nat /\ n >= 2 /\ New(v) = n - 1 /\ Noise(v) = n /\ Abstain(v) = n + 1
  BY DEF New, Noise, Abstain
<1>2. Considered(v) = front \o back /\ Actions(v) = 1..(n + 1)
  BY <1>1 DEF Considered, Actions
<1> HIDE DEF n
<1>3. middle \in Seq(Int) /\ Len(middle) = n - 2 /\ \A k \in 1..(n - 2) : middle[k] = k
  <2>1. n - 2 \in Nat
    BY <1>1
  <2> QED
    BY <2>1
<1>4. <<New(v)>> \in Seq(Int) /\ Len(<<New(v)>>) = 1 /\ <<New(v)>>[1] = n - 1
  BY <1>1
<1>5. back \in Seq(Int) /\ Len(back) = 2 /\ back[1] = n /\ back[2] = n + 1
  BY <1>1
<1> HIDE DEF middle, back
<1>6. /\ front \in Seq(Int) /\ Len(front) = n - 1 /\ front[1] = n - 1
      /\ \A k \in 2..(n - 1) : front[k] = k - 1
  <2>1. /\ front \in Seq(Int) /\ Len(front) = 1 + (n - 2)
        /\ \A k \in 1..(1 + (n - 2)) :
               front[k] = IF k <= 1 THEN <<New(v)>>[k] ELSE middle[k - 1]
    BY <1>1, <1>3, <1>4, ConcatProperties
  <2>2. front[1] = n - 1
    BY <1>1, <1>4, <2>1
  <2>3. ASSUME NEW k \in 2..(n - 1) PROVE front[k] = k - 1
    <3>1. k \in 1..(1 + (n - 2)) /\ ~(k <= 1) /\ k - 1 \in 1..(n - 2)
      BY <1>1
    <3> QED
      BY <1>3, <2>1, <3>1
  <2> HIDE DEF front
  <2> QED
    BY <1>1, <2>1, <2>2, <2>3
<1> HIDE DEF front
<1> DEFINE all == front \o back
<1>7. /\ all \in Seq(Int) /\ Len(all) = n + 1
      /\ \A k \in 1..(n + 1) : all[k] = IF k <= n - 1 THEN front[k] ELSE back[k - (n - 1)]
  <2>1. /\ all \in Seq(Int) /\ Len(all) = Len(front) + Len(back)
        /\ \A k \in 1..(Len(front) + Len(back)) :
               all[k] = IF k <= Len(front) THEN front[k] ELSE back[k - Len(front)]
    BY <1>5, <1>6, ConcatProperties
  <2>2. Len(front) = n - 1 /\ Len(front) + Len(back) = n + 1
    BY <1>1, <1>5, <1>6
  <2> HIDE DEF all
  <2> QED
    BY <2>1, <2>2
<1> HIDE DEF all
<1>8. all[1] = n - 1 /\ all[n] = n /\ all[n + 1] = n + 1
  <2>1. all[1] = front[1]
    BY <1>1, <1>7
  <2>2. all[n] = back[1]
    <3>1. n \in 1..(n + 1) /\ ~(n <= n - 1) /\ n - (n - 1) = 1
      BY <1>1
    <3> QED
      BY <1>7, <3>1
  <2>3. all[n + 1] = back[2]
    <3>1. n + 1 \in 1..(n + 1) /\ ~(n + 1 <= n - 1) /\ n + 1 - (n - 1) = 2
      BY <1>1
    <3> DEFINE k == n + 1
    <3>2. k \in 1..(n + 1) /\ ~(k <= n - 1) /\ k - (n - 1) = 2
      BY <1>1, <3>1
    <3> HIDE DEF k
    <3>3. all[k] = back[2]
      BY <1>7, <3>2
    <3> QED
      BY <3>3 DEF k
  <2> QED
    BY <1>5, <1>6, <2>1, <2>2, <2>3
<1>9. \A k \in 2..(n - 1) : all[k] = k - 1
  <2>1. ASSUME NEW k \in 2..(n - 1) PROVE all[k] = k - 1
    <3>1. k \in 1..(n + 1) /\ k <= n - 1
      BY <1>1
    <3> QED
      BY <1>6, <1>7, <3>1
  <2> QED
    BY <2>1
<1>10. all \in Seq(Int) /\ all # <<>> /\ DOMAIN all = 1..(n + 1)
  BY <1>1, <1>7
<1>11. \A k \in n..(n + 1) : all[k] = k
  <2>1. \A k \in n..(n + 1) : k = n \/ k = n + 1
    BY <1>1
  <2> QED
    BY <1>8, <2>1
<1> QED
  BY <1>1, <1>2, <1>8, <1>9, <1>10, <1>11 DEF all, n

(* The domain of an observation is read from a complete buffer.            *)
LEMMA StatesOf ==
    ASSUME NEW v \in 1..batch, GatingTypeOK, phase # "idle", Complete(candidates, batch)
    PROVE  States(v) \in Nat /\ States(v) >= 2
<1>1. IsBuffer(candidates) /\ batch \in Nat
  BY BatchFits DEF GatingTypeOK
<1>2. v \in Groups(candidates)
  BY <1>1 DEF Groups, Complete
<1>3. Len(Group(candidates, v)) \in Nat
  BY <1>1, <1>2, GroupsOf
<1> QED
  BY <1>3 DEF States

(* A risk is a number.                                                     *)
LEMMA RisksAreNumbers ==
    ASSUME NEW v, States(v) \in Nat, States(v) >= 2,
           NEW loss \in LossModel, NEW masses \in [1..States(v) -> 0..Mass]
    PROVE  \A action \in Actions(v) : Risk(loss, v, masses, action) \in Int
<1>1. /\ Mass \in Nat
      /\ loss \in [assignment: Nat, new: Nat, rejection: Nat, abstention: Nat]
  BY CollectiveAssumption
<1>2. ASSUME NEW action \in Actions(v) PROVE Risk(loss, v, masses, action) \in Int
  <2>1. CASE action = Abstain(v)
    <3>1. loss.abstention * Mass \in Int
      BY <1>1
    <3> QED
      BY <2>1, <3>1 DEF Risk
  <2>2. CASE action # Abstain(v)
    <3>1. action \in 1..States(v)
      BY <2>2 DEF Actions, Abstain
    <3>2. Mass - masses[action] \in Int
      BY <1>1, <3>1
    <3>3. LossOf(loss, v, action) \in Int
      BY <1>1 DEF LossOf
    <3>4. LossOf(loss, v, action) * (Mass - masses[action]) \in Int
      BY <3>2, <3>3
    <3> QED
      BY <2>2, <3>4 DEF Risk
  <2> QED
    BY <2>1, <2>2
<1> QED
  BY <1>2

(* The action that is decided on has the least risk, and less than those   *)
(* that precede it.                                                        *)
LEMMA BestHasLeastRisk ==
    ASSUME NEW v, States(v) \in Nat, States(v) >= 2,
           NEW loss \in LossModel, NEW masses \in [1..States(v) -> 0..Mass],
           NEW best,
           best = Best([a \in Actions(v) |-> Risk(loss, v, masses, a)], Considered(v))
    PROVE  /\ \A action \in Actions(v) :
                  Risk(loss, v, masses, best) <= Risk(loss, v, masses, action)
           /\ \A action \in Actions(v) : Precedes(v, action, best) =>
                  Risk(loss, v, masses, best) < Risk(loss, v, masses, action)
<1> DEFINE n == States(v)
           order == Considered(v)
           risk == [a \in Actions(v) |-> Risk(loss, v, masses, a)]
<1>1. n \in Nat /\ n >= 2 /\ New(v) = n - 1 /\ Actions(v) = 1..(n + 1)
  BY DEF New, Actions, Abstain
<1>2. /\ order \in Seq(Int) /\ order # <<>> /\ DOMAIN order = 1..(n + 1) /\ order[1] = n - 1
      /\ \A k \in 2..(n - 1) : order[k] = k - 1
      /\ \A k \in n..(n + 1) : order[k] = k
  BY <1>1, AllConsidered
<1> HIDE DEF n, order
<1>3. \A k \in 1..(n + 1) : order[k] \in 1..(n + 1)
  <2>1. \A k \in 1..(n + 1) : k = 1 \/ k \in 2..(n - 1) \/ k \in n..(n + 1)
    BY <1>1
  <2>2. \A k \in 2..(n - 1) : order[k] \in 1..(n + 1)
    BY <1>1, <1>2
  <2>3. \A k \in n..(n + 1) : order[k] \in 1..(n + 1)
    BY <1>1, <1>2
  <2> QED
    BY <1>1, <1>2, <2>1, <2>2, <2>3
<1>4. \A a \in 1..(n + 1) : risk[a] = Risk(loss, v, masses, a) /\ risk[a] \in Int
  BY <1>1, RisksAreNumbers
<1> HIDE DEF risk
<1>5. \A k \in DOMAIN order : risk[order[k]] \in Int
  BY <1>2, <1>3, <1>4
<1>6. PICK k \in 1..(n + 1) :
          /\ Best(risk, order) = order[k]
          /\ \A j \in 1..(n + 1) : risk[order[k]] <= risk[order[j]]
          /\ \A j \in 1..(k - 1) : risk[order[k]] < risk[order[j]]
  BY <1>2, <1>5, BestIsFirstLeast
<1>7. best = order[k]
  BY <1>6 DEF risk, order
<1>8. ASSUME NEW action \in 1..(n + 1)
      PROVE  /\ \E j \in 1..(n + 1) : order[j] = action
             /\ Precedes(v, action, best) => \E j \in 1..(k - 1) : order[j] = action
  <2>1. CASE action = n - 1
    <3>1. order[1] = action /\ 1 \in 1..(n + 1)
      BY <1>1, <1>2, <2>1
    <3>2. best # n - 1 => 1 \in 1..(k - 1)
      BY <1>1, <1>2, <1>7
    <3> QED
      BY <1>1, <2>1, <3>1, <3>2 DEF Precedes
  <2>2. CASE action < n - 1
    <3>1. order[action + 1] = action /\ action + 1 \in 1..(n + 1)
      BY <1>1, <1>2, <2>2
    <3>2. action < best /\ best # n - 1 => action + 1 \in 1..(k - 1)
      <4>1. CASE k = 1
        BY <1>2, <1>7, <4>1
      <4>2. CASE k \in 2..(n - 1)
        BY <1>1, <1>2, <1>7, <4>2
      <4>3. CASE k \in n..(n + 1)
        BY <1>1, <2>2, <4>3
      <4> QED
        BY <1>1, <4>1, <4>2, <4>3
    <3> QED
      BY <1>1, <2>2, <3>1, <3>2 DEF Precedes
  <2>3. CASE action \in n..(n + 1)
    <3>1. order[action] = action
      BY <1>2, <2>3
    <3>2. action < best => action \in 1..(k - 1)
      <4>1. CASE k = 1
        BY <1>1, <1>2, <1>7, <2>3, <4>1
      <4>2. CASE k \in 2..(n - 1)
        BY <1>1, <1>2, <1>7, <2>3, <4>2
      <4>3. CASE k \in n..(n + 1)
        BY <1>1, <1>2, <1>7, <2>3, <4>3
      <4> QED
        BY <1>1, <4>1, <4>2, <4>3
    <3> QED
      BY <1>1, <2>3, <3>1, <3>2 DEF Precedes
  <2> QED
    BY <1>1, <2>1, <2>2, <2>3
<1>9. best \in 1..(n + 1)
  BY <1>3, <1>7
<1>10. /\ \A action \in 1..(n + 1) : risk[best] <= risk[action]
       /\ \A action \in 1..(n + 1) : Precedes(v, action, best) => risk[best] < risk[action]
  <2>1. ASSUME NEW action \in 1..(n + 1) PROVE risk[best] <= risk[action]
    BY <1>6, <1>7, <1>8
  <2>2. ASSUME NEW action \in 1..(n + 1), Precedes(v, action, best)
        PROVE  risk[best] < risk[action]
    BY <1>6, <1>7, <1>8, <2>2
  <2> QED
    BY <2>1, <2>2
<1> QED
  BY <1>1, <1>4, <1>9, <1>10

(* What is decided is the best by the loss model, until the next batch.    *)
DecisionHolds ==
    decision # NoDecision =>
        /\ phase \in {"deciding", "idle"}
        /\ States(decision.observation) \in Nat /\ States(decision.observation) >= 2
        /\ decision.loss \in LossModel
        /\ decision.masses \in [1..States(decision.observation) -> 0..Mass]
        /\ decision.action =
               Best([a \in Actions(decision.observation) |-> RiskOf(a)],
                    Considered(decision.observation))

CursorHolds == phase = "deciding" => cursor \in 1..batch

(* The decision is the one that decide has come to.                        *)
LEMMA DecideHolds ==
    ASSUME GatingInv, CursorHolds, NEW loss \in LossModel, phase = "deciding",
           NEW masses \in Distributions(cursor), Decide(masses, loss)
    PROVE  DecisionHolds' /\ CursorHolds'
<1>1. cursor \in 1..batch /\ GatingTypeOK /\ Complete(candidates, batch) /\ batch \in Nat
  BY BatchFits DEF CursorHolds, GatingInv, GatingTypeOK, GatingHolds
<1>2. States(cursor) \in Nat /\ States(cursor) >= 2
  BY <1>1, StatesOf
<1>3. masses \in [1..States(cursor) -> 0..Mass]
  BY DEF Distributions
<1>4. /\ decision' = [observation |-> cursor, masses |-> masses, loss |-> loss,
                      action |-> Best([a \in Actions(cursor) |-> Risk(loss, cursor, masses, a)],
                                      Considered(cursor))]
      /\ cursor' = cursor + 1 /\ phase' = IF cursor = batch THEN "idle" ELSE "deciding"
      /\ candidates' = candidates /\ batch' = batch
  BY DEF Decide, buffers, gating
<1>5. CursorHolds'
  BY <1>1, <1>4 DEF CursorHolds
<1>6. \A v : States(v)' = States(v) /\ Actions(v)' = Actions(v) /\ Considered(v)' = Considered(v)
  BY <1>4 DEF States, Actions, Considered, New, Noise, Abstain
<1> QED
  BY <1>2, <1>3, <1>4, <1>5 DEF DecisionHolds, RiskOf, Risk, LossOf, States, Actions, Considered,
     New, Noise, Abstain

(* Other steps keep the decision, or begin the next batch.                 *)
LEMMA DecisionKeeps ==
    ASSUME DecisionHolds, CursorHolds, GatingInv, [CollectiveNext]_collectivevars
    PROVE  DecisionHolds' /\ CursorHolds'
<1>1. CASE \E n \in BatchLength, k \in Providers : Begin(n, k)
  <2>1. decision' = NoDecision /\ phase' = "gating"
    BY <1>1 DEF Begin
  <2> QED
    BY <2>1 DEF DecisionHolds, CursorHolds
<1>2. CASE \E loss \in LossModel : phase = "deciding" /\
               \E masses \in Distributions(cursor) : Decide(masses, loss)
  BY <1>2, DecideHolds
<1>3. CASE UNCHANGED collectivevars
  BY <1>3 DEF DecisionHolds, CursorHolds, collectivevars, buffers, gating, schedule, RiskOf,
     Risk, LossOf, States, Actions, Considered, New, Noise, Abstain
<1>4. ASSUME decision' = decision, phase \notin {"idle", "deciding"}, phase' # "deciding"
      PROVE  DecisionHolds' /\ CursorHolds'
  <2>1. decision = NoDecision
    BY <1>4 DEF DecisionHolds
  <2> QED
    BY <1>4, <2>1 DEF DecisionHolds, CursorHolds
<1>5. CASE Collect
  <2>1. decision' = decision /\ phase = "passing" /\ cursor' = 1 /\ batch' = batch
    BY <1>5 DEF Collect, gating
  <2>2. batch \in Nat \ {0}
    BY <2>1, BatchFits DEF GatingInv, GatingTypeOK
  <2>3. decision = NoDecision
    BY <2>1 DEF DecisionHolds
  <2> QED
    BY <2>1, <2>2, <2>3 DEF DecisionHolds, CursorHolds
<1>6. CASE \/ \E group \in Proposable(batch) : GenerateCandidates(group)
           \/ ProviderReturns \/ ProviderFails
           \/ Aggregate \/ AggregateOverflows \/ Gated
           \/ \E table \in Emittable(batch) : EmitFactor(table)
           \/ EmitFails \/ Compile \/ CompileFails \/ Unite \/ SetLimit
           \/ Iterate \/ SolverFails
  <2>1. decision' = decision /\ phase \notin {"idle", "deciding"} /\ phase' # "deciding"
    BY <1>6 DEF GenerateCandidates, Generating, ProviderReturns, ProviderFails, Fail,
       Aggregate, AggregateOverflows, Aggregating, Gated, EmitFactor, EmitFails, Compile,
       CompileFails, Unite, SetLimit, Iterate, Passing, SolverFails
  <2> QED
    BY <1>4, <2>1
<1> QED
  BY <1>1, <1>2, <1>3, <1>5, <1>6 DEF CollectiveNext

(* Every decision has the least risk by its loss model and distribution,   *)
(* and of equally good ones it is the one decide looked at first: the new  *)
(* identity, then the first candidate, then noise rejection.               *)
THEOREM DecisionsAreLeast == CollectiveSpec => []LeastRisk
<1> DEFINE DecisionInv == GatingInv /\ DecisionHolds /\ CursorHolds
<1>1. ASSUME CollectiveInit PROVE DecisionInv
  <2>1. decision = NoDecision /\ phase = "idle"
    BY <1>1 DEF CollectiveInit
  <2> QED
    BY <1>1, <2>1, GatingSteps DEF DecisionHolds, CursorHolds
<1>2. ASSUME DecisionInv, [CollectiveNext]_collectivevars PROVE DecisionInv'
  BY <1>2, GatingSteps, DecisionKeeps
<1>3. ASSUME DecisionInv PROVE LeastRisk
  <2> SUFFICES ASSUME decision # NoDecision
               PROVE  LET v == decision.observation
                          best == decision.action
                      IN  /\ \A action \in Actions(v) : RiskOf(best) <= RiskOf(action)
                          /\ \A action \in Actions(v) :
                                Precedes(v, action, best) => RiskOf(best) < RiskOf(action)
    BY DEF LeastRisk
  <2> DEFINE v == decision.observation
  <2>1. /\ States(v) \in Nat /\ States(v) >= 2 /\ decision.loss \in LossModel
        /\ decision.masses \in [1..States(v) -> 0..Mass]
        /\ decision.action = Best([a \in Actions(v) |-> Risk(decision.loss, v, decision.masses, a)],
                                  Considered(v))
    BY <1>3 DEF DecisionHolds, RiskOf
  <2> QED
    BY <2>1, BestHasLeastRisk DEF RiskOf
<1> QED
  BY <1>1, <1>2, <1>3, PTL DEF CollectiveSpec

-----------------------------------------------------------------------------
(***************************************************************************)
(* Union-find: trees of parents.                                           *)
(***************************************************************************)

(* root is the end of the chain of parents from every node of N, on which  *)
(* rank falls: there is no way around in a circle.                         *)
IsForest(N, par, root, rank) ==
    /\ par \in [N -> N] /\ root \in [N -> N] /\ rank \in [N -> Nat]
    /\ \A x \in N : par[root[x]] = root[x]
    /\ \A x \in N : par[x] = x => root[x] = x
    /\ \A x \in N : par[x] # x => root[par[x]] = root[x] /\ rank[par[x]] < rank[x]
    /\ \A x \in N : root[x] # x => rank[root[x]] < rank[x]

EndsIn(N, par) == LET end[y \in N] == IF par[y] = y THEN y ELSE end[par[y]] IN end

(* The chain of parents from x ends in root[x], and in no other node.      *)
LEMMA EndsAreRoots ==
    ASSUME NEW N, NEW par, NEW root, NEW rank, IsForest(N, par, root, rank)
    PROVE  EndsIn(N, par) = root
<1> DEFINE Step(f) == [y \in N |-> IF par[y] = y THEN y ELSE f[par[y]]]
           end == CHOOSE f : f = Step(f)
<1>1. EndsIn(N, par) = end
  BY DEF EndsIn
<1>2. root = Step(root)
  <2>1. root = [y \in N |-> root[y]]
    BY DEF IsForest
  <2>2. \A y \in N : root[y] = IF par[y] = y THEN y ELSE root[par[y]]
    BY DEF IsForest
  <2> QED
    BY <2>1, <2>2
<1>3. end = Step(end)
  <2> HIDE DEF Step
  <2> QED
    BY <1>2
<1> HIDE DEF end
<1>4. /\ end = [y \in N |-> end[y]]
      /\ \A y \in N : end[y] = IF par[y] = y THEN y ELSE end[par[y]]
  BY <1>3
<1>5. \A y \in N : end[y] = root[y]
  <2> DEFINE odd == {rank[y] : y \in {z \in N : end[z] # root[z]}}
  <2> SUFFICES ASSUME odd # {} PROVE FALSE
    OBVIOUS
  <2>1. odd \in SUBSET Nat
    BY DEF IsForest
  <2>2. PICK m \in odd : \A n \in odd : m <= n
    <3> HIDE DEF odd
    <3> QED
      BY <2>1, SmallestNumber
  <2>3. PICK y \in N : end[y] # root[y] /\ \A n \in odd : rank[y] <= n
    BY <2>2
  <2>4. par[y] # y
    BY <1>4, <2>3 DEF IsForest
  <2>5. /\ par[y] \in N /\ root[par[y]] = root[y] /\ rank[par[y]] < rank[y]
        /\ rank[par[y]] \in Nat /\ rank[y] \in Nat
    BY <2>4 DEF IsForest
  <2>6. end[par[y]] # root[par[y]]
    BY <1>4, <2>3, <2>4, <2>5
  <2>7. rank[par[y]] \in odd
    BY <2>5, <2>6
  <2>8. rank[y] <= rank[par[y]]
    BY <2>3, <2>7
  <2> QED
    BY <2>5, <2>8
<1>6. root = [y \in N |-> root[y]]
  BY DEF IsForest
<1> QED
  BY <1>1, <1>4, <1>5, <1>6

(* Hanging nodes below their roots keeps the roots.                        *)
LEMMA CompressedForest ==
    ASSUME NEW N, NEW par, NEW root, NEW rank, IsForest(N, par, root, rank), NEW M
    PROVE  IsForest(N, [y \in N |-> IF y \in M THEN root[y] ELSE par[y]], root, rank)
<1> DEFINE hung == [y \in N |-> IF y \in M THEN root[y] ELSE par[y]]
<1>1. hung \in [N -> N]
  BY DEF IsForest
<1>2. \A x \in N : root[x] \in N /\ par[root[x]] = root[x] /\ root[root[x]] = root[x]
  BY DEF IsForest
<1>3. \A x \in N : hung[x] = IF x \in M THEN root[x] ELSE par[x]
  OBVIOUS
<1> HIDE DEF hung
<1>4. \A x \in N : hung[root[x]] = root[x]
  BY <1>2, <1>3
<1>5. \A x \in N : hung[x] = x => root[x] = x
  BY <1>3 DEF IsForest
<1>6. \A x \in N : hung[x] # x => root[hung[x]] = root[x] /\ rank[hung[x]] < rank[x]
  BY <1>2, <1>3 DEF IsForest
<1>7. IsForest(N, hung, root, rank)
  BY <1>1, <1>4, <1>5, <1>6 DEF IsForest
<1> QED
  BY <1>7 DEF hung

Linked(N, root, low, high) == [x \in N |-> IF root[x] = low THEN high ELSE root[x]]

(* Hanging one root below another gives its tree the other's root.         *)
LEMMA LinkedForest ==
    ASSUME NEW N, NEW par, NEW root, NEW rank, IsForest(N, par, root, rank),
           NEW low \in N, NEW high \in N, root[low] = low, root[high] = high, low # high
    PROVE  \E rank2 : IsForest(N, [par EXCEPT ![low] = high], Linked(N, root, low, high), rank2)
<1> DEFINE par2 == [par EXCEPT ![low] = high]
           root2 == Linked(N, root, low, high)
           rank2 == [x \in N |-> IF root[x] = low THEN rank[x] + rank[high] + 1 ELSE rank[x]]
<1>1. /\ par \in [N -> N] /\ root \in [N -> N] /\ rank \in [N -> Nat]
      /\ par[low] = low /\ par[high] = high
  BY DEF IsForest
<1>2. par2 \in [N -> N] /\ root2 \in [N -> N] /\ rank2 \in [N -> Nat]
  BY <1>1 DEF Linked
<1>3. /\ \A x \in N : par2[x] = IF x = low THEN high ELSE par[x]
      /\ \A x \in N : root2[x] = IF root[x] = low THEN high ELSE root[x]
      /\ \A x \in N : rank2[x] = IF root[x] = low THEN rank[x] + rank[high] + 1 ELSE rank[x]
  BY <1>1 DEF Linked
<1> HIDE DEF par2, root2, rank2
<1>4. ASSUME NEW x \in N PROVE par2[root2[x]] = root2[x]
  BY <1>1, <1>3 DEF IsForest
<1>5. ASSUME NEW x \in N, par2[x] = x PROVE root2[x] = x
  <2>1. x # low /\ par[x] = x
    BY <1>3, <1>5
  <2> QED
    BY <1>3, <2>1 DEF IsForest
<1>6. ASSUME NEW x \in N, par2[x] # x
      PROVE  root2[par2[x]] = root2[x] /\ rank2[par2[x]] < rank2[x]
  <2>1. CASE x = low
    <3>1. par2[x] = high /\ root2[high] = high /\ root2[x] = high
      BY <1>3, <2>1
    <3>2. rank2[high] = rank[high] /\ rank2[x] = rank[low] + rank[high] + 1
      BY <1>3, <2>1
    <3>3. rank[high] \in Nat /\ rank[low] \in Nat
      BY <1>1
    <3> QED
      BY <3>1, <3>2, <3>3
  <2>2. CASE x # low
    <3>1. par2[x] = par[x] /\ par[x] # x /\ par[x] \in N
      BY <1>1, <1>3, <1>6, <2>2
    <3>2. root[par[x]] = root[x] /\ rank[par[x]] < rank[x]
      BY <3>1 DEF IsForest
    <3>3. rank[par[x]] \in Nat /\ rank[x] \in Nat /\ rank[high] \in Nat
      BY <1>1, <3>1
    <3>4. root2[par[x]] = root2[x]
      BY <1>3, <3>1, <3>2
    <3>5. rank2[par[x]] < rank2[x]
      BY <1>3, <3>1, <3>2, <3>3
    <3> QED
      BY <3>1, <3>4, <3>5
  <2> QED
    BY <2>1, <2>2
<1>7. ASSUME NEW x \in N, root2[x] # x PROVE rank2[root2[x]] < rank2[x]
  <2>1. rank[x] \in Nat /\ rank[high] \in Nat /\ root[x] \in N /\ rank[root[x]] \in Nat
    BY <1>1
  <2>2. CASE root[x] = low
    BY <1>3, <2>1, <2>2
  <2>3. CASE root[x] # low
    <3>1. root2[x] = root[x] /\ root[root[x]] = root[x] /\ rank[root[x]] < rank[x]
      BY <1>3, <1>7, <2>3 DEF IsForest
    <3> QED
      BY <1>3, <2>1, <2>3, <3>1
  <2> QED
    BY <2>2, <2>3
<1>8. IsForest(N, par2, root2, rank2)
  BY <1>2, <1>4, <1>5, <1>6, <1>7 DEF IsForest
<1> QED
  BY <1>8 DEF par2, root2

-----------------------------------------------------------------------------
(***************************************************************************)
(* The components of a graph, told by the roots.                           *)
(***************************************************************************)
NoneLeaves(S, K) == \A pair \in K : pair[1] \in S <=> pair[2] \in S
ComponentsOf(N, K) ==
    LET closed == {S \in SUBSET N : S # {} /\ NoneLeaves(S, K)}
    IN  {S \in closed : \A T \in closed : T \subseteq S => T = S}

Below(N, root, x) == {y \in N : root[y] = root[x]}

(* The pairs of K join no more and no less than the roots tell.            *)
Joins(N, K, root) ==
    /\ \A pair \in K : pair[1] \in N /\ pair[2] \in N /\ root[pair[1]] = root[pair[2]]
    /\ \A S \in SUBSET N : NoneLeaves(S, K) => \A x \in N : x \in S <=> root[x] \in S

(* Then the components are the nodes that share a root.                    *)
LEMMA RootsTellComponents ==
    ASSUME NEW N, NEW K, NEW root \in [N -> N], Joins(N, K, root)
    PROVE  {Below(N, root, x) : x \in N} = ComponentsOf(N, K)
<1> DEFINE closed == {S \in SUBSET N : S # {} /\ NoneLeaves(S, K)}
<1>1. ASSUME NEW x \in N PROVE Below(N, root, x) \in closed
  BY DEF Below, Joins, NoneLeaves
<1>2. ASSUME NEW S \in closed, NEW x \in S PROVE Below(N, root, x) \subseteq S
  BY DEF Below, Joins
<1>3. ASSUME NEW x \in N, NEW T \in closed, T \subseteq Below(N, root, x)
      PROVE  T = Below(N, root, x)
  <2>1. PICK y \in T : y \in N
    OBVIOUS
  <2>2. Below(N, root, y) \subseteq T
    BY <1>2
  <2>3. root[y] = root[x]
    BY <1>3, <2>1 DEF Below
  <2>4. Below(N, root, y) = Below(N, root, x)
    BY <2>3 DEF Below
  <2> QED
    BY <1>3, <2>2, <2>4
<1>4. ASSUME NEW S \in closed, \A T \in closed : T \subseteq S => T = S
      PROVE  \E x \in N : S = Below(N, root, x)
  <2>1. PICK x \in S : x \in N
    OBVIOUS
  <2>2. Below(N, root, x) \in closed /\ Below(N, root, x) \subseteq S
    BY <1>1, <1>2, <2>1
  <2> QED
    BY <1>4, <2>1, <2>2
<1>5. ComponentsOf(N, K) = {S \in closed : \A T \in closed : T \subseteq S => T = S}
  BY DEF ComponentsOf
<1> HIDE DEF closed
<1> QED
  BY <1>1, <1>3, <1>4, <1>5

(* An edge within a component joins nothing.                               *)
LEMMA JoinsSame ==
    ASSUME NEW N, NEW K, NEW root \in [N -> N], Joins(N, K, root),
           NEW a \in N, NEW b \in N, root[a] = root[b]
    PROVE  Joins(N, K \cup {<<a, b>>}, root)
<1>1. \A pair \in K \cup {<<a, b>>} :
          pair[1] \in N /\ pair[2] \in N /\ root[pair[1]] = root[pair[2]]
  BY DEF Joins
<1>2. ASSUME NEW S \in SUBSET N, NoneLeaves(S, K \cup {<<a, b>>})
      PROVE  \A x \in N : x \in S <=> root[x] \in S
  <2>1. NoneLeaves(S, K)
    BY <1>2 DEF NoneLeaves
  <2> QED
    BY <2>1 DEF Joins
<1> QED
  BY <1>1, <1>2 DEF Joins

(* An edge between two components joins them.                              *)
LEMMA JoinsOther ==
    ASSUME NEW N, NEW K, NEW root \in [N -> N], Joins(N, K, root),
           NEW a \in N, NEW b \in N, NEW low \in N, NEW high \in N,
           {low, high} = {root[a], root[b]}
    PROVE  Joins(N, K \cup {<<a, b>>}, Linked(N, root, low, high))
<1> DEFINE root2 == Linked(N, root, low, high)  K2 == K \cup {<<a, b>>}
<1>1. \A x \in N : root2[x] = IF root[x] = low THEN high ELSE root[x]
  BY DEF Linked
<1> HIDE DEF root2
<1>2. root2[a] = high /\ root2[b] = high
  BY <1>1
<1>3. \A pair \in K2 : pair[1] \in N /\ pair[2] \in N /\ root2[pair[1]] = root2[pair[2]]
  BY <1>1, <1>2 DEF Joins
<1>4. ASSUME NEW S \in SUBSET N, NoneLeaves(S, K2), NEW x \in N
      PROVE  x \in S <=> root2[x] \in S
  <2>1. NoneLeaves(S, K) /\ (a \in S <=> b \in S)
    <3>1. <<a, b>> \in K2
      OBVIOUS
    <3> QED
      BY <1>4, <3>1 DEF NoneLeaves
  <2>2. \A y \in N : y \in S <=> root[y] \in S
    BY <2>1 DEF Joins
  <2>3. low \in S <=> high \in S
    BY <2>1, <2>2
  <2> QED
    BY <1>1, <2>2, <2>3
<1> QED
  BY <1>3, <1>4 DEF Joins, root2

-----------------------------------------------------------------------------
(* The size of a tree, at its root.                                        *)
Sized(N, root, sizes) ==
    /\ sizes \in [N -> Nat]
    /\ \A x \in N : root[x] = x => sizes[x] = Cardinality(Below(N, root, x))

(* Joining two trees adds their sizes.                                     *)
LEMMA SizedOther ==
    ASSUME NEW N, IsFiniteSet(N), NEW root \in [N -> N], NEW sizes, Sized(N, root, sizes),
           NEW low \in N, NEW high \in N, root[low] = low, root[high] = high, low # high
    PROVE  Sized(N, Linked(N, root, low, high), [sizes EXCEPT ![high] = @ + sizes[low]])
<1> DEFINE root2 == Linked(N, root, low, high)
           size2 == [sizes EXCEPT ![high] = @ + sizes[low]]
<1>1. /\ \A x \in N : root2[x] = IF root[x] = low THEN high ELSE root[x]
      /\ root2 \in [N -> N]
  BY DEF Linked
<1>2. /\ size2 \in [N -> Nat]
      /\ \A x \in N : size2[x] = IF x = high THEN sizes[high] + sizes[low] ELSE sizes[x]
  BY DEF Sized
<1> HIDE DEF root2, size2
<1>3. ASSUME NEW x \in N, root2[x] = x PROVE size2[x] = Cardinality(Below(N, root2, x))
  <2>1. root[x] # low
    BY <1>1, <1>3
  <2>2. root[x] = x
    BY <1>1, <1>3, <2>1
  <2>3. CASE x = high
    <3> DEFINE A == Below(N, root, low)  B == Below(N, root, high)
    <3>1. Below(N, root2, x) = A \cup B /\ A \cap B = {}
      BY <1>1, <2>3 DEF Below
    <3>2. A \in SUBSET N /\ B \in SUBSET N
      BY DEF Below
    <3>3. IsFiniteSet(A) /\ IsFiniteSet(B)
      BY <3>2, FS_Subset
    <3>4. sizes[low] = Cardinality(A) /\ sizes[high] = Cardinality(B)
      BY DEF Sized
    <3> HIDE DEF A, B
    <3>5. Cardinality(A \cup B) = Cardinality(A) + Cardinality(B) - Cardinality(A \cap B)
      BY <3>3, FS_Union
    <3>6. Cardinality(A \cap B) = 0
      BY <3>1, FS_EmptySet
    <3>7. Cardinality(A) \in Nat /\ Cardinality(B) \in Nat
      BY <3>3, FS_CardinalityType
    <3> QED
      BY <1>2, <2>3, <3>1, <3>4, <3>5, <3>6, <3>7
  <2>4. CASE x # high
    <3>1. Below(N, root2, x) = Below(N, root, x)
      BY <1>1, <2>1, <2>2, <2>4 DEF Below
    <3> QED
      BY <1>2, <2>2, <2>4, <3>1 DEF Sized
  <2> QED
    BY <2>3, <2>4
<1> QED
  BY <1>2, <1>3 DEF Sized, root2, size2

-----------------------------------------------------------------------------
(* As many edges as it takes to join the nodes that are not roots, and     *)
(* more only if there is a cycle.                                          *)
Tops(N, root) == {x \in N : root[x] = x}
Counted(N, K, root, forest) ==
    /\ IsFiniteSet(K)
    /\ Cardinality(N) <= Cardinality(K) + Cardinality(Tops(N, root))
    /\ forest <=> Cardinality(K) + Cardinality(Tops(N, root)) = Cardinality(N)

(* There are no more roots than nodes, which are finite.                   *)
LEMMA TopsFinite ==
    ASSUME NEW N, IsFiniteSet(N), NEW root
    PROVE  /\ IsFiniteSet(Tops(N, root)) /\ Cardinality(Tops(N, root)) \in Nat
           /\ Cardinality(N) \in Nat
<1>1. Tops(N, root) \in SUBSET N
  BY DEF Tops
<1> QED
  BY <1>1, FS_Subset, FS_CardinalityType

(* An edge within a component leaves more edges than a forest has ...      *)
LEMMA CountedSame ==
    ASSUME NEW N, IsFiniteSet(N), NEW K, NEW root, NEW forest \in BOOLEAN,
           Counted(N, K, root, forest), NEW pair, pair \notin K
    PROVE  Counted(N, K \cup {pair}, root, FALSE)
<1>1. IsFiniteSet(K \cup {pair}) /\ Cardinality(K \cup {pair}) = Cardinality(K) + 1
  BY FS_AddElement DEF Counted
<1>2. Cardinality(K) \in Nat
  BY FS_CardinalityType DEF Counted
<1> QED
  BY <1>1, <1>2, TopsFinite DEF Counted

(* ... and one that joins two components costs a root.                     *)
LEMMA CountedOther ==
    ASSUME NEW N, IsFiniteSet(N), NEW K, NEW root \in [N -> N], NEW forest \in BOOLEAN,
           Counted(N, K, root, forest), NEW pair, pair \notin K,
           NEW low \in N, NEW high \in N, root[low] = low, root[high] = high, low # high
    PROVE  Counted(N, K \cup {pair}, Linked(N, root, low, high), forest)
<1> DEFINE root2 == Linked(N, root, low, high)
<1>1. IsFiniteSet(K \cup {pair}) /\ Cardinality(K \cup {pair}) = Cardinality(K) + 1
  BY FS_AddElement DEF Counted
<1>2. Cardinality(K) \in Nat
  BY FS_CardinalityType DEF Counted
<1>3. \A x \in N : root2[x] = IF root[x] = low THEN high ELSE root[x]
  BY DEF Linked
<1>4. Tops(N, root2) = Tops(N, root) \ {low} /\ low \in Tops(N, root)
  BY <1>3 DEF Tops
<1>5. Cardinality(Tops(N, root2)) = Cardinality(Tops(N, root)) - 1
  BY <1>4, TopsFinite, FS_RemoveElement
<1> QED
  BY <1>1, <1>2, <1>5, TopsFinite DEF Counted

(* There are as many components as roots.                                  *)
LEMMA TopsAreComponents ==
    ASSUME NEW N, IsFiniteSet(N), NEW root \in [N -> N], \A x \in N : root[root[x]] = root[x]
    PROVE  Cardinality({Below(N, root, x) : x \in N}) = Cardinality(Tops(N, root))
<1> DEFINE parts == {Below(N, root, x) : x \in N}
           whole == [x \in Tops(N, root) |-> Below(N, root, x)]
<1>1. whole \in [Tops(N, root) -> parts]
  BY DEF Tops
<1>2. ASSUME NEW x \in Tops(N, root), NEW y \in Tops(N, root), whole[x] = whole[y] PROVE x = y
  <2>1. x \in Below(N, root, y)
    BY <1>2 DEF Below, Tops
  <2> QED
    BY <2>1 DEF Below, Tops
<1>3. ASSUME NEW part \in parts PROVE \E x \in Tops(N, root) : whole[x] = part
  <2>1. PICK x \in N : part = Below(N, root, x)
    OBVIOUS
  <2>2. root[x] \in Tops(N, root) /\ Below(N, root, root[x]) = part
    BY <2>1 DEF Below, Tops
  <2> QED
    BY <2>2
<1> HIDE DEF whole, parts
<1>4. whole \in Bijection(Tops(N, root), parts)
  BY <1>1, <1>2, <1>3 DEF Bijection, Injection, Surjection, IsInjective
<1>5. ExistsBijection(Tops(N, root), parts)
  BY <1>4 DEF ExistsBijection
<1> QED
  BY <1>5, TopsFinite, FS_Bijection DEF parts

-----------------------------------------------------------------------------
(***************************************************************************)
(* The edges that compile lists.                                           *)
(***************************************************************************)

(* No element occurs twice in the parts.                                   *)
Apart(parts) ==
    \A i, j \in DOMAIN parts : \A a \in DOMAIN parts[i], b \in DOMAIN parts[j] :
        parts[i][a] = parts[j][b] => i = j /\ a = b

(* flat is made of the parts up to m, in which no element occurs twice.    *)
FlatUpTo(parts, flat, m) ==
    /\ \A c, d \in DOMAIN flat : flat[c] = flat[d] => c = d
    /\ \A c \in DOMAIN flat : \E i \in 1..m : \E a \in DOMAIN parts[i] : flat[c] = parts[i][a]

FlattenedBy(S, parts, flat, m) ==
    /\ flat \in [1..m -> Seq(S)]
    /\ flat[1] = parts[1]
    /\ \A i \in 2..m : flat[i] = flat[i - 1] \o parts[i]

(* The next part is appended.                                              *)
LEMMA FlatNext ==
    ASSUME NEW S, NEW parts \in Seq(Seq(S)), Apart(parts), NEW m \in 1..Len(parts), m # 1,
           NEW flat \in Seq(S), FlatUpTo(parts, flat, m - 1)
    PROVE  FlatUpTo(parts, flat \o parts[m], m)
<1> DEFINE n == Len(flat)  part == parts[m]  all == flat \o part
<1>1. n \in Nat /\ part \in Seq(S) /\ Len(part) \in Nat /\ DOMAIN flat = 1..n
      /\ DOMAIN part = 1..Len(part) /\ m \in Nat /\ DOMAIN parts = 1..Len(parts)
  OBVIOUS
<1>2. /\ DOMAIN all = 1..(n + Len(part))
      /\ \A c \in 1..n : all[c] = flat[c]
      /\ \A c \in (n + 1)..(n + Len(part)) : c - n \in DOMAIN part /\ all[c] = part[c - n]
  <2>1. all \in Seq(S) /\ Len(all) = n + Len(part)
    BY <1>1
  <2> QED
    BY <1>1, <2>1
<1> HIDE DEF all, n
<1>3. ASSUME NEW c \in 1..n, NEW d \in DOMAIN part PROVE flat[c] # part[d]
  <2>1. PICK i \in 1..(m - 1) : \E a \in DOMAIN parts[i] : flat[c] = parts[i][a]
    BY <1>1 DEF FlatUpTo
  <2>2. PICK a \in DOMAIN parts[i] : flat[c] = parts[i][a]
    BY <2>1
  <2>3. i # m /\ i \in DOMAIN parts
    BY <1>1
  <2> QED
    BY <1>1, <2>2, <2>3 DEF Apart
<1>4. ASSUME NEW c \in DOMAIN all, NEW d \in DOMAIN all, all[c] = all[d] PROVE c = d
  <2>1. /\ c \in 1..n \/ c \in (n + 1)..(n + Len(part))
        /\ d \in 1..n \/ d \in (n + 1)..(n + Len(part))
    BY <1>1, <1>2 DEF n
  <2>2. CASE c \in 1..n /\ d \in 1..n
    BY <1>1, <1>2, <1>4, <2>2 DEF FlatUpTo
  <2>3. CASE c \in (n + 1)..(n + Len(part)) /\ d \in (n + 1)..(n + Len(part))
    <3>1. c - n \in DOMAIN part /\ d - n \in DOMAIN part /\ part[c - n] = part[d - n]
      BY <1>2, <1>4, <2>3
    <3>2. m \in DOMAIN parts
      BY <1>1
    <3>3. c - n = d - n
      BY <3>1, <3>2 DEF Apart
    <3> QED
      BY <1>1, <2>3, <3>3
  <2>4. CASE c \in 1..n /\ d \in (n + 1)..(n + Len(part))
    BY <1>2, <1>3, <1>4, <2>4
  <2>5. CASE d \in 1..n /\ c \in (n + 1)..(n + Len(part))
    BY <1>2, <1>3, <1>4, <2>5
  <2> QED
    BY <2>1, <2>2, <2>3, <2>4, <2>5
<1>5. ASSUME NEW c \in DOMAIN all
      PROVE  \E i \in 1..m : \E a \in DOMAIN parts[i] : all[c] = parts[i][a]
  <2>1. CASE c \in 1..n
    <3>1. PICK i \in 1..(m - 1) : \E a \in DOMAIN parts[i] : flat[c] = parts[i][a]
      BY <1>1, <2>1 DEF FlatUpTo
    <3>2. i \in 1..m
      BY <1>1
    <3> QED
      BY <1>2, <2>1, <3>1, <3>2
  <2>2. CASE c \in (n + 1)..(n + Len(part))
    <3>1. m \in 1..m
      BY <1>1
    <3> QED
      BY <1>2, <2>2, <3>1
  <2>3. c \in 1..n \/ c \in (n + 1)..(n + Len(part))
    BY <1>1, <1>2
  <2> QED
    BY <2>1, <2>2, <2>3
<1>6. FlatUpTo(parts, all, m)
  BY <1>4, <1>5 DEF FlatUpTo
<1> QED
  BY <1>6 DEF all

(* The loop over the parts is well defined ...                             *)
LEMMA FlattenExists ==
    ASSUME NEW S, NEW parts \in Seq(Seq(S)), parts # <<>>
    PROVE  \A m \in 1..Len(parts) : \E flat : FlattenedBy(S, parts, flat, m)
<1> DEFINE missing == {m \in Nat : m \in 1..Len(parts) /\ ~\E flat : FlattenedBy(S, parts, flat, m)}
<1>1. Len(parts) \in Nat \ {0} /\ \A i \in 1..Len(parts) : parts[i] \in Seq(S)
  OBVIOUS
<1>2. SUFFICES ASSUME missing # {} PROVE FALSE
  <2>1. 1..Len(parts) \subseteq Nat
    OBVIOUS
  <2> QED
    BY <2>1
<1>3. PICK m \in missing : \A n \in missing : m <= n
  BY <1>2, SmallestNumber
<1>4. m \in 1..Len(parts) /\ m \in Nat /\ ~\E flat : FlattenedBy(S, parts, flat, m)
  BY <1>3
<1>5. m # 1
  <2>1. parts[1] \in Seq(S)
    BY <1>1
  <2>2. FlattenedBy(S, parts, [k \in 1..1 |-> parts[1]], 1)
    BY <2>1 DEF FlattenedBy
  <2> QED
    BY <1>4, <2>2
<1>6. m - 1 \in 1..Len(parts) /\ m - 1 \in Nat /\ m - 1 < m
  BY <1>1, <1>4, <1>5
<1>7. PICK before : FlattenedBy(S, parts, before, m - 1)
  <2>1. m - 1 \notin missing
    <3> HIDE DEF missing
    <3> QED
      BY <1>3, <1>4, <1>6
  <2> QED
    BY <1>6, <2>1
<1> DEFINE last == before[m - 1] \o parts[m]
           flat == [k \in 1..m |-> IF k = m THEN last ELSE before[k]]
<1>8. last \in Seq(S)
  <2>1. parts[m] \in Seq(S) /\ before[m - 1] \in Seq(S)
    BY <1>1, <1>4, <1>6, <1>7 DEF FlattenedBy
  <2> QED
    BY <2>1
<1>9. /\ flat \in [1..m -> Seq(S)] /\ flat[m] = last
      /\ \A k \in 1..(m - 1) : flat[k] = before[k]
  <2> HIDE DEF last
  <2> QED
    BY <1>4, <1>6, <1>7, <1>8 DEF FlattenedBy
<1> HIDE DEF flat
<1>10. flat[1] = parts[1]
  <2>1. 1 \in 1..(m - 1)
    BY <1>6
  <2> QED
    BY <1>7, <1>9, <2>1 DEF FlattenedBy
<1>11. ASSUME NEW k \in 2..m PROVE flat[k] = flat[k - 1] \o parts[k]
  <2>1. CASE k = m
    <3>1. m - 1 \in 1..(m - 1)
      BY <1>6
    <3>2. flat[m - 1] = before[m - 1]
      BY <1>9, <3>1
    <3> QED
      BY <1>9, <2>1, <3>2
  <2>2. CASE k # m
    <3>1. k \in 2..(m - 1) /\ k \in 1..(m - 1) /\ k - 1 \in 1..(m - 1)
      BY <1>4, <1>6, <2>2
    <3>2. flat[k] = before[k] /\ flat[k - 1] = before[k - 1]
      BY <1>9, <3>1
    <3> QED
      BY <1>7, <3>1, <3>2 DEF FlattenedBy
  <2> QED
    BY <2>1, <2>2
<1>12. FlattenedBy(S, parts, flat, m)
  BY <1>9, <1>10, <1>11 DEF FlattenedBy
<1> QED
  BY <1>4, <1>12

(* ... and gives every element of the parts at most one place.             *)
LEMMA FlattenKeepsApart ==
    ASSUME NEW S, NEW parts \in Seq(Seq(S)), Apart(parts)
    PROVE  /\ Ext!FlattenSeq(parts) \in Seq(S)
           /\ FlatUpTo(parts, Ext!FlattenSeq(parts), Len(parts))
<1>1. CASE parts = <<>>
  <2>1. Len(parts) = 0 /\ Ext!FlattenSeq(parts) = <<>>
    BY <1>1 DEF Ext!FlattenSeq
  <2> QED
    BY <2>1 DEF FlatUpTo
<1>2. CASE parts # <<>>
  <2> DEFINE n == Len(parts)
             Step(f) == [i \in 1..n |-> IF i = 1 THEN parts[i] ELSE f[i - 1] \o parts[i]]
             flat == CHOOSE f : f = Step(f)
  <2>1. n \in Nat \ {0} /\ DOMAIN parts = 1..n /\ \A i \in 1..n : parts[i] \in Seq(S)
    BY <1>2
  <2>2. Ext!FlattenSeq(parts) = flat[n]
    BY <2>1 DEF Ext!FlattenSeq
  <2> HIDE DEF n
  <2>3. PICK f : FlattenedBy(S, parts, f, n)
    BY <1>2, <2>1, FlattenExists DEF n
  <2>4. f = Step(f)
    <3>1. DOMAIN f = 1..n /\ f = [k \in 1..n |-> f[k]]
      BY <2>3 DEF FlattenedBy
    <3>2. ASSUME NEW k \in 1..n PROVE f[k] = Step(f)[k]
      <4>1. k = 1 \/ k \in 2..n
        BY <2>1
      <4> QED
        BY <2>1, <2>3, <4>1 DEF FlattenedBy
    <3>3. Step(f) = [k \in 1..n |-> Step(f)[k]]
      BY <2>1
    <3> HIDE DEF Step
    <3> QED
      BY <3>1, <3>2, <3>3
  <2>5. flat = Step(flat)
    <3> HIDE DEF Step
    <3> QED
      BY <2>4
  <2> HIDE DEF flat
  <2>6. /\ \A k \in 1..n : flat[k] = IF k = 1 THEN parts[k] ELSE flat[k - 1] \o parts[k]
    BY <2>5
  <2> DEFINE odd == {k \in Nat : k \in 1..n /\ ~(flat[k] \in Seq(S) /\ FlatUpTo(parts, flat[k], k))}
  <2>7. odd = {}
    <3> SUFFICES ASSUME odd # {} PROVE FALSE
      OBVIOUS
    <3>1. PICK k \in odd : \A j \in odd : k <= j
      BY SmallestNumber
    <3>2. k \in 1..n /\ k \in Nat /\ ~(flat[k] \in Seq(S) /\ FlatUpTo(parts, flat[k], k))
      BY <3>1
    <3>3. k # 1
      <4>1. ASSUME k = 1 PROVE flat[k] \in Seq(S) /\ FlatUpTo(parts, flat[k], k)
        <5> HIDE DEF odd
        <5>1. 1 \in 1..n /\ 1 \in 1..1
          BY <3>2, <4>1
        <5>2. flat[1] = parts[1] /\ parts[1] \in Seq(S) /\ 1 \in DOMAIN parts
          BY <2>1, <2>6, <5>1
        <5>3. FlatUpTo(parts, parts[1], 1)
          BY <5>1, <5>2 DEF FlatUpTo, Apart
        <5> QED
          BY <4>1, <5>2, <5>3
      <4> QED
        BY <3>2, <4>1
    <3>4. k - 1 \in 1..n /\ k - 1 \in Nat /\ k - 1 < k
      BY <2>1, <3>2, <3>3
    <3>5. flat[k - 1] \in Seq(S) /\ FlatUpTo(parts, flat[k - 1], k - 1)
      <4>1. k - 1 \notin odd
        <5> HIDE DEF odd
        <5> QED
          BY <3>1, <3>2, <3>4
      <4> QED
        BY <3>4, <4>1
    <3>6. flat[k] = flat[k - 1] \o parts[k] /\ parts[k] \in Seq(S)
      BY <2>1, <2>6, <3>2, <3>3
    <3>7. flat[k] \in Seq(S)
      BY <3>5, <3>6
    <3>8. FlatUpTo(parts, flat[k], k)
      BY <3>2, <3>3, <3>5, <3>6, FlatNext DEF n
    <3> QED
      BY <3>2, <3>7, <3>8
  <2>8. n \in 1..n /\ n \in Nat
    BY <2>1
  <2>9. flat[n] \in Seq(S) /\ FlatUpTo(parts, flat[n], n)
    BY <2>7, <2>8
  <2> QED
    BY <2>2, <2>9 DEF n
<1> QED
  BY <1>1, <1>2

-----------------------------------------------------------------------------
Table == [variables : Seq(Nat), cardinalities : Seq(Nat)]
Edge == [variable : Nat, factor : Nat, cardinality : Nat]

(* Every edge joins a variable and a factor, and no two the same.          *)
LEMMA EdgesListed ==
    ASSUME NEW tables \in Seq(Table), \A f \in DOMAIN tables : TableAccepted(tables[f])
    PROVE  /\ EdgesOf(tables) \in Seq(Edge)
           /\ \A c \in DOMAIN EdgesOf(tables) : EdgesOf(tables)[c].factor \in DOMAIN tables
           /\ \A c, d \in DOMAIN EdgesOf(tables) :
                 /\ EdgesOf(tables)[c].variable = EdgesOf(tables)[d].variable
                 /\ EdgesOf(tables)[c].factor = EdgesOf(tables)[d].factor
                 => c = d
<1> DEFINE scope(f) == tables[f].variables
           edge(f, p) == [variable |-> scope(f)[p], factor |-> f,
                          cardinality |-> tables[f].cardinalities[p]]
           part(f) == [p \in DOMAIN scope(f) |-> edge(f, p)]
           parts == [f \in DOMAIN tables |-> part(f)]
           flat == Ext!FlattenSeq(parts)
<1>1. ASSUME NEW f \in DOMAIN tables
      PROVE  /\ f \in Nat /\ scope(f) \in Seq(Nat) /\ tables[f].cardinalities \in Seq(Nat)
             /\ Len(scope(f)) = Len(tables[f].cardinalities)
             /\ \A p, q \in DOMAIN scope(f) : scope(f)[p] = scope(f)[q] => p = q
  <2>1. tables[f] \in Table /\ f \in Nat
    OBVIOUS
  <2> QED
    BY <2>1 DEF Table, TableAccepted
<1>2. ASSUME NEW f \in DOMAIN tables, NEW p \in DOMAIN scope(f) PROVE edge(f, p) \in Edge
  <2>1. scope(f)[p] \in Nat /\ tables[f].cardinalities[p] \in Nat
    BY <1>1
  <2> QED
    BY <1>1, <2>1 DEF Edge
<1>3. ASSUME NEW f \in DOMAIN tables PROVE part(f) \in Seq(Edge)
  <2>1. DOMAIN scope(f) = 1..Len(scope(f)) /\ Len(scope(f)) \in Nat
    BY <1>1
  <2> HIDE DEF scope, edge
  <2> QED
    BY <1>2, <2>1
<1>4. parts \in Seq(Seq(Edge)) /\ DOMAIN parts = DOMAIN tables /\ Len(parts) = Len(tables)
  <2>1. DOMAIN tables = 1..Len(tables) /\ Len(tables) \in Nat
    OBVIOUS
  <2> HIDE DEF part
  <2> QED
    BY <1>3, <2>1
<1>5. \A f \in DOMAIN tables :
          /\ DOMAIN parts[f] = DOMAIN scope(f)
          /\ \A p \in DOMAIN scope(f) : parts[f][p] = edge(f, p)
  <2> HIDE DEF scope, edge
  <2> QED
    OBVIOUS
<1>6. \A f, g, p, q : edge(f, p) = edge(g, q) => f = g /\ scope(f)[p] = scope(g)[q]
  OBVIOUS
<1>7. \A f, p : edge(f, p).variable = scope(f)[p] /\ edge(f, p).factor = f
  OBVIOUS
<1> HIDE DEF parts, edge, scope
<1>8. Apart(parts)
  BY <1>1, <1>4, <1>5, <1>6 DEF Apart
<1>9. flat \in Seq(Edge) /\ FlatUpTo(parts, flat, Len(parts))
  BY <1>4, <1>8, FlattenKeepsApart
<1>10. EdgesOf(tables) = flat
  BY DEF EdgesOf, parts, edge, scope
<1> HIDE DEF flat
<1>11. ASSUME NEW c \in DOMAIN flat
       PROVE  \E f \in DOMAIN tables : \E p \in DOMAIN scope(f) : flat[c] = edge(f, p)
  <2>1. PICK f \in 1..Len(parts) : \E p \in DOMAIN parts[f] : flat[c] = parts[f][p]
    BY <1>9 DEF FlatUpTo
  <2>2. f \in DOMAIN tables
    BY <1>4
  <2> QED
    BY <1>5, <2>1, <2>2
<1>12. \A c \in DOMAIN flat : flat[c].factor \in DOMAIN tables
  BY <1>7, <1>11
<1>13. ASSUME NEW c \in DOMAIN flat, NEW d \in DOMAIN flat,
              flat[c].variable = flat[d].variable, flat[c].factor = flat[d].factor
       PROVE  c = d
  <2>1. PICK f \in DOMAIN tables : \E p \in DOMAIN scope(f) : flat[c] = edge(f, p)
    BY <1>11
  <2>2. PICK g \in DOMAIN tables : \E q \in DOMAIN scope(g) : flat[d] = edge(g, q)
    BY <1>11
  <2>3. PICK p \in DOMAIN scope(f) : flat[c] = edge(f, p)
    BY <2>1
  <2>4. PICK q \in DOMAIN scope(g) : flat[d] = edge(g, q)
    BY <2>2
  <2>5. f = g /\ scope(f)[p] = scope(g)[q]
    BY <1>7, <1>13, <2>3, <2>4
  <2>6. p = q
    BY <1>1, <2>5
  <2> QED
    BY <1>9, <2>3, <2>4, <2>5, <2>6 DEF FlatUpTo
<1> QED
  BY <1>9, <1>10, <1>12, <1>13

-----------------------------------------------------------------------------
(* Everything that is known after the edges of the pairs K are united.     *)
Unified(N, K, par, sizes, forest) ==
    /\ forest \in BOOLEAN
    /\ \E rank : IsForest(N, par, EndsIn(N, par), rank)
    /\ Joins(N, K, EndsIn(N, par))
    /\ Sized(N, EndsIn(N, par), sizes)
    /\ Counted(N, K, EndsIn(N, par), forest)

(* At first every node is a component. *)
LEMMA UnifiedStart ==
    ASSUME NEW N, IsFiniteSet(N)
    PROVE  Unified(N, {}, [x \in N |-> x], [x \in N |-> 1], TRUE)
<1> DEFINE id == [x \in N |-> x]
<1>1. IsForest(N, id, id, [x \in N |-> 0])
  BY DEF IsForest
<1>2. EndsIn(N, id) = id
  BY <1>1, EndsAreRoots
<1>3. Joins(N, {}, id)
  BY DEF Joins
<1>4. Sized(N, id, [x \in N |-> 1])
  <2>1. \A x \in N : Below(N, id, x) = {x}
    BY DEF Below
  <2> QED
    BY <2>1, FS_Singleton DEF Sized
<1>5. Counted(N, {}, id, TRUE)
  <2>1. Tops(N, id) = N
    BY DEF Tops
  <2> QED
    BY <2>1, FS_EmptySet, FS_CardinalityType DEF Counted
<1> HIDE DEF id
<1>6. Unified(N, {}, id, [x \in N |-> 1], TRUE)
  BY <1>1, <1>2, <1>3, <1>4, <1>5 DEF Unified
<1> QED
  BY <1>6 DEF id

(* Compression changes nothing of it.                                      *)
Hung(N, par, M) == [y \in N |-> IF y \in M THEN EndsIn(N, par)[y] ELSE par[y]]

LEMMA UnifiedCompressed ==
    ASSUME NEW N, NEW K, NEW par, NEW sizes, NEW forest, NEW M,
           Unified(N, K, par, sizes, forest)
    PROVE  /\ Unified(N, K, Hung(N, par, M), sizes, forest)
           /\ EndsIn(N, Hung(N, par, M)) = EndsIn(N, par)
<1> DEFINE root == EndsIn(N, par)
<1>1. PICK rank : IsForest(N, par, root, rank)
  BY DEF Unified
<1>2. IsForest(N, Hung(N, par, M), root, rank)
  BY <1>1, CompressedForest DEF Hung
<1>3. EndsIn(N, Hung(N, par, M)) = root
  BY <1>2, EndsAreRoots
<1> QED
  BY <1>2, <1>3 DEF Unified

(* An edge within a component is a cycle.                                  *)
LEMMA UnifiedSame ==
    ASSUME NEW N, IsFiniteSet(N), NEW K, NEW par, NEW sizes, NEW forest,
           Unified(N, K, par, sizes, forest),
           NEW a \in N, NEW b \in N, <<a, b>> \notin K, EndsIn(N, par)[a] = EndsIn(N, par)[b]
    PROVE  Unified(N, K \cup {<<a, b>>}, par, sizes, FALSE)
<1> DEFINE root == EndsIn(N, par)
<1>1. root \in [N -> N]
  BY DEF Unified, IsForest
<1>2. Joins(N, K \cup {<<a, b>>}, root)
  BY <1>1, JoinsSame DEF Unified
<1>3. Counted(N, K \cup {<<a, b>>}, root, FALSE)
  BY CountedSame DEF Unified
<1> QED
  BY <1>2, <1>3 DEF Unified

(* Another joins two components.                                           *)
LEMMA UnifiedOther ==
    ASSUME NEW N, IsFiniteSet(N), NEW K, NEW par, NEW sizes, NEW forest,
           Unified(N, K, par, sizes, forest),
           NEW a \in N, NEW b \in N, <<a, b>> \notin K, NEW low \in N, NEW high \in N,
           {low, high} = {EndsIn(N, par)[a], EndsIn(N, par)[b]}, low # high
    PROVE  Unified(N, K \cup {<<a, b>>}, [par EXCEPT ![low] = high],
                   [sizes EXCEPT ![high] = @ + sizes[low]], forest)
<1> DEFINE root == EndsIn(N, par)
           par2 == [par EXCEPT ![low] = high]
<1>1. PICK rank : IsForest(N, par, root, rank)
  BY DEF Unified
<1>2. root \in [N -> N] /\ \A x \in N : root[root[x]] = root[x]
  BY <1>1 DEF IsForest
<1>3. root[low] = low /\ root[high] = high
  BY <1>2
<1>4. PICK rank2 : IsForest(N, par2, Linked(N, root, low, high), rank2)
  BY <1>1, <1>3, LinkedForest
<1>5. EndsIn(N, par2) = Linked(N, root, low, high)
  BY <1>4, EndsAreRoots
<1>6. Joins(N, K \cup {<<a, b>>}, Linked(N, root, low, high))
  BY <1>2, JoinsOther DEF Unified
<1>7. Sized(N, Linked(N, root, low, high), [sizes EXCEPT ![high] = @ + sizes[low]])
  BY <1>2, <1>3, SizedOther DEF Unified
<1>8. Counted(N, K \cup {<<a, b>>}, Linked(N, root, low, high), forest)
  BY <1>2, <1>3, CountedOther DEF Unified
<1> HIDE DEF root, par2
<1>9. forest \in BOOLEAN
  BY DEF Unified
<1>10. Unified(N, K \cup {<<a, b>>}, par2, [sizes EXCEPT ![high] = @ + sizes[low]], forest)
  BY <1>4, <1>5, <1>6, <1>7, <1>8, <1>9 DEF Unified
<1> QED
  BY <1>10 DEF par2

(* What follows for the components.                                        *)
LEMMA UnifiedGives ==
    ASSUME NEW N, IsFiniteSet(N), NEW K, NEW par, NEW sizes, NEW forest,
           Unified(N, K, par, sizes, forest)
    PROVE  LET root == EndsIn(N, par)
           IN  /\ {{y \in N : root[y] = root[x]} : x \in N} = ComponentsOf(N, K)
               /\ \A c \in ComponentsOf(N, K) : \A x \in c : sizes[root[x]] = Cardinality(c)
               /\ forest <=> Cardinality(K) + Cardinality(ComponentsOf(N, K)) = Cardinality(N)
<1> DEFINE root == EndsIn(N, par)
<1>1. root \in [N -> N] /\ \A x \in N : root[root[x]] = root[x]
  BY DEF Unified, IsForest
<1> HIDE DEF root
<1>2. {Below(N, root, x) : x \in N} = ComponentsOf(N, K)
  BY <1>1, RootsTellComponents DEF Unified, root
<1>3. {{y \in N : root[y] = root[x]} : x \in N} = ComponentsOf(N, K)
  BY <1>2 DEF Below
<1>4. ASSUME NEW c \in ComponentsOf(N, K), NEW x \in c PROVE sizes[root[x]] = Cardinality(c)
  <2>1. PICK z \in N : c = Below(N, root, z)
    BY <1>2
  <2>2. x \in N /\ root[x] = root[z]
    BY <2>1 DEF Below
  <2>3. Below(N, root, root[x]) = c
    BY <1>1, <2>1, <2>2 DEF Below
  <2> QED
    BY <1>1, <2>2, <2>3 DEF Unified, Sized, root
<1>5. Cardinality(ComponentsOf(N, K)) = Cardinality(Tops(N, root))
  BY <1>1, <1>2, TopsAreComponents
<1>6. forest <=> Cardinality(K) + Cardinality(ComponentsOf(N, K)) = Cardinality(N)
  BY <1>5 DEF Unified, Counted, root
<1> QED
  BY <1>3, <1>4, <1>6 DEF root

-----------------------------------------------------------------------------
(***************************************************************************)
(* The topology of a batch.                                                *)
(***************************************************************************)
Graphing == phase \in {"uniting", "passing", "deciding"}

GraphTypeOK ==
    /\ phase # "idle" =>
           factors \in Seq(Table) /\ \A f \in DOMAIN factors : TableAccepted(factors[f])
    /\ Graphing =>
           /\ edges = EdgesOf(factors)
           /\ \A e \in DOMAIN edges : edges[e].variable \in 1..batch
    /\ phase = "uniting" => cursor \in 1..(Len(edges) + 1)

UnionHolds == Graphing => Unified(Node, Pairs(United), parent, size, acyclic)

TopologyInv == GatingInv /\ GraphTypeOK /\ UnionHolds

(* There are as many nodes as observations and tables.                     *)
LEMMA NodesAreFinite ==
    ASSUME GatingInv, phase # "idle", factors \in Seq(Table)
    PROVE  IsFiniteSet(Node)
<1>1. batch \in Nat
  BY BatchFits DEF GatingInv, GatingTypeOK
<1>2. Len(factors) \in Nat
  OBVIOUS
<1> QED
  BY <1>1, <1>2, FS_Interval DEF Node

(* The nodes and the ends of the edges.                                    *)
LEMMA GraphIs ==
    ASSUME GatingInv, GraphTypeOK, Graphing
    PROVE  /\ IsFiniteSet(Node) /\ edges \in Seq(Edge) /\ Len(edges) \in Nat
           /\ DOMAIN edges = 1..Len(edges)
           /\ \A e \in DOMAIN edges :
                  edges[e].variable \in Node /\ FactorNode(edges[e].factor) \in Node
           /\ \A c, d \in DOMAIN edges :
                  /\ edges[c].variable = edges[d].variable
                  /\ FactorNode(edges[c].factor) = FactorNode(edges[d].factor)
                  => c = d
<1>1. phase # "idle"
  BY DEF Graphing
<1>2. batch \in Nat
  BY <1>1, BatchFits DEF GatingInv, GatingTypeOK
<1>3. /\ factors \in Seq(Table) /\ \A f \in DOMAIN factors : TableAccepted(factors[f])
      /\ edges = EdgesOf(factors) /\ \A e \in DOMAIN edges : edges[e].variable \in 1..batch
  BY <1>1 DEF GraphTypeOK
<1>4. Len(factors) \in Nat /\ DOMAIN factors = 1..Len(factors)
  BY <1>3
<1>5. /\ edges \in Seq(Edge)
      /\ \A c \in DOMAIN edges : edges[c].factor \in DOMAIN factors
      /\ \A c, d \in DOMAIN edges :
            edges[c].variable = edges[d].variable /\ edges[c].factor = edges[d].factor => c = d
  BY <1>3, EdgesListed
<1>6. Node = 1..(batch + Len(factors)) /\ \A f : FactorNode(f) = batch + f
  BY DEF Node, FactorNode
<1>7. IsFiniteSet(Node)
  BY <1>1, <1>3, NodesAreFinite
<1>8. \A e \in DOMAIN edges : edges[e].variable \in Node /\ FactorNode(edges[e].factor) \in Node
  BY <1>2, <1>3, <1>4, <1>5, <1>6
<1>9. \A c, d \in DOMAIN edges :
          FactorNode(edges[c].factor) = FactorNode(edges[d].factor) =>
              edges[c].factor = edges[d].factor
  BY <1>2, <1>4, <1>5, <1>6
<1>10. Len(edges) \in Nat /\ DOMAIN edges = 1..Len(edges)
  BY <1>5
<1> QED
  BY <1>5, <1>7, <1>8, <1>9, <1>10

(* The end of the chain of parents, and what is hung below it.             *)
LEMMA RootsAreEnds ==
    /\ \A x : Root(x) = EndsIn(Node, parent)[x]
    /\ \A M : Compressed(M) = Hung(Node, parent, UNION {Chain(x) : x \in M})
<1>1. \A x : Root(x) = EndsIn(Node, parent)[x]
  BY DEF Root, EndsIn
<1>2. ASSUME NEW M
      PROVE  Compressed(M) = Hung(Node, parent, UNION {Chain(x) : x \in M})
  BY <1>1 DEF Compressed, Hung
<1> QED
  BY <1>1, <1>2

(* The property follows.                                                   *)
LEMMA UnionGives == TopologyInv => TopologyRight
<1> SUFFICES ASSUME TopologyInv, Graphing
             PROVE  /\ {{y \in Node : Root(y) = Root(x)} : x \in Node} = Components(United)
                    /\ \A c \in Components(United) : \A x \in c : size[Root(x)] = Cardinality(c)
                    /\ acyclic <=> Forest(United)
  BY DEF TopologyRight, Graphing
<1> DEFINE K == Pairs(United)
<1>1. IsFiniteSet(Node) /\ Unified(Node, K, parent, size, acyclic)
  BY GraphIs DEF TopologyInv, UnionHolds
<1>2. Components(United) = ComponentsOf(Node, K)
  BY DEF Components, ComponentsOf, Closed, NoneLeaves
<1>3. \A x : Root(x) = EndsIn(Node, parent)[x]
  BY RootsAreEnds
<1> DEFINE root == EndsIn(Node, parent)
<1>4. /\ {{y \in Node : root[y] = root[x]} : x \in Node} = ComponentsOf(Node, K)
      /\ \A c \in ComponentsOf(Node, K) : \A x \in c : size[root[x]] = Cardinality(c)
      /\ acyclic <=> Cardinality(K) + Cardinality(ComponentsOf(Node, K)) = Cardinality(Node)
  <2> HIDE DEF K
  <2> QED
    BY <1>1, UnifiedGives
<1>5. Forest(United) <=> Cardinality(K) + Cardinality(ComponentsOf(Node, K)) = Cardinality(Node)
  BY <1>2 DEF Forest
<1> HIDE DEF K, root
<1>6. {{y \in Node : Root(y) = Root(x)} : x \in Node}
          = {{y \in Node : root[y] = root[x]} : x \in Node}
  BY <1>3 DEF root
<1>7. \A c \in Components(United) : \A x \in c : size[Root(x)] = Cardinality(c)
  BY <1>2, <1>3, <1>4 DEF root
<1> QED
  BY <1>2, <1>4, <1>5, <1>6, <1>7

-----------------------------------------------------------------------------
(* The tables of a batch are those that were accepted.                     *)
LEMMA EmitKeeps ==
    ASSUME TopologyInv, NEW table \in Emittable(batch), EmitFactor(table)
    PROVE  GraphTypeOK' /\ UnionHolds'
<1>1. phase = "factors" /\ phase' = "factors" /\ factors' = Append(factors, table)
      /\ TableAccepted(table)
  BY DEF EmitFactor
<1>2. table \in Table
  <2>1. batch \in BatchLength
    BY <1>1 DEF TopologyInv, GatingInv, GatingTypeOK
  <2> QED
    BY <2>1, CollectiveAssumption DEF Table
<1>3. factors \in Seq(Table) /\ \A f \in DOMAIN factors : TableAccepted(factors[f])
  BY <1>1 DEF TopologyInv, GraphTypeOK
<1>4. factors' \in Seq(Table) /\ \A f \in DOMAIN factors' : TableAccepted(factors'[f])
  <2>1. /\ factors' \in Seq(Table) /\ DOMAIN factors' = 1..(Len(factors) + 1)
        /\ Len(factors) \in Nat /\ DOMAIN factors = 1..Len(factors)
        /\ \A f \in 1..Len(factors) : factors'[f] = factors[f]
        /\ factors'[Len(factors) + 1] = table
    BY <1>1, <1>2, <1>3
  <2>2. \A f \in 1..(Len(factors) + 1) : f \in 1..Len(factors) \/ f = Len(factors) + 1
    BY <2>1
  <2> QED
    BY <1>1, <1>3, <2>1, <2>2
<1>5. ~Graphing' /\ phase' # "uniting" /\ phase' # "idle"
  BY <1>1 DEF Graphing
<1> QED
  BY <1>4, <1>5 DEF GraphTypeOK, UnionHolds

(* compile gives a forest of single nodes.                                 *)
LEMMA CompileUnifies ==
    ASSUME TopologyInv, Compile
    PROVE  GraphTypeOK' /\ UnionHolds'
<1>1. /\ phase = "factors" /\ phase' = "uniting" /\ cursor' = 1 /\ edges' = EdgesOf(factors)
      /\ parent' = [x \in Node |-> x] /\ size' = [x \in Node |-> 1] /\ acyclic' = TRUE
      /\ factors' = factors /\ batch' = batch /\ Compilable
  BY DEF Compile, buffers, gating
<1>2. factors \in Seq(Table) /\ \A f \in DOMAIN factors : TableAccepted(factors[f])
  BY <1>1 DEF TopologyInv, GraphTypeOK
<1>3. edges' \in Seq(Edge)
  BY <1>1, <1>2, EdgesListed
<1>4. \A e \in DOMAIN edges' : edges'[e].variable \in 1..batch
  BY <1>1 DEF Compilable, Ext!ToSet
<1>5. Len(edges') \in Nat
  BY <1>3
<1>6. GraphTypeOK'
  BY <1>1, <1>2, <1>4, <1>5 DEF GraphTypeOK, Graphing
<1>7. Graphing'
  BY <1>1 DEF Graphing
<1>8. IsFiniteSet(Node) /\ DOMAIN edges' = 1..Len(edges')
  BY <1>1, <1>2, <1>3, NodesAreFinite DEF TopologyInv
<1>9. Node' = Node
  BY <1>1 DEF Node
<1>10. Pairs(United)' = {}
  <2>1. United' = {}
    BY <1>1, <1>8 DEF United
  <2> QED
    BY <2>1 DEF Pairs
<1>11. Unified(Node, {}, parent', size', acyclic')
  BY <1>1, <1>8, <1>9, UnifiedStart
<1>12. UnionHolds'
  BY <1>9, <1>10, <1>11 DEF UnionHolds
<1> QED
  BY <1>6, <1>12

(* The edges that are united are one more ... *)
LEMMA UnitedGrows ==
    ASSUME TopologyInv, Unite
    PROVE  United' = United \cup {cursor} /\ cursor \notin United /\ United \subseteq DOMAIN edges
<1>1. phase = "uniting" /\ phase' = "uniting" /\ cursor' = cursor + 1 /\ edges' = edges
      /\ cursor \in DOMAIN edges
  BY DEF Unite
<1>2. Len(edges) \in Nat /\ DOMAIN edges = 1..Len(edges)
  BY <1>1, GraphIs DEF TopologyInv, Graphing
<1>3. /\ United = {e \in DOMAIN edges : e < cursor}
      /\ United' = {e \in DOMAIN edges : e < cursor + 1}
  BY <1>1 DEF United
<1>4. cursor \in Nat
  BY <1>1, <1>2
<1>5. \A e \in DOMAIN edges : e < cursor + 1 <=> e < cursor \/ e = cursor
  BY <1>2, <1>4
<1> QED
  BY <1>1, <1>3, <1>4, <1>5

(* ... and in the end all. *)
LEMMA AllUnited ==
    ASSUME TopologyInv, SetLimit
    PROVE  United = DOMAIN edges /\ United' = DOMAIN edges
<1>1. phase = "uniting" /\ phase' = "passing" /\ cursor \notin DOMAIN edges /\ edges' = edges
  BY DEF SetLimit
<1>2. Len(edges) \in Nat /\ DOMAIN edges = 1..Len(edges)
  BY <1>1, GraphIs DEF TopologyInv, Graphing
<1>3. cursor \in 1..(Len(edges) + 1)
  BY <1>1 DEF TopologyInv, GraphTypeOK
<1>4. cursor = Len(edges) + 1
  BY <1>1, <1>2, <1>3
<1>5. \A e \in DOMAIN edges : e < cursor
  BY <1>2, <1>4
<1> QED
  BY <1>1, <1>5 DEF United

(* Uniting the ends of the next edge.                                      *)
LEMMA UniteUnifies ==
    ASSUME TopologyInv, Unite
    PROVE  GraphTypeOK' /\ UnionHolds'
<1> DEFINE a == edges[cursor].variable  b == FactorNode(edges[cursor].factor)
           left == Root(a)  right == Root(b)
           low == IF size[left] < size[right] THEN left ELSE right
           high == IF size[left] < size[right] THEN right ELSE left
           K == Pairs(United)
           compressed == Compressed({a, b})
<1>1. /\ phase = "uniting" /\ phase' = "uniting" /\ cursor \in DOMAIN edges /\ cursor' = cursor + 1
      /\ edges' = edges /\ factors' = factors /\ batch' = batch
  BY DEF Unite, buffers, gating
<1>2. \/ /\ left = right /\ acyclic' = FALSE /\ parent' = compressed /\ size' = size
      \/ /\ left # right /\ parent' = [compressed EXCEPT ![low] = high]
         /\ size' = [size EXCEPT ![high] = @ + size[low]] /\ acyclic' = acyclic
  BY DEF Unite, SizeAdded
<1>3. /\ IsFiniteSet(Node) /\ Len(edges) \in Nat /\ DOMAIN edges = 1..Len(edges)
      /\ \A e \in DOMAIN edges :
             edges[e].variable \in Node /\ FactorNode(edges[e].factor) \in Node
      /\ \A c, d \in DOMAIN edges :
             /\ edges[c].variable = edges[d].variable
             /\ FactorNode(edges[c].factor) = FactorNode(edges[d].factor)
             => c = d
  BY <1>1, GraphIs DEF TopologyInv, Graphing
<1>4. Node' = Node
  BY <1>1 DEF Node
<1>5. cursor \in Nat /\ cursor \in 1..Len(edges)
  BY <1>1, <1>3
<1>6. GraphTypeOK'
  <2>1. cursor' \in 1..(Len(edges') + 1)
    BY <1>1, <1>3, <1>5
  <2> QED
    BY <1>1, <2>1 DEF GraphTypeOK, TopologyInv, Graphing
<1>7. Pairs(United)' = K \cup {<<a, b>>} /\ <<a, b>> \notin K
  <2>3. United' = United \cup {cursor} /\ cursor \notin United /\ United \subseteq DOMAIN edges
    BY UnitedGrows
  <2>4. \A f : FactorNode(f) = batch + f
    BY DEF FactorNode
  <2>5. Pairs(United)' = {<<edges[e].variable, batch + edges[e].factor>> : e \in United'}
    BY <1>1 DEF Pairs, FactorNode
  <2>6. K = {<<edges[e].variable, FactorNode(edges[e].factor)>> : e \in United}
    BY DEF Pairs
  <2>7. Pairs(United)' = K \cup {<<a, b>>}
    BY <2>3, <2>4, <2>5, <2>6
  <2>9. <<a, b>> \notin K
    BY <1>1, <1>3, <2>3, <2>6
  <2> QED
    BY <2>7, <2>9
<1> DEFINE M == UNION {Chain(x) : x \in {a, b}}
<1>8. compressed = Hung(Node, parent, M)
  BY RootsAreEnds
<1>9. left = EndsIn(Node, parent)[a] /\ right = EndsIn(Node, parent)[b]
  BY RootsAreEnds
<1>10. a \in Node /\ b \in Node
  BY <1>1, <1>3
<1> HIDE DEF a, b, left, right, M, K, compressed
<1>11. Unified(Node, K, parent, size, acyclic)
  BY <1>1 DEF TopologyInv, UnionHolds, Graphing, K
<1>12. /\ Unified(Node, K, compressed, size, acyclic)
       /\ EndsIn(Node, compressed) = EndsIn(Node, parent)
  BY <1>8, <1>11, UnifiedCompressed
<1>13. EndsIn(Node, parent) \in [Node -> Node]
  BY <1>11 DEF Unified, IsForest
<1>14. left \in Node /\ right \in Node
  BY <1>9, <1>10, <1>13
<1>15. Unified(Node, K \cup {<<a, b>>}, parent', size', acyclic')
  <2>1. CASE left = right
    <3>1. EndsIn(Node, compressed)[a] = EndsIn(Node, compressed)[b]
      BY <1>9, <1>12, <2>1
    <3>2. Unified(Node, K \cup {<<a, b>>}, compressed, size, FALSE)
      BY <1>3, <1>7, <1>10, <1>12, <3>1, UnifiedSame
    <3> QED
      BY <1>2, <2>1, <3>2
  <2>2. CASE left # right
    <3>1. low \in Node /\ high \in Node /\ low # high /\ {low, high} = {left, right}
      BY <1>14, <2>2
    <3> HIDE DEF low, high
    <3>2. {low, high} = {EndsIn(Node, compressed)[a], EndsIn(Node, compressed)[b]}
      BY <1>9, <1>12, <3>1
    <3>3. Unified(Node, K \cup {<<a, b>>}, [compressed EXCEPT ![low] = high],
                  [size EXCEPT ![high] = @ + size[low]], acyclic)
      BY <1>3, <1>7, <1>10, <1>12, <3>1, <3>2, UnifiedOther
    <3> QED
      BY <1>2, <2>2, <3>3
  <2> QED
    BY <2>1, <2>2
<1>16. UnionHolds'
  BY <1>4, <1>7, <1>15 DEF UnionHolds
<1> QED
  BY <1>6, <1>16

(* A last compression, before the passes.                                  *)
LEMMA LimitUnifies ==
    ASSUME TopologyInv, SetLimit
    PROVE  GraphTypeOK' /\ UnionHolds'
<1>1. /\ phase = "uniting" /\ phase' = "passing" /\ cursor \notin DOMAIN edges
      /\ edges' = edges /\ factors' = factors /\ batch' = batch
      /\ size' = size /\ acyclic' = acyclic
      /\ parent' = Compressed({edges[e].variable : e \in DOMAIN edges})
  BY DEF SetLimit, buffers, gating
<1>2. Len(edges) \in Nat /\ DOMAIN edges = 1..Len(edges)
  BY <1>1, GraphIs DEF TopologyInv, Graphing
<1>3. GraphTypeOK'
  BY <1>1 DEF GraphTypeOK, TopologyInv, Graphing
<1>4. United' = United
  BY AllUnited
<1>5. Pairs(United)' = Pairs(United) /\ Node' = Node
  BY <1>1, <1>4 DEF Pairs, FactorNode, Node
<1>6. Unified(Node, Pairs(United), parent, size, acyclic)
  BY <1>1 DEF TopologyInv, UnionHolds, Graphing
<1>7. Unified(Node, Pairs(United), parent', size', acyclic')
  BY <1>1, <1>6, RootsAreEnds, UnifiedCompressed
<1> QED
  BY <1>3, <1>5, <1>7 DEF UnionHolds

(* The passes and the decisions leave the topology alone.                  *)
LEMMA LaterUnifies ==
    ASSUME TopologyInv, phase \in {"passing", "deciding"},
           phase' \in {"idle", "passing", "deciding"}, UNCHANGED <<factors, topology, batch>>
    PROVE  GraphTypeOK' /\ UnionHolds'
<1>1. /\ edges' = edges /\ factors' = factors /\ batch' = batch
      /\ size' = size /\ acyclic' = acyclic /\ parent' = parent
  BY DEF topology
<1>2. phase # "idle" /\ phase # "uniting" /\ phase' # "uniting" /\ Graphing
  BY DEF Graphing
<1>3. GraphTypeOK'
  BY <1>1, <1>2 DEF TopologyInv, GraphTypeOK
<1>4. Pairs(United)' = Pairs(United) /\ Node' = Node
  BY <1>1, <1>2 DEF United, Pairs, FactorNode, Node
<1> QED
  BY <1>1, <1>2, <1>3, <1>4 DEF TopologyInv, UnionHolds

(* Gating works on no graph.                                               *)
LEMMA GatingUnifies ==
    ASSUME TopologyInv, phase # "idle", phase' \in {"idle", "gating", "factors"}, factors' = factors
    PROVE  GraphTypeOK' /\ UnionHolds'
BY DEF TopologyInv, GraphTypeOK, UnionHolds, Graphing

(* Every step keeps what is known of the topology.                         *)
LEMMA TopologySteps ==
    /\ CollectiveInit => TopologyInv
    /\ TopologyInv /\ [CollectiveNext]_collectivevars => TopologyInv'
<1>1. ASSUME CollectiveInit PROVE TopologyInv
  <2>1. phase = "idle"
    BY <1>1 DEF CollectiveInit
  <2> QED
    BY <1>1, <2>1, GatingSteps DEF TopologyInv, GraphTypeOK, UnionHolds, Graphing
<1>2. ASSUME TopologyInv, UNCHANGED collectivevars PROVE GraphTypeOK' /\ UnionHolds'
  <2>1. /\ phase' = phase /\ edges' = edges /\ factors' = factors /\ batch' = batch
        /\ size' = size /\ acyclic' = acyclic /\ parent' = parent /\ cursor' = cursor
    BY <1>2 DEF collectivevars, buffers, topology, gating
  <2>2. GraphTypeOK'
    BY <1>2, <2>1 DEF TopologyInv, GraphTypeOK, Graphing
  <2>3. Pairs(United)' = Pairs(United) /\ Node' = Node /\ Graphing' = Graphing
    BY <2>1 DEF United, Pairs, FactorNode, Node, Graphing
  <2> QED
    BY <1>2, <2>1, <2>2, <2>3 DEF TopologyInv, UnionHolds
<1>3. ASSUME TopologyInv, NEW n \in BatchLength, NEW k \in Providers, Begin(n, k)
      PROVE  GraphTypeOK' /\ UnionHolds'
  <2>1. phase' = "gating" /\ factors' = <<>>
    BY <1>3 DEF Begin
  <2> QED
    BY <2>1 DEF GraphTypeOK, UnionHolds, Graphing
<1>4. ASSUME TopologyInv,
             \/ \E group \in Proposable(batch) : GenerateCandidates(group)
             \/ ProviderReturns \/ ProviderFails
             \/ Aggregate \/ AggregateOverflows \/ Gated \/ EmitFails \/ CompileFails
      PROVE  GraphTypeOK' /\ UnionHolds'
  <2>1. phase # "idle" /\ phase' \in {"idle", "gating", "factors"} /\ factors' = factors
    BY <1>4 DEF GenerateCandidates, Generating, ProviderReturns, ProviderFails, Fail, buffers,
       Aggregate, AggregateOverflows, Aggregating, Gated, EmitFails, CompileFails
  <2> QED
    BY <1>4, <2>1, GatingUnifies
<1>5. ASSUME TopologyInv,
             \/ Iterate \/ SolverFails \/ Collect
             \/ \E loss \in LossModel : phase = "deciding" /\
                    \E masses \in Distributions(cursor) : Decide(masses, loss)
      PROVE  GraphTypeOK' /\ UnionHolds'
  <2>1. /\ phase \in {"passing", "deciding"} /\ phase' \in {"idle", "passing", "deciding"}
        /\ UNCHANGED <<factors, topology, batch>>
    BY <1>5 DEF Iterate, Passing, SolverFails, Fail, Collect, Decide, buffers, gating
  <2> QED
    BY <1>5, <2>1, LaterUnifies
<1>6. ASSUME TopologyInv, CollectiveNext PROVE GraphTypeOK' /\ UnionHolds'
  BY <1>3, <1>4, <1>5, <1>6, EmitKeeps, CompileUnifies, UniteUnifies, LimitUnifies
     DEF CollectiveNext
<1>7. ASSUME TopologyInv, [CollectiveNext]_collectivevars PROVE TopologyInv'
  <2>1. GatingInv'
    BY <1>7, GatingSteps DEF TopologyInv
  <2> QED
    BY <1>2, <1>6, <1>7, <2>1 DEF TopologyInv
<1> QED
  BY <1>1, <1>7

(* For any number of observations and tables, any scopes that               *)
(* FactorTable::new accepts and any batches before: at every edge           *)
(* union_components keeps the components and their sizes as the edges       *)
(* united so far have them, and acyclic tells whether these are a forest.   *)
THEOREM TopologyIsRight == CollectiveSpec => []TopologyRight
<1>1. CollectiveInit => TopologyInv
  BY TopologySteps
<1>2. TopologyInv /\ [CollectiveNext]_collectivevars => TopologyInv'
  BY TopologySteps
<1> QED
  BY <1>1, <1>2, UnionGives, PTL DEF CollectiveSpec

-----------------------------------------------------------------------------
(***************************************************************************)
(* Trees, as graphs in which every edge is a cut.  The edges c of D join   *)
(* from[c] and to[c].                                                      *)
(***************************************************************************)
Keeps(S, E, from, to) == \A c \in E : from[c] \in S <=> to[c] \in S

(* What is reached from w along the edges of E. *)
Reach(N, E, from, to, w) ==
    {y \in N : \A S \in SUBSET N : w \in S /\ Keeps(S, E, from, to) => y \in S}

IsTree(N, D, from, to) ==
    /\ \A c \in D : from[c] \in N /\ to[c] \in N
    /\ \A c \in D : \E S \in SUBSET N :
           Keeps(S, D \ {c}, from, to) /\ from[c] \in S /\ to[c] \notin S

(* The edges at a node, their other ends, and what lies behind them. *)
EdgesAt(D, from, to, w) == {o \in D : from[o] = w \/ to[o] = w}
OtherEnd(from, to, o, w) == IF from[o] = w THEN to[o] ELSE from[o]
Behind(N, D, from, to, o, w) == Reach(N, D \ {o}, from, to, OtherEnd(from, to, o, w))

(* What is reached is the least set that holds w and that no edge leaves.  *)
LEMMA ReachIsLeast ==
    ASSUME NEW N, NEW E, NEW from, NEW to, \A c \in E : from[c] \in N /\ to[c] \in N,
           NEW w \in N
    PROVE  /\ Reach(N, E, from, to, w) \in SUBSET N
           /\ w \in Reach(N, E, from, to, w)
           /\ Keeps(Reach(N, E, from, to, w), E, from, to)
           /\ \A S \in SUBSET N :
                  w \in S /\ Keeps(S, E, from, to) => Reach(N, E, from, to, w) \subseteq S
BY DEF Reach, Keeps

(* B is what lies behind edge o at w, and u is the end of o in it. *)
LiesBehind(N, D, from, to, o, w, u, B) ==
    /\ u \in N /\ {from[o], to[o]} = {w, u}
    /\ B \in SUBSET N /\ u \in B /\ w \notin B
    /\ Keeps(B, D \ {o}, from, to)
    /\ \A S \in SUBSET N : u \in S /\ Keeps(S, D \ {o}, from, to) => B \subseteq S

(* An edge of a tree keeps its ends apart: behind it, seen from w, w is    *)
(* not to be found.                                                        *)
LEMMA BehindIs ==
    ASSUME NEW N, NEW D, NEW from, NEW to, IsTree(N, D, from, to), NEW w \in N,
           NEW o \in EdgesAt(D, from, to, w)
    PROVE  LiesBehind(N, D, from, to, o, w, OtherEnd(from, to, o, w),
                      Behind(N, D, from, to, o, w))
<1> DEFINE B == Behind(N, D, from, to, o, w)  u == OtherEnd(from, to, o, w)
<1>1. o \in D /\ (from[o] = w \/ to[o] = w) /\ \A c \in D : from[c] \in N /\ to[c] \in N
  BY DEF EdgesAt, IsTree
<1>2. u \in N /\ {from[o], to[o]} = {w, u}
  BY <1>1 DEF OtherEnd
<1>3. B = Reach(N, D \ {o}, from, to, u)
  BY DEF Behind
<1> HIDE DEF B, u
<1>4. /\ B \in SUBSET N /\ u \in B /\ Keeps(B, D \ {o}, from, to)
      /\ \A S \in SUBSET N : u \in S /\ Keeps(S, D \ {o}, from, to) => B \subseteq S
  BY <1>1, <1>2, <1>3, ReachIsLeast
<1>5. PICK S \in SUBSET N : Keeps(S, D \ {o}, from, to) /\ from[o] \in S /\ to[o] \notin S
  BY <1>1 DEF IsTree
<1>6. w \notin B
  <2>1. CASE u \in S
    <3>1. w \notin S
      BY <1>2, <1>5, <2>1
    <3> QED
      BY <1>4, <1>5, <2>1, <3>1
  <2>2. CASE u \notin S
    <3>1. w \in S
      BY <1>2, <1>5, <2>2
    <3>2. N \ S \in SUBSET N /\ u \in N \ S /\ Keeps(N \ S, D \ {o}, from, to)
      BY <1>1, <1>2, <1>5, <2>2 DEF Keeps
    <3> QED
      BY <1>4, <3>1, <3>2
  <2> QED
    BY <2>1, <2>2
<1>7. LiesBehind(N, D, from, to, o, w, u, B)
  BY <1>2, <1>4, <1>6 DEF LiesBehind
<1> QED
  BY <1>7 DEF B, u

(* Behind two edges of one node there is nothing in common.                *)
LEMMA BehindApart ==
    ASSUME NEW N, NEW D, NEW from, NEW to, IsTree(N, D, from, to), NEW w \in N,
           NEW o \in EdgesAt(D, from, to, w), NEW p \in EdgesAt(D, from, to, w), o # p
    PROVE  Behind(N, D, from, to, o, w) \cap Behind(N, D, from, to, p, w) = {}
<1> DEFINE B == Behind(N, D, from, to, o, w)  u == OtherEnd(from, to, o, w)
           C == Behind(N, D, from, to, p, w)  t == OtherEnd(from, to, p, w)
<1>0. LiesBehind(N, D, from, to, o, w, u, B) /\ LiesBehind(N, D, from, to, p, w, t, C)
  BY BehindIs
<1>3. o \in D /\ p \in D
  BY DEF EdgesAt
<1> HIDE DEF B, C, u, t
<1>1. /\ {from[o], to[o]} = {w, u}
      /\ B \in SUBSET N /\ u \in B /\ w \notin B /\ Keeps(B, D \ {o}, from, to)
  BY <1>0 DEF LiesBehind
<1>2. /\ {from[p], to[p]} = {w, t}
      /\ C \in SUBSET N /\ t \in C /\ w \notin C /\ Keeps(C, D \ {p}, from, to)
      /\ \A S \in SUBSET N : t \in S /\ Keeps(S, D \ {p}, from, to) => C \subseteq S
  BY <1>0 DEF LiesBehind
<1>4. t \notin B /\ u \notin C
  <2>1. (from[p] \in B <=> to[p] \in B) /\ (from[o] \in C <=> to[o] \in C)
    BY <1>1, <1>2, <1>3 DEF Keeps
  <2> QED
    BY <1>1, <1>2, <2>1
<1>5. Keeps(C \ B, D \ {p}, from, to)
  <2> SUFFICES ASSUME NEW c \in D \ {p} PROVE from[c] \in C \ B <=> to[c] \in C \ B
    BY DEF Keeps
  <2>1. CASE c = o
    BY <1>1, <1>2, <1>4, <2>1
  <2>2. CASE c # o
    BY <1>1, <1>2, <2>2 DEF Keeps
  <2> QED
    BY <2>1, <2>2
<1>6. C \subseteq C \ B
  BY <1>2, <1>4, <1>5
<1> QED
  BY <1>6 DEF B, C

(* X is nothing or one edge at w.                                          *)
AtMostOneAt(X, D, from, to, w) ==
    X \subseteq EdgesAt(D, from, to, w) /\ \A c, d \in X : c = d

(* What is reached from w without X lies behind the other edges of w.      *)
LEMMA ReachIsBehind ==
    ASSUME NEW N, NEW D, NEW from, NEW to, IsTree(N, D, from, to), NEW w \in N,
           NEW X, AtMostOneAt(X, D, from, to, w)
    PROVE  \A y : y \in Reach(N, D \ X, from, to, w) <=>
               y = w \/ \E o \in EdgesAt(D, from, to, w) \ X : y \in Behind(N, D, from, to, o, w)
<1> DEFINE R == Reach(N, D \ X, from, to, w)
           E == EdgesAt(D, from, to, w)
           B(o) == Behind(N, D, from, to, o, w)
           u(o) == OtherEnd(from, to, o, w)
           all == {w} \cup UNION {B(o) : o \in E \ X}
<1>1. /\ R \in SUBSET N /\ w \in R /\ Keeps(R, D \ X, from, to)
      /\ \A S \in SUBSET N : w \in S /\ Keeps(S, D \ X, from, to) => R \subseteq S
  <2>1. \A c \in D \ X : from[c] \in N /\ to[c] \in N
    BY DEF IsTree
  <2> QED
    BY <2>1, ReachIsLeast
<1>2. ASSUME NEW o \in E
      PROVE  /\ u(o) \in N /\ {from[o], to[o]} = {w, u(o)}
             /\ B(o) \in SUBSET N /\ u(o) \in B(o) /\ w \notin B(o)
             /\ Keeps(B(o), D \ {o}, from, to)
             /\ \A S \in SUBSET N : u(o) \in S /\ Keeps(S, D \ {o}, from, to) => B(o) \subseteq S
  <2>1. LiesBehind(N, D, from, to, o, w, u(o), B(o))
    BY BehindIs
  <2> HIDE DEF u, B
  <2> QED
    BY <2>1 DEF LiesBehind
<1>3. X \subseteq E /\ E \subseteq D /\ \A c \in D : (from[c] = w \/ to[c] = w) => c \in E
  BY DEF AtMostOneAt, EdgesAt
<1> HIDE DEF R, B, u, E
<1>4. ASSUME NEW o \in E \ X PROVE B(o) \subseteq R
  <2> DEFINE S == R \cap B(o)
  <2>1. u(o) \in R
    <3>1. o \in D \ X
      BY <1>3
    <3>2. from[o] \in R <=> to[o] \in R
      BY <1>1, <3>1 DEF Keeps
    <3> QED
      BY <1>1, <1>2, <3>2
  <2>2. ASSUME NEW c \in D \ {o} PROVE from[c] \in S <=> to[c] \in S
    <3>1. from[c] \in B(o) <=> to[c] \in B(o)
      BY <1>2, <2>2 DEF Keeps
    <3>2. CASE c \in X
      <4>1. c \in E
        BY <1>3, <3>2
      <4>2. from[c] = w \/ to[c] = w
        BY <1>2, <4>1
      <4>3. from[c] \notin B(o) /\ to[c] \notin B(o)
        BY <1>2, <3>1, <4>2
      <4> QED
        BY <4>3
    <3>3. CASE c \notin X
      BY <1>1, <3>1, <3>3 DEF Keeps
    <3> QED
      BY <3>2, <3>3
  <2>3. S \in SUBSET N /\ u(o) \in S /\ Keeps(S, D \ {o}, from, to)
    BY <1>1, <1>2, <2>1, <2>2 DEF Keeps
  <2>4. B(o) \subseteq S
    <3> HIDE DEF S
    <3> QED
      BY <1>2, <2>3
  <2> QED
    BY <2>4
<1>5. Keeps(all, D \ X, from, to)
  <2> SUFFICES ASSUME NEW c \in D \ X PROVE from[c] \in all <=> to[c] \in all
    BY DEF Keeps
  <2>1. CASE c \in E
    <3>1. w \in all /\ u(c) \in all
      BY <1>2, <2>1
    <3> HIDE DEF all
    <3>2. {from[c], to[c]} = {w, u(c)}
      BY <1>2, <2>1
    <3> QED
      BY <3>1, <3>2
  <2>2. CASE c \notin E
    <3>1. from[c] # w /\ to[c] # w
      BY <1>3, <2>2
    <3>2. \A o \in E \ X : from[c] \in B(o) <=> to[c] \in B(o)
      BY <1>2, <2>2 DEF Keeps
    <3>3. \A y : y \in all <=> y = w \/ \E o \in E \ X : y \in B(o)
      OBVIOUS
    <3> HIDE DEF all
    <3> QED
      BY <3>1, <3>2, <3>3
  <2> QED
    BY <2>1, <2>2
<1>6. all \in SUBSET N
  <2>1. \A y : y \in all <=> y = w \/ \E o \in E \ X : y \in B(o)
    OBVIOUS
  <2>2. \A o \in E \ X : \A y \in B(o) : y \in N
    BY <1>2
  <2> HIDE DEF all
  <2> QED
    BY <2>1, <2>2
<1>7. R \subseteq all
  <2>1. w \in all
    OBVIOUS
  <2> HIDE DEF all
  <2> QED
    BY <1>1, <1>5, <1>6, <2>1
<1>8. \A y : y \in R <=> y = w \/ \E o \in E \ X : y \in B(o)
  BY <1>1, <1>4, <1>7
<1> QED
  BY <1>8 DEF R, E, B

(* The edges among what is reached from w without X. *)
Within(N, D, from, to, X, w) == {c \in D \ X : from[c] \in Reach(N, D \ X, from, to, w)}

(* There are less of them behind an edge than before it.                   *)
LEMMA LessBehind ==
    ASSUME NEW N, NEW D, IsFiniteSet(D), NEW from, NEW to, IsTree(N, D, from, to), NEW w \in N,
           NEW X, AtMostOneAt(X, D, from, to, w), NEW o \in EdgesAt(D, from, to, w) \ X
    PROVE  Cardinality(Within(N, D, from, to, {o}, OtherEnd(from, to, o, w)))
               < Cardinality(Within(N, D, from, to, X, w))
<1> DEFINE B == Behind(N, D, from, to, o, w)  u == OtherEnd(from, to, o, w)
           R == Reach(N, D \ X, from, to, w)
           inner == Within(N, D, from, to, {o}, u)
           outer == Within(N, D, from, to, X, w)
<1>0. LiesBehind(N, D, from, to, o, w, u, B)
  BY BehindIs
<1>2. inner = {c \in D \ {o} : from[c] \in B} /\ outer = {c \in D \ X : from[c] \in R}
  BY DEF Within, Behind
<1>3. w \in R /\ B \subseteq R
  BY ReachIsBehind
<1>4. /\ o \in D \ X /\ X \subseteq D
      /\ \A c \in X : from[c] = w \/ to[c] = w
  BY DEF AtMostOneAt, EdgesAt
<1> HIDE DEF B, u, R, inner, outer
<1>1. /\ u \in N /\ {from[o], to[o]} = {w, u}
      /\ B \in SUBSET N /\ u \in B /\ w \notin B /\ Keeps(B, D \ {o}, from, to)
  BY <1>0 DEF LiesBehind
<1>5. inner \subseteq outer
  <2> SUFFICES ASSUME NEW c \in inner PROVE c \in outer
    OBVIOUS
  <2>1. c \in D \ {o} /\ from[c] \in B /\ to[c] \in B
    BY <1>1, <1>2 DEF Keeps
  <2>2. c \notin X
    BY <1>1, <1>4, <2>1
  <2> QED
    BY <1>2, <1>3, <2>1, <2>2
<1>6. o \in outer /\ o \notin inner
  BY <1>1, <1>2, <1>3, <1>4
<1>7. IsFiniteSet(outer) /\ Cardinality(outer) \in Nat
  <2>1. outer \in SUBSET D
    BY <1>2
  <2> QED
    BY <2>1, FS_Subset, FS_CardinalityType
<1>8. /\ IsFiniteSet(inner) /\ Cardinality(inner) \in Nat
      /\ Cardinality(inner) <= Cardinality(outer)
      /\ Cardinality(outer) = Cardinality(inner) => outer = inner
  BY <1>5, <1>7, FS_Subset, FS_CardinalityType
<1>9. Cardinality(inner) < Cardinality(outer)
  BY <1>6, <1>7, <1>8
<1> QED
  BY <1>9 DEF inner, outer, u

-----------------------------------------------------------------------------
(* Joining two components of a forest leaves every edge a cut.             *)
LEMMA TreeGrows ==
    ASSUME NEW N, NEW D, NEW from, NEW to, IsTree(N, D, from, to), NEW e,
           from[e] \in N, to[e] \in N, e \notin D,
           NEW root, \A c \in D : root[from[c]] = root[to[c]], root[from[e]] # root[to[e]]
    PROVE  IsTree(N, D \cup {e}, from, to)
<1> DEFINE A(z) == {y \in N : root[y] = root[z]}
<1>1. \A z : A(z) \in SUBSET N /\ Keeps(A(z), D, from, to)
  BY DEF Keeps, IsTree
<1>2. ASSUME NEW c \in D
      PROVE  \E S \in SUBSET N :
                 Keeps(S, (D \cup {e}) \ {c}, from, to) /\ from[c] \in S /\ to[c] \notin S
  <2>1. PICK S \in SUBSET N : Keeps(S, D \ {c}, from, to) /\ from[c] \in S /\ to[c] \notin S
    BY DEF IsTree
  <2>2. CASE from[e] \in S <=> to[e] \in S
    BY <2>1, <2>2 DEF Keeps
  <2>3. CASE ~(from[e] \in S <=> to[e] \in S)
    <3>1. PICK z \in {from[e], to[e]} : root[z] # root[from[c]]
      OBVIOUS
    <3> DEFINE T == IF z \in S THEN S \ A(z) ELSE S \cup A(z)
    <3>2. from[c] \notin A(z) /\ to[c] \notin A(z)
      BY <3>1
    <3>3. T \in SUBSET N /\ from[c] \in T /\ to[c] \notin T
      BY <2>1, <3>2
    <3>4. \A y : y \in T <=> IF z \in S THEN y \in S /\ y \notin A(z) ELSE y \in S \/ y \in A(z)
      OBVIOUS
    <3>5. from[e] \in A(z) <=> z = from[e]
      BY <3>1
    <3>6. to[e] \in A(z) <=> z = to[e]
      BY <3>1
    <3> HIDE DEF A, T
    <3>7. ASSUME NEW d \in D, d # c PROVE from[d] \in T <=> to[d] \in T
      <4>1. from[d] \in S <=> to[d] \in S
        BY <2>1, <3>7 DEF Keeps
      <4>2. from[d] \in A(z) <=> to[d] \in A(z)
        BY <1>1 DEF Keeps
      <4> QED
        BY <3>4, <4>1, <4>2
    <3>8. from[e] \in T <=> to[e] \in T
      <4>1. from[e] # to[e]
        OBVIOUS
      <4> QED
        BY <2>3, <3>1, <3>4, <3>5, <3>6, <4>1
    <3>9. Keeps(T, (D \cup {e}) \ {c}, from, to)
      BY <3>7, <3>8 DEF Keeps
    <3> QED
      BY <3>3, <3>9
  <2> QED
    BY <2>2, <2>3
<1>3. \E S \in SUBSET N : Keeps(S, (D \cup {e}) \ {e}, from, to) /\ from[e] \in S /\ to[e] \notin S
  <2>1. from[e] \in A(from[e]) /\ to[e] \notin A(from[e])
    OBVIOUS
  <2>2. (D \cup {e}) \ {e} = D
    OBVIOUS
  <2> HIDE DEF A
  <2> QED
    BY <1>1, <2>1, <2>2
<1>4. \A c \in D \cup {e} : from[c] \in N /\ to[c] \in N
  BY DEF IsTree
<1> QED
  BY <1>2, <1>3, <1>4 DEF IsTree

(* A sum of numbers of which at most one is 1 and the others are 0.        *)
LEMMA SumOfIndicators ==
    ASSUME NEW E, IsFiniteSet(E), NEW incoming, NEW x, \A e \in E : incoming[e][x] \in {0, 1},
           \A c, d \in E : incoming[c][x] = 1 /\ incoming[d][x] = 1 => c = d
    PROVE  Ext!MapThenSumSet(LAMBDA e : incoming[e][x], E) =
               IF \E e \in E : incoming[e][x] = 1 THEN 1 ELSE 0
<1> DEFINE one(T) == CHOOSE c \in T : TRUE
           Step(f) == [T \in SUBSET E |->
                           IF T = {} THEN 0 ELSE incoming[one(T)][x] + f[T \ {one(T)}]]
           iter == CHOOSE f : f = Step(f)
           has(T) == IF \E e \in T : incoming[e][x] = 1 THEN 1 ELSE 0
           closed == [T \in SUBSET E |-> has(T)]
<1>1. Ext!MapThenSumSet(LAMBDA e : incoming[e][x], E) = iter[E]
  BY DEF Ext!MapThenSumSet, Ext!MapThenFoldSet
<1>2. \A T \in SUBSET E : T # {} => one(T) \in T
  OBVIOUS
<1> HIDE DEF one
<1>3. ASSUME NEW T \in SUBSET E, T # {}
      PROVE  has(T) = incoming[one(T)][x] + has(T \ {one(T)})
  <2>1. one(T) \in T /\ incoming[one(T)][x] \in {0, 1}
    BY <1>2, <1>3
  <2>2. CASE incoming[one(T)][x] = 1
    <3>1. \A e \in T \ {one(T)} : incoming[e][x] # 1
      BY <2>1, <2>2
    <3> QED
      BY <2>1, <2>2, <3>1
  <2>3. CASE incoming[one(T)][x] = 0
    BY <2>1, <2>3
  <2> QED
    BY <2>1, <2>2, <2>3
<1> HIDE DEF has
<1>4. closed = Step(closed)
  <2>1. has({}) = 0
    BY DEF has
  <2>2. ASSUME NEW T \in SUBSET E
        PROVE  closed[T] = IF T = {} THEN 0 ELSE incoming[one(T)][x] + closed[T \ {one(T)}]
    BY <1>3, <2>1
  <2> HIDE DEF closed
  <2>3. closed = [T \in SUBSET E |-> closed[T]]
    BY DEF closed
  <2> QED
    BY <2>2, <2>3
<1>5. iter = Step(iter)
  <2> HIDE DEF Step
  <2> QED
    BY <1>4
<1> HIDE DEF iter
<1>6. \A T \in SUBSET E : iter[T] = IF T = {} THEN 0 ELSE incoming[one(T)][x] + iter[T \ {one(T)}]
  BY <1>5
<1> DEFINE odd == {n \in Nat : \E T \in SUBSET E : Cardinality(T) = n /\ iter[T] # has(T)}
<1>7. odd = {}
  <2> SUFFICES ASSUME odd # {} PROVE FALSE
    OBVIOUS
  <2>1. PICK n \in odd : \A k \in odd : n <= k
    BY SmallestNumber
  <2>2. PICK T \in SUBSET E : Cardinality(T) = n /\ iter[T] # has(T)
    BY <2>1
  <2>3. T # {}
    BY <1>6, <2>2 DEF has
  <2> DEFINE U == T \ {one(T)}
  <2>4. one(T) \in T /\ U \in SUBSET E
    BY <1>2, <2>3
  <2>5. IsFiniteSet(T) /\ n \in Nat
    BY <2>2, FS_Subset, FS_CardinalityType
  <2>6. Cardinality(U) = n - 1 /\ IsFiniteSet(U)
    BY <2>2, <2>4, <2>5, FS_RemoveElement
  <2>7. Cardinality(U) \in Nat
    BY <2>6, FS_CardinalityType
  <2>8. iter[U] # has(U)
    BY <1>3, <1>6, <2>2, <2>3
  <2> HIDE DEF U
  <2>9. n - 1 \in odd
    BY <2>4, <2>6, <2>7, <2>8
  <2> HIDE DEF odd
  <2>10. n <= n - 1
    BY <2>1, <2>9
  <2> QED
    BY <2>5, <2>10
<1>8. iter[E] = has(E)
  <2>1. Cardinality(E) \in Nat
    BY FS_CardinalityType
  <2> QED
    BY <1>7, <2>1
<1> QED
  BY <1>1, <1>8 DEF has

-----------------------------------------------------------------------------
(***************************************************************************)
(* Messages on a tree.                                                     *)
(***************************************************************************)

(* A message counts nothing twice, and nothing but what is in R; when it   *)
(* is full, all that is there.                                             *)
Carries(N, R, message, full) ==
    \A y \in N : /\ message[y] \in {0, 1}
                 /\ message[y] = 1 => y \in R
                 /\ full /\ y \in R => message[y] = 1

(* What node w makes of the messages over its edges but X carries all that *)
(* is reached from it without X.                                           *)
LEMMA SumCarries ==
    ASSUME NEW D, IsFiniteSet(D), NEW from, NEW to, IsTree(Node, D, from, to), NEW w \in Node,
           NEW X, AtMostOneAt(X, D, from, to, w), NEW incoming, NEW full \in BOOLEAN,
           \A o \in EdgesAt(D, from, to, w) \ X :
               Carries(Node, Behind(Node, D, from, to, o, w), incoming[o], full)
    PROVE  Carries(Node, Reach(Node, D \ X, from, to, w),
                   SumOf(w, incoming, EdgesAt(D, from, to, w) \ X), full)
<1> DEFINE E == EdgesAt(D, from, to, w) \ X
           B(o) == Behind(Node, D, from, to, o, w)
           R == Reach(Node, D \ X, from, to, w)
           u(o) == OtherEnd(from, to, o, w)
<1>1. IsFiniteSet(E)
  <2>1. E \in SUBSET D
    BY DEF EdgesAt
  <2> QED
    BY <2>1, FS_Subset
<1>2. \A c, d \in E : c # d => B(c) \cap B(d) = {}
  BY BehindApart
<1>3. \A o \in E : w \notin B(o)
  <2> SUFFICES ASSUME NEW o \in E PROVE w \notin B(o)
    OBVIOUS
  <2>1. LiesBehind(Node, D, from, to, o, w, u(o), B(o))
    BY BehindIs
  <2> HIDE DEF B, u
  <2> QED
    BY <2>1 DEF LiesBehind
<1>4. \A y : y \in R <=> y = w \/ \E o \in E : y \in B(o)
  BY ReachIsBehind
<1>5. \A o \in E : Carries(Node, B(o), incoming[o], full)
  OBVIOUS
<1>6. SumOf(w, incoming, E) =
          [x \in Node |-> (IF x = w THEN 1 ELSE 0)
                             + Ext!MapThenSumSet(LAMBDA e : incoming[e][x], E)]
  BY DEF SumOf
<1> HIDE DEF E, B, R, u
<1>7. ASSUME NEW x \in Node
      PROVE  SumOf(w, incoming, E)[x] =
                 (IF x = w THEN 1 ELSE 0) + (IF \E e \in E : incoming[e][x] = 1 THEN 1 ELSE 0)
  <2>1. \A e \in E : incoming[e][x] \in {0, 1} /\ (incoming[e][x] = 1 => x \in B(e))
    BY <1>5 DEF Carries
  <2>2. \A c, d \in E : incoming[c][x] = 1 /\ incoming[d][x] = 1 => c = d
    BY <1>2, <2>1
  <2>3. Ext!MapThenSumSet(LAMBDA e : incoming[e][x], E) =
            IF \E e \in E : incoming[e][x] = 1 THEN 1 ELSE 0
    BY <1>1, <2>1, <2>2, SumOfIndicators
  <2> QED
    BY <1>6, <2>3
<1>8. ASSUME NEW x \in Node
      PROVE  /\ SumOf(w, incoming, E)[x] \in {0, 1}
             /\ SumOf(w, incoming, E)[x] = 1 => x \in R
             /\ full /\ x \in R => SumOf(w, incoming, E)[x] = 1
  <2>1. CASE x = w
    <3>1. \A e \in E : incoming[e][x] # 1
      BY <1>3, <1>5, <2>1 DEF Carries
    <3> QED
      BY <1>4, <1>7, <2>1, <3>1
  <2>2. CASE x # w
    <3>1. SumOf(w, incoming, E)[x] = IF \E e \in E : incoming[e][x] = 1 THEN 1 ELSE 0
      BY <1>7, <2>2
    <3>2. \A e \in E : /\ incoming[e][x] = 1 => x \in B(e)
                       /\ full /\ x \in B(e) => incoming[e][x] = 1
      BY <1>5 DEF Carries
    <3> QED
      BY <1>4, <2>2, <3>1, <3>2
  <2> QED
    BY <2>1, <2>2
<1>9. Carries(Node, R, SumOf(w, incoming, E), full)
  BY <1>8 DEF Carries
<1> QED
  BY <1>9 DEF E, R

(* A set of numbers with a bound has a greatest one.                       *)
LEMMA LargestNumber ==
    ASSUME NEW S \in SUBSET Nat, S # {}, NEW bound \in Nat, \A n \in S : n <= bound
    PROVE  Greatest(S) \in S /\ \A n \in S : n <= Greatest(S)
<1> DEFINE above == {u \in Nat : \A n \in S : n <= u}
<1>1. above \in SUBSET Nat /\ bound \in above
  OBVIOUS
<1>2. PICK m \in above : \A u \in above : m <= u
  <2> HIDE DEF above
  <2> QED
    BY <1>1, SmallestNumber
<1>3. m \in Nat /\ \A n \in S : n <= m
  OBVIOUS
<1>4. m \in S
  <2> SUFFICES ASSUME m \notin S PROVE FALSE
    OBVIOUS
  <2>1. \A n \in S : n <= m - 1
    BY <1>3
  <2>2. m - 1 \in Nat
    <3>1. PICK n \in S : n \in Nat
      OBVIOUS
    <3> QED
      BY <1>3, <2>1, <3>1
  <2>3. m - 1 \in above
    BY <2>1, <2>2
  <2> QED
    BY <1>2, <1>3, <2>3
<1> QED
  BY <1>3, <1>4 DEF Greatest

(* K is the pairs that the edges of D join.                                *)
PairsOf(K, D, from, to) ==
    /\ \A e \in D : <<from[e], to[e]>> \in K
    /\ \A pair \in K : \E e \in D : pair = <<from[e], to[e]>>

(* What is reached from a node is its component.                           *)
LEMMA ReachIsComponent ==
    ASSUME NEW N, NEW D, NEW from, NEW to, NEW K, NEW root, NEW v, v \in N,
           root \in [N -> N], Joins(N, K, root), PairsOf(K, D, from, to)
    PROVE  Reach(N, D, from, to, v) = Below(N, root, v)
<1> DEFINE R == Reach(N, D, from, to, v)
           C == Below(N, root, v)
<1>1. \A e \in D : from[e] \in N /\ to[e] \in N /\ root[from[e]] = root[to[e]]
  <2> SUFFICES ASSUME NEW e \in D
               PROVE  from[e] \in N /\ to[e] \in N /\ root[from[e]] = root[to[e]]
    OBVIOUS
  <2>1. <<from[e], to[e]>> \in K
    BY DEF PairsOf
  <2> QED
    BY <2>1 DEF Joins
<1>2. /\ R \in SUBSET N /\ v \in R /\ Keeps(R, D, from, to)
      /\ \A S \in SUBSET N : v \in S /\ Keeps(S, D, from, to) => R \subseteq S
  BY <1>1, ReachIsLeast
<1>3. C \in SUBSET N /\ v \in C /\ Keeps(C, D, from, to)
  BY <1>1 DEF Below, Keeps
<1> HIDE DEF R
<1>4. NoneLeaves(R, K)
  BY <1>2 DEF NoneLeaves, Keeps, PairsOf
<1>5. \A x \in N : x \in R <=> root[x] \in R
  BY <1>2, <1>4 DEF Joins
<1>6. C \subseteq R
  BY <1>2, <1>5 DEF Below
<1>7. R \subseteq C
  BY <1>2, <1>3
<1> QED
  BY <1>6, <1>7 DEF R

-----------------------------------------------------------------------------
(***************************************************************************)
(* The passes of a batch.                                                  *)
(***************************************************************************)
From == [e \in DOMAIN edges |-> edges[e].variable]
To == [e \in DOMAIN edges |-> FactorNode(edges[e].factor)]

(* Without a cycle the edges united make a tree in every component.        *)
TreeHolds == Graphing /\ acyclic => IsTree(Node, United, From, To)

(* How many edges there are on the side of w of edge e.                    *)
Depth(N, D, from, to, e, w) == Cardinality(Within(N, D, from, to, {e}, w))

(* The messages out of the ends of the edges tell nothing but what lies on *)
(* that side, and all of it after more passes than there are edges.        *)
Informed(N, D, from, to, out, message, passes) ==
    \A e \in D : Carries(N, Reach(N, D \ {e}, from, to, out[e]), message[e],
                         Depth(N, D, from, to, e, out[e]) < passes)

EdgesOver(N, D, from, par, x) == {e \in D : EndsIn(N, par)[from[e]] = x}

LimitOver(N, D, from, par, l) ==
    l \in Nat /\ \A x \in N : Cardinality(EdgesOver(N, D, from, par, x)) < l

MessagesHold ==
    /\ Informed(Node, DOMAIN edges, From, To, From, variable_to_factor, completed)
    /\ Informed(Node, DOMAIN edges, From, To, To, factor_to_variable, completed)

PassesHold ==
    /\ phase \in {"gating", "factors", "uniting"} => completed = 0
    /\ phase = "uniting" =>
           /\ variable_to_factor = [e \in DOMAIN edges |-> Nothing]
           /\ factor_to_variable = [e \in DOMAIN edges |-> Nothing]
    /\ phase \in {"passing", "deciding"} /\ acyclic =>
           /\ completed \in Nat /\ MessagesHold
           /\ LimitOver(Node, DOMAIN edges, From, parent, limit)
    /\ phase = "deciding" =>
           /\ stopping_reason = "Exact" <=> acyclic
           /\ acyclic => limit <= completed

ExactInv == TopologyInv /\ TreeHolds /\ PassesHold

(* Edges join a variable and a factor.                                     *)
LEMMA EndsOfEdges ==
    ASSUME TopologyInv, Graphing
    PROVE  /\ IsFiniteSet(Node) /\ IsFiniteSet(DOMAIN edges)
           /\ \A e \in DOMAIN edges :
                  /\ From[e] \in 1..batch /\ To[e] \notin 1..batch
                  /\ From[e] \in Node /\ To[e] \in Node
                  /\ From[e] = edges[e].variable /\ To[e] = FactorNode(edges[e].factor)
           /\ \A c, d \in DOMAIN edges : To[c] = To[d] <=> edges[c].factor = edges[d].factor
<1>1. /\ IsFiniteSet(Node) /\ edges \in Seq(Edge) /\ Len(edges) \in Nat
      /\ DOMAIN edges = 1..Len(edges)
      /\ \A e \in DOMAIN edges :
             edges[e].variable \in Node /\ FactorNode(edges[e].factor) \in Node
  BY GraphIs DEF TopologyInv
<1>2. phase # "idle" /\ batch \in Nat
  BY BatchFits DEF TopologyInv, GatingInv, GatingTypeOK, Graphing
<1>3. /\ factors \in Seq(Table) /\ \A f \in DOMAIN factors : TableAccepted(factors[f])
      /\ edges = EdgesOf(factors) /\ \A e \in DOMAIN edges : edges[e].variable \in 1..batch
  BY <1>2 DEF TopologyInv, GraphTypeOK
<1>4. \A e \in DOMAIN edges : edges[e].factor \in DOMAIN factors
  BY <1>3, EdgesListed
<1>5. \A f \in DOMAIN factors : f \in Nat /\ f >= 1
  BY <1>3
<1>6. \A e \in DOMAIN edges : FactorNode(edges[e].factor) \notin 1..batch
  BY <1>2, <1>4, <1>5 DEF FactorNode
<1>7. \A c, d \in DOMAIN edges :
          FactorNode(edges[c].factor) = FactorNode(edges[d].factor)
              <=> edges[c].factor = edges[d].factor
  BY <1>2, <1>4, <1>5 DEF FactorNode
<1>8. IsFiniteSet(DOMAIN edges)
  BY <1>1, FS_Interval
<1> QED
  BY <1>1, <1>3, <1>6, <1>7, <1>8 DEF From, To

(* The edges over which a message comes in.                                *)
LEMMA EdgesAtEnds ==
    ASSUME TopologyInv, Graphing
    PROVE  /\ \A v \in 1..batch :
                  /\ EdgesAt(DOMAIN edges, From, To, v)
                         = {o \in DOMAIN edges : edges[o].variable = v}
                  /\ \A o \in EdgesAt(DOMAIN edges, From, To, v) : OtherEnd(From, To, o, v) = To[o]
           /\ \A e \in DOMAIN edges :
                  /\ EdgesAt(DOMAIN edges, From, To, To[e])
                         = {o \in DOMAIN edges : edges[o].factor = edges[e].factor}
                  /\ \A o \in EdgesAt(DOMAIN edges, From, To, To[e]) :
                         OtherEnd(From, To, o, To[e]) = From[o]
           /\ \A e \in DOMAIN edges :
                  /\ Others("variable", e) = EdgesAt(DOMAIN edges, From, To, From[e]) \ {e}
                  /\ Others("factor", e) = EdgesAt(DOMAIN edges, From, To, To[e]) \ {e}
                  /\ AtMostOneAt({e}, DOMAIN edges, From, To, From[e])
                  /\ AtMostOneAt({e}, DOMAIN edges, From, To, To[e])
<1>1. /\ \A e \in DOMAIN edges :
             /\ From[e] \in 1..batch /\ To[e] \notin 1..batch
             /\ From[e] = edges[e].variable
      /\ \A c, d \in DOMAIN edges : To[c] = To[d] <=> edges[c].factor = edges[d].factor
  BY EndsOfEdges
<1>2. ASSUME NEW v \in 1..batch
      PROVE  /\ EdgesAt(DOMAIN edges, From, To, v) = {o \in DOMAIN edges : edges[o].variable = v}
             /\ \A o \in EdgesAt(DOMAIN edges, From, To, v) : OtherEnd(From, To, o, v) = To[o]
  BY <1>1 DEF EdgesAt, OtherEnd
<1>3. ASSUME NEW e \in DOMAIN edges
      PROVE  /\ EdgesAt(DOMAIN edges, From, To, To[e])
                    = {o \in DOMAIN edges : edges[o].factor = edges[e].factor}
             /\ \A o \in EdgesAt(DOMAIN edges, From, To, To[e]) :
                    OtherEnd(From, To, o, To[e]) = From[o]
  BY <1>1 DEF EdgesAt, OtherEnd
<1>4. ASSUME NEW e \in DOMAIN edges
      PROVE  /\ Others("variable", e) = EdgesAt(DOMAIN edges, From, To, From[e]) \ {e}
             /\ Others("factor", e) = EdgesAt(DOMAIN edges, From, To, To[e]) \ {e}
  <2>1. /\ Others("variable", e)
               = {o \in DOMAIN edges : o # e /\ edges[o].variable = edges[e].variable}
        /\ Others("factor", e)
               = {o \in DOMAIN edges : o # e /\ edges[o].factor = edges[e].factor}
    BY DEF Others
  <2> QED
    BY <1>1, <1>2, <1>3, <2>1
<1>5. \A e \in DOMAIN edges :
          /\ AtMostOneAt({e}, DOMAIN edges, From, To, From[e])
          /\ AtMostOneAt({e}, DOMAIN edges, From, To, To[e])
  BY DEF AtMostOneAt, EdgesAt
<1> QED
  BY <1>2, <1>3, <1>4, <1>5

(* What is reached over all edges has the same root.                       *)
LEMMA ReachIsBelow ==
    ASSUME TopologyInv, Graphing, United = DOMAIN edges, NEW v, v \in Node
    PROVE  Reach(Node, DOMAIN edges, From, To, v) = Below(Node, EndsIn(Node, parent), v)
<1>1. PairsOf(Pairs(DOMAIN edges), DOMAIN edges, From, To)
  BY EndsOfEdges DEF Pairs, PairsOf
<1>2. /\ EndsIn(Node, parent) \in [Node -> Node]
      /\ Joins(Node, Pairs(DOMAIN edges), EndsIn(Node, parent))
  BY DEF TopologyInv, UnionHolds, Unified, IsForest
<1> QED
  BY <1>1, <1>2, ReachIsComponent

(* Uniting keeps every edge a cut as long as it meets no cycle.            *)
LEMMA UniteGrows ==
    ASSUME ExactInv, Unite
    PROVE  TreeHolds'
<1>1. /\ phase = "uniting" /\ phase' = "uniting" /\ cursor \in DOMAIN edges /\ cursor' = cursor + 1
      /\ edges' = edges /\ factors' = factors /\ batch' = batch
      /\ acyclic' = TRUE =>
             acyclic = TRUE /\ Root(edges[cursor].variable) # Root(FactorNode(edges[cursor].factor))
  BY DEF Unite, buffers, gating
<1>2. Node' = Node /\ From' = From /\ To' = To
  BY <1>1 DEF Node, From, To, FactorNode
<1>3. /\ \A e \in DOMAIN edges : From[e] \in Node /\ To[e] \in Node
      /\ \A e \in DOMAIN edges : From[e] = edges[e].variable /\ To[e] = FactorNode(edges[e].factor)
  BY <1>1, EndsOfEdges DEF ExactInv, Graphing
<1>6. United' = United \cup {cursor} /\ cursor \notin United /\ United \subseteq DOMAIN edges
  BY UnitedGrows DEF ExactInv
<1>7. ASSUME acyclic' = TRUE PROVE IsTree(Node, United \cup {cursor}, From, To)
  <2> DEFINE root == EndsIn(Node, parent)
  <2>1. IsTree(Node, United, From, To)
    BY <1>1, <1>7 DEF ExactInv, TreeHolds, Graphing
  <2>2. root[From[cursor]] # root[To[cursor]]
    BY <1>1, <1>3, <1>7, RootsAreEnds
  <2>3. \A e \in United : root[From[e]] = root[To[e]]
    <3>1. \A pair \in Pairs(United) : root[pair[1]] = root[pair[2]]
      BY <1>1 DEF ExactInv, TopologyInv, UnionHolds, Graphing, Unified, Joins
    <3>3. \A e \in United : <<From[e], To[e]>> \in Pairs(United)
      BY <1>3, <1>6 DEF Pairs
    <3> HIDE DEF root
    <3> QED
      BY <3>1, <3>3
  <2> HIDE DEF root
  <2> QED
    BY <1>1, <1>3, <1>6, <2>1, <2>2, <2>3, TreeGrows
<1> QED
  BY <1>2, <1>6, <1>7 DEF TreeHolds

(* Before the first edge there is nothing to cut.                          *)
LEMMA CompileGrows ==
    ASSUME ExactInv, Compile
    PROVE  TreeHolds' /\ PassesHold'
<1>1. /\ phase = "factors" /\ phase' = "uniting" /\ cursor' = 1
      /\ factors' = factors /\ batch' = batch /\ completed' = completed
      /\ variable_to_factor' = [e \in DOMAIN edges' |-> Nothing]
      /\ factor_to_variable' = [e \in DOMAIN edges' |-> Nothing]
  BY DEF Compile, buffers, gating, schedule
<1>2. TopologyInv'
  <2>1. CollectiveNext
    BY DEF CollectiveNext
  <2> QED
    BY <2>1, TopologySteps DEF ExactInv
<1>3. edges' \in Seq(Edge)
  BY <1>1, EdgesListed DEF Compile, ExactInv, TopologyInv, GraphTypeOK
<1>4. United' = {}
  BY <1>1, <1>3 DEF United
<1>5. TreeHolds'
  BY <1>4 DEF TreeHolds, IsTree
<1>6. Nothing' = Nothing
  BY <1>1 DEF Nothing, Node
<1>7. completed = 0
  BY <1>1 DEF ExactInv, PassesHold
<1> QED
  BY <1>1, <1>5, <1>6, <1>7 DEF PassesHold

(* No component has as many edges as there are passes.                     *)
LEMMA LimitIs ==
    ASSUME ExactInv, SetLimit
    PROVE  acyclic => LimitOver(Node, DOMAIN edges, From, parent, limit')
<1> SUFFICES ASSUME acyclic PROVE LimitOver(Node, DOMAIN edges, From, parent, limit')
  OBVIOUS
<1>1. phase = "uniting" /\ limit' = Largest + 1
  BY DEF SetLimit
<1>2. /\ Len(edges) \in Nat /\ DOMAIN edges = 1..Len(edges)
      /\ \A e \in DOMAIN edges : From[e] = edges[e].variable
  BY <1>1, GraphIs, EndsOfEdges DEF ExactInv, TopologyInv, Graphing
<1>3. \A x : EdgesBelow(x) = EdgesOver(Node, DOMAIN edges, From, parent, x)
  BY <1>2, RootsAreEnds DEF EdgesBelow, EdgesOver
<1> DEFINE S == {0} \cup {Cardinality(EdgesBelow(x)) : x \in Node}
<1>4. \A x : Cardinality(EdgesBelow(x)) \in Nat /\ Cardinality(EdgesBelow(x)) <= Len(edges)
  <2>1. IsFiniteSet(1..Len(edges)) /\ Cardinality(1..Len(edges)) = Len(edges)
    <3> DEFINE n == Len(edges)
    <3>1. n \in Nat
      BY <1>2
    <3> HIDE DEF n
    <3>2. IsFiniteSet(1..n) /\ Cardinality(1..n) = n
      BY <3>1, FS_Interval
    <3> QED
      BY <3>2 DEF n
  <2>2. \A x : EdgesBelow(x) \subseteq 1..Len(edges)
    BY <1>2 DEF EdgesBelow
  <2> QED
    BY <2>1, <2>2, FS_Subset, FS_CardinalityType
<1>5. S \in SUBSET Nat /\ S # {} /\ \A n \in S : n <= Len(edges)
  BY <1>2, <1>4
<1>6. Greatest(S) \in S /\ \A n \in S : n <= Greatest(S)
  <2> HIDE DEF S
  <2> QED
    BY <1>2, <1>5, LargestNumber
<1>7. Largest = Greatest(S)
  BY DEF Largest
<1>8. Largest \in Nat /\ \A x \in Node : Cardinality(EdgesBelow(x)) <= Largest
  BY <1>5, <1>6, <1>7
<1>9. limit' \in Nat /\ \A x \in Node : Cardinality(EdgesBelow(x)) < limit'
  BY <1>1, <1>4, <1>8
<1> QED
  BY <1>3, <1>9 DEF LimitOver

(* Before the first pass nothing is told.                                  *)
LEMMA LimitStarts ==
    ASSUME ExactInv, SetLimit
    PROVE  TreeHolds' /\ PassesHold'
<1>1. /\ phase = "uniting" /\ phase' = "passing" /\ cursor \notin DOMAIN edges
      /\ edges' = edges /\ factors' = factors /\ batch' = batch /\ acyclic' = acyclic
      /\ parent' = Compressed({edges[e].variable : e \in DOMAIN edges})
      /\ variable_to_factor' = variable_to_factor /\ factor_to_variable' = factor_to_variable
      /\ completed' = completed
  BY DEF SetLimit, buffers, gating, messages
<1>2. Node' = Node /\ From' = From /\ To' = To
  BY <1>1 DEF Node, From, To, FactorNode
<1>4. United = DOMAIN edges /\ United' = DOMAIN edges
  BY AllUnited DEF ExactInv
<1>5. TreeHolds'
  BY <1>1, <1>2, <1>4 DEF ExactInv, TreeHolds, Graphing
<1>6. /\ completed = 0 /\ variable_to_factor = [e \in DOMAIN edges |-> Nothing]
      /\ factor_to_variable = [e \in DOMAIN edges |-> Nothing]
  BY <1>1 DEF ExactInv, PassesHold
<1>7. ASSUME NEW out
      PROVE  Informed(Node, DOMAIN edges, From, To, out, [e \in DOMAIN edges |-> Nothing], 0)
  <2> SUFFICES ASSUME NEW e \in DOMAIN edges
               PROVE  Carries(Node, Reach(Node, DOMAIN edges \ {e}, From, To, out[e]), Nothing,
                              Depth(Node, DOMAIN edges, From, To, e, out[e]) < 0)
    BY DEF Informed
  <2>1. IsFiniteSet(Within(Node, DOMAIN edges, From, To, {e}, out[e]))
    <3>1. Within(Node, DOMAIN edges, From, To, {e}, out[e]) \subseteq DOMAIN edges
      BY DEF Within
    <3>2. IsFiniteSet(DOMAIN edges)
      BY <1>1, EndsOfEdges DEF ExactInv, Graphing
    <3> QED
      BY <3>1, <3>2, FS_Subset
  <2>2. ~(Depth(Node, DOMAIN edges, From, To, e, out[e]) < 0)
    BY <2>1, FS_CardinalityType DEF Depth
  <2>3. \A y \in Node : Nothing[y] = 0
    BY DEF Nothing
  <2> QED
    BY <2>2, <2>3 DEF Carries
<1>8. EndsIn(Node, parent') = EndsIn(Node, parent)
  <2>1. Unified(Node, Pairs(United), parent, size, acyclic)
    BY <1>1 DEF ExactInv, TopologyInv, UnionHolds, Graphing
  <2>2. \E M : parent' = Hung(Node, parent, M)
    BY <1>1, RootsAreEnds
  <2> QED
    BY <2>1, <2>2, UnifiedCompressed
<1>9. acyclic => LimitOver(Node, DOMAIN edges, From, parent', limit')
  BY <1>8, LimitIs DEF LimitOver, EdgesOver
<1>10. MessagesHold'
  BY <1>1, <1>2, <1>6, <1>7 DEF MessagesHold
<1>11. PassesHold'
  BY <1>1, <1>2, <1>6, <1>9, <1>10 DEF PassesHold
<1> QED
  BY <1>5, <1>11

(* A pass brings every message from one edge further.                      *)
LEMMA PassInforms ==
    ASSUME TopologyInv, Graphing, IsTree(Node, DOMAIN edges, From, To), NEW e \in DOMAIN edges,
           NEW out, NEW in, NEW incoming, NEW k \in Nat, NEW l \in Nat, l <= k + 1,
           out[e] \in Node, AtMostOneAt({e}, DOMAIN edges, From, To, out[e]),
           \A o \in EdgesAt(DOMAIN edges, From, To, out[e]) \ {e} :
               OtherEnd(From, To, o, out[e]) = in[o],
           Informed(Node, DOMAIN edges, From, To, in, incoming, k)
    PROVE  Carries(Node, Reach(Node, DOMAIN edges \ {e}, From, To, out[e]),
                   SumOf(out[e], incoming, EdgesAt(DOMAIN edges, From, To, out[e]) \ {e}),
                   Depth(Node, DOMAIN edges, From, To, e, out[e]) < l)
<1> DEFINE D == DOMAIN edges
           w == out[e]
           depth(o, x) == Depth(Node, D, From, To, o, x)
           full == depth(e, w) < l
<1>1. IsFiniteSet(D)
  BY EndsOfEdges
<1>2. \A o, x : depth(o, x) \in Nat
  <2>1. \A o, x : Within(Node, D, From, To, {o}, x) \in SUBSET D
    BY DEF Within
  <2> HIDE DEF D
  <2> QED
    BY <1>1, <2>1, FS_Subset, FS_CardinalityType DEF Depth
<1>3. ASSUME NEW o \in EdgesAt(D, From, To, w) \ {e}
      PROVE  Carries(Node, Behind(Node, D, From, To, o, w), incoming[o], full)
  <2>1. OtherEnd(From, To, o, w) = in[o] /\ o \in D
    BY DEF EdgesAt
  <2>2. Carries(Node, Reach(Node, D \ {o}, From, To, in[o]), incoming[o], depth(o, in[o]) < k)
    BY <2>1 DEF Informed
  <2>3. Behind(Node, D, From, To, o, w) = Reach(Node, D \ {o}, From, To, in[o])
    BY <2>1 DEF Behind
  <2>4. depth(o, in[o]) < depth(e, w)
    BY <1>1, <2>1, LessBehind DEF Depth
  <2> HIDE DEF D, depth, w
  <2>5. full => depth(o, in[o]) < k
    BY <1>2, <2>4
  <2> QED
    BY <2>2, <2>3, <2>5 DEF Carries
<1>4. full \in BOOLEAN
  OBVIOUS
<1> HIDE DEF D, w, full
<1>5. Carries(Node, Reach(Node, D \ {e}, From, To, w),
              SumOf(w, incoming, EdgesAt(D, From, To, w) \ {e}), full)
  BY <1>1, <1>3, <1>4, SumCarries DEF D, w
<1> QED
  BY <1>5 DEF D, w, full

(* An iteration is a pass over the factors, then one over the variables.   *)
LEMMA IterateInforms ==
    ASSUME ExactInv, Iterate
    PROVE  TreeHolds' /\ PassesHold'
<1> DEFINE D == DOMAIN edges
<1>1. /\ phase = "passing" /\ phase' = "passing" /\ completed' = completed + 1
      /\ edges' = edges /\ factors' = factors /\ batch' = batch /\ acyclic' = acyclic
      /\ parent' = parent /\ limit' = limit
      /\ factor_to_variable' = FactorPass
      /\ variable_to_factor' = VariablePass(factor_to_variable')
  BY DEF Iterate, Passing, buffers, topology, gating
<1>2. Node' = Node /\ From' = From /\ To' = To /\ United = D /\ United' = D
  BY <1>1 DEF Node, From, To, FactorNode, United
<1>3. TreeHolds'
  BY <1>1, <1>2 DEF ExactInv, TreeHolds, Graphing
<1>4. ASSUME acyclic PROVE completed' \in Nat /\ MessagesHold'
  <2>1. /\ IsTree(Node, D, From, To) /\ TopologyInv /\ Graphing
        /\ completed \in Nat /\ Informed(Node, D, From, To, From, variable_to_factor, completed)
    BY <1>1, <1>2, <1>4 DEF ExactInv, TreeHolds, PassesHold, MessagesHold, Graphing
  <2>2. \A e \in D : /\ From[e] \in Node /\ To[e] \in Node
                     /\ From[e] \in 1..batch
                     /\ From[e] = edges[e].variable /\ To[e] = FactorNode(edges[e].factor)
    BY <2>1, EndsOfEdges
  <2>3. \A e \in D : /\ Others("variable", e) = EdgesAt(D, From, To, From[e]) \ {e}
                     /\ Others("factor", e) = EdgesAt(D, From, To, To[e]) \ {e}
                     /\ AtMostOneAt({e}, D, From, To, From[e])
                     /\ AtMostOneAt({e}, D, From, To, To[e])
                     /\ \A o \in EdgesAt(D, From, To, From[e]) :
                            OtherEnd(From, To, o, From[e]) = To[o]
                     /\ \A o \in EdgesAt(D, From, To, To[e]) :
                            OtherEnd(From, To, o, To[e]) = From[o]
    BY <2>1, <2>2, EdgesAtEnds
  <2>4. Informed(Node, D, From, To, To, factor_to_variable', completed + 1)
    <3> SUFFICES ASSUME NEW e \in D
                 PROVE  Carries(Node, Reach(Node, D \ {e}, From, To, To[e]), factor_to_variable'[e],
                                Depth(Node, D, From, To, e, To[e]) < completed + 1)
      BY DEF Informed
    <3>1. factor_to_variable'[e]
              = SumOf(To[e], variable_to_factor, EdgesAt(D, From, To, To[e]) \ {e})
      BY <1>1, <2>2, <2>3 DEF FactorPass
    <3>2. Carries(Node, Reach(Node, D \ {e}, From, To, To[e]),
                  SumOf(To[e], variable_to_factor, EdgesAt(D, From, To, To[e]) \ {e}),
                  Depth(Node, D, From, To, e, To[e]) < completed + 1)
      <4>1. completed + 1 \in Nat /\ completed + 1 <= completed + 1
        BY <2>1
      <4> QED
        BY <2>1, <2>2, <2>3, <4>1, PassInforms
    <3> QED
      BY <3>1, <3>2
  <2>5. Informed(Node, D, From, To, From, variable_to_factor', completed + 1)
    <3> SUFFICES ASSUME NEW e \in D
                 PROVE  Carries(Node, Reach(Node, D \ {e}, From, To, From[e]),
                                variable_to_factor'[e],
                                Depth(Node, D, From, To, e, From[e]) < completed + 1)
      BY DEF Informed
    <3>1. variable_to_factor'[e]
              = SumOf(From[e], factor_to_variable', EdgesAt(D, From, To, From[e]) \ {e})
      BY <1>1, <2>2, <2>3 DEF VariablePass
    <3>2. completed + 1 \in Nat /\ completed + 1 <= completed + 1 + 1
      BY <2>1
    <3>3. Carries(Node, Reach(Node, D \ {e}, From, To, From[e]),
                  SumOf(From[e], factor_to_variable', EdgesAt(D, From, To, From[e]) \ {e}),
                  Depth(Node, D, From, To, e, From[e]) < completed + 1)
      BY <2>1, <2>2, <2>3, <2>4, <3>2, PassInforms
    <3> QED
      BY <3>1, <3>3
  <2> QED
    BY <1>1, <1>2, <2>1, <2>4, <2>5 DEF MessagesHold
<1>5. PassesHold'
  BY <1>1, <1>2, <1>4 DEF ExactInv, PassesHold
<1> QED
  BY <1>3, <1>5

(* An answer is called exact when there is no cycle.                       *)
LEMMA CollectStops ==
    ASSUME ExactInv, Collect
    PROVE  TreeHolds' /\ PassesHold'
<1>1. /\ phase = "passing" /\ phase' = "deciding" /\ ~Passing
      /\ edges' = edges /\ factors' = factors /\ batch' = batch /\ acyclic' = acyclic
      /\ parent' = parent /\ limit' = limit /\ completed' = completed
      /\ variable_to_factor' = variable_to_factor /\ factor_to_variable' = factor_to_variable
      /\ stopping_reason' =
             IF acyclic THEN "Exact" ELSE IF converged THEN "Converged" ELSE "IterationLimit"
  BY DEF Collect, buffers, topology, messages, gating
<1>2. Node' = Node /\ From' = From /\ To' = To /\ United' = United
  BY <1>1 DEF Node, From, To, FactorNode, United
<1>3. TreeHolds'
  BY <1>1, <1>2 DEF ExactInv, TreeHolds, Graphing
<1>4. /\ acyclic => completed \in Nat /\ MessagesHold
      /\ acyclic => LimitOver(Node, DOMAIN edges, From, parent, limit)
  BY <1>1 DEF ExactInv, PassesHold
<1>5. acyclic => limit <= completed
  <2>1. acyclic => ~(completed < limit)
    BY <1>1 DEF Passing
  <2>2. acyclic => completed \in Nat /\ limit \in Nat
    BY <1>4 DEF LimitOver
  <2> QED
    BY <2>1, <2>2
<1>6. acyclic => MessagesHold'
  BY <1>1, <1>2, <1>4 DEF MessagesHold
<1>7. acyclic' \in BOOLEAN
  BY <1>1 DEF ExactInv, TopologyInv, UnionHolds, Graphing, Unified
<1>8. stopping_reason' = "Exact" <=> acyclic'
  BY <1>1
<1> QED
  BY <1>1, <1>2, <1>3, <1>4, <1>5, <1>6, <1>8 DEF PassesHold

(* The other steps pass no message.                                        *)
LEMMA RestStays ==
    ASSUME ExactInv,
           \/ \E n \in BatchLength, k \in Providers : Begin(n, k)
           \/ \E group \in Proposable(batch) : GenerateCandidates(group)
           \/ ProviderReturns \/ ProviderFails
           \/ Aggregate \/ AggregateOverflows \/ Gated
           \/ \E table \in Emittable(batch) : EmitFactor(table)
           \/ EmitFails \/ CompileFails \/ SolverFails
    PROVE  TreeHolds' /\ PassesHold'
<1>1. /\ phase' \in {"idle", "gating", "factors"}
      /\ \/ phase' = "idle"
         \/ completed' = 0
         \/ phase \in {"gating", "factors"} /\ completed' = completed
  BY DEF Begin, SolverCleared, GenerateCandidates, Generating, ProviderReturns, ProviderFails, Fail,
     Aggregate, AggregateOverflows, Aggregating, Gated, EmitFactor, EmitFails, CompileFails,
     SolverFails, schedule
<1> QED
  BY <1>1 DEF ExactInv, TreeHolds, PassesHold, Graphing

(* Nor does uniting an edge.                                               *)
LEMMA UniteStays ==
    ASSUME ExactInv, Unite
    PROVE  PassesHold'
<1>1. /\ phase = "uniting" /\ phase' = "uniting" /\ completed' = completed
      /\ variable_to_factor' = variable_to_factor /\ factor_to_variable' = factor_to_variable
      /\ edges' = edges /\ factors' = factors /\ batch' = batch
  BY DEF Unite, buffers, messages, schedule, gating
<1>2. Nothing' = Nothing
  BY <1>1 DEF Nothing, Node
<1> QED
  BY <1>1, <1>2 DEF ExactInv, PassesHold

(* Nor does a decision.                                                    *)
LEMMA SameStays ==
    ASSUME ExactInv, UNCHANGED <<factors, topology, messages, schedule, batch>>,
           phase' = "idle" \/ phase' = phase, phase = "uniting" => cursor' = cursor
    PROVE  TreeHolds' /\ PassesHold'
<1>1. /\ edges' = edges /\ factors' = factors /\ batch' = batch /\ acyclic' = acyclic
      /\ parent' = parent /\ limit' = limit /\ completed' = completed
      /\ variable_to_factor' = variable_to_factor /\ factor_to_variable' = factor_to_variable
      /\ stopping_reason' = stopping_reason
  BY DEF topology, messages, schedule
<1>2. Node' = Node /\ From' = From /\ To' = To /\ Nothing' = Nothing
  BY <1>1 DEF Node, From, To, FactorNode, Nothing
<1>3. phase' = phase => United' = United
  BY <1>1 DEF United
<1>4. TreeHolds'
  BY <1>1, <1>2, <1>3 DEF ExactInv, TreeHolds, Graphing
<1>5. MessagesHold => MessagesHold'
  BY <1>1, <1>2 DEF MessagesHold
<1>6. PassesHold'
  BY <1>1, <1>2, <1>5 DEF ExactInv, PassesHold
<1> QED
  BY <1>4, <1>6

(* Every step keeps what is known of the passes.                           *)
LEMMA ExactSteps ==
    /\ CollectiveInit => ExactInv
    /\ ExactInv /\ [CollectiveNext]_collectivevars => ExactInv'
<1>1. ASSUME CollectiveInit PROVE ExactInv
  <2>1. phase = "idle"
    BY <1>1 DEF CollectiveInit
  <2> QED
    BY <1>1, <2>1, TopologySteps DEF ExactInv, TreeHolds, PassesHold, Graphing
<1>2. ASSUME ExactInv, UNCHANGED collectivevars PROVE TreeHolds' /\ PassesHold'
  <2>1. /\ UNCHANGED <<factors, topology, messages, schedule, batch>>
        /\ phase' = phase /\ cursor' = cursor
    BY <1>2 DEF collectivevars, buffers, gating
  <2> QED
    BY <1>2, <2>1, SameStays
<1>3. ASSUME ExactInv,
             \E loss \in LossModel : phase = "deciding" /\
                 \E masses \in Distributions(cursor) : Decide(masses, loss)
      PROVE  TreeHolds' /\ PassesHold'
  <2>1. /\ UNCHANGED <<factors, topology, messages, schedule, batch>>
        /\ phase = "deciding" /\ (phase' = "idle" \/ phase' = phase)
    BY <1>3 DEF Decide, buffers, gating
  <2> QED
    BY <1>3, <2>1, SameStays
<1>4. ASSUME ExactInv, CollectiveNext PROVE TreeHolds' /\ PassesHold'
  BY <1>3, <1>4, RestStays, CompileGrows, UniteGrows, UniteStays, LimitStarts, IterateInforms,
     CollectStops DEF CollectiveNext
<1>5. ASSUME ExactInv, [CollectiveNext]_collectivevars PROVE ExactInv'
  <2>1. TopologyInv'
    BY <1>5, TopologySteps DEF ExactInv
  <2> QED
    BY <1>2, <1>4, <1>5, <2>1 DEF ExactInv
<1> QED
  BY <1>1, <1>5

(* In the end the messages to a variable carry its component.              *)
LEMMA MarginalCarries ==
    ASSUME ExactInv, phase = "deciding", acyclic, NEW v \in 1..batch
    PROVE  Carries(Node, Below(Node, EndsIn(Node, parent), v), Marginal(v), TRUE)
<1> DEFINE D == DOMAIN edges
           root == EndsIn(Node, parent)
           depth(o, x) == Depth(Node, D, From, To, o, x)
           R == Reach(Node, D \ {}, From, To, v)
<1>1. TopologyInv /\ Graphing /\ United = D /\ IsTree(Node, D, From, To)
  BY DEF ExactInv, TreeHolds, Graphing, United
<1>2. /\ IsFiniteSet(D) /\ v \in Node
      /\ \A e \in D : /\ From[e] \in Node /\ To[e] \in Node
                      /\ From[e] = edges[e].variable /\ To[e] = FactorNode(edges[e].factor)
  <2>1. batch \in Nat /\ Len(factors) \in Nat
    BY <1>1, BatchFits DEF TopologyInv, GatingInv, GatingTypeOK, GraphTypeOK, Graphing
  <2>2. v \in Node
    BY <2>1 DEF Node
  <2> QED
    BY <1>1, <2>2, EndsOfEdges
<1>3. /\ EdgesAt(D, From, To, v) = {o \in D : edges[o].variable = v}
      /\ \A o \in EdgesAt(D, From, To, v) : OtherEnd(From, To, o, v) = To[o] /\ o \in D
  BY <1>1, EdgesAtEnds DEF EdgesAt
<1>4. /\ completed \in Nat /\ limit \in Nat /\ limit <= completed
      /\ Informed(Node, D, From, To, To, factor_to_variable, completed)
      /\ \A x \in Node : Cardinality(EdgesOver(Node, D, From, parent, x)) < limit
  BY DEF ExactInv, PassesHold, MessagesHold, LimitOver
<1>5. root[v] \in Node
  BY <1>1, <1>2 DEF TopologyInv, UnionHolds, Unified, IsForest
<1>6. Reach(Node, D, From, To, v) = Below(Node, root, v)
  BY <1>1, <1>2, ReachIsBelow
<1>7. R = Below(Node, root, v)
  <2>1. D \ {} = D
    OBVIOUS
  <2> QED
    BY <1>6, <2>1
<1>8. Within(Node, D, From, To, {}, v) = EdgesOver(Node, D, From, parent, root[v])
  <2>1. \A c \in D : From[c] \in R <=> root[From[c]] = root[v]
    BY <1>2, <1>7 DEF Below
  <2>2. Within(Node, D, From, To, {}, v) = {c \in D : From[c] \in R}
    BY DEF Within
  <2>3. EdgesOver(Node, D, From, parent, root[v]) = {c \in D : root[From[c]] = root[v]}
    BY DEF EdgesOver
  <2> HIDE DEF D, root, R
  <2> QED
    BY <2>1, <2>2, <2>3
<1>9. AtMostOneAt({}, D, From, To, v)
  BY DEF AtMostOneAt
<1>10. ASSUME NEW o \in EdgesAt(D, From, To, v) \ {}
       PROVE  Carries(Node, Behind(Node, D, From, To, o, v), factor_to_variable[o], TRUE)
  <2>1. OtherEnd(From, To, o, v) = To[o] /\ o \in D
    BY <1>3
  <2>2. Carries(Node, Reach(Node, D \ {o}, From, To, To[o]), factor_to_variable[o],
                depth(o, To[o]) < completed)
    BY <1>4, <2>1 DEF Informed
  <2>3. Behind(Node, D, From, To, o, v) = Reach(Node, D \ {o}, From, To, To[o])
    BY <2>1 DEF Behind
  <2>4. depth(o, To[o]) < Cardinality(Within(Node, D, From, To, {}, v))
    BY <1>1, <1>2, <1>9, <2>1, LessBehind DEF Depth
  <2>5. Cardinality(Within(Node, D, From, To, {}, v)) < limit
    BY <1>2, <1>4, <1>5, <1>8
  <2>6. depth(o, To[o]) \in Nat /\ Cardinality(Within(Node, D, From, To, {}, v)) \in Nat
    <3>1. \A X : Within(Node, D, From, To, X, To[o]) \in SUBSET D
      BY DEF Within
    <3>2. Within(Node, D, From, To, {}, v) \in SUBSET D
      BY DEF Within
    <3> HIDE DEF D
    <3> QED
      BY <1>2, <3>1, <3>2, FS_Subset, FS_CardinalityType DEF Depth
  <2> HIDE DEF D, depth
  <2>7. depth(o, To[o]) < completed
    BY <1>4, <2>4, <2>5, <2>6
  <2> QED
    BY <2>2, <2>3, <2>7
<1> HIDE DEF R, root, D
<1>11. Carries(Node, R, SumOf(v, factor_to_variable, EdgesAt(D, From, To, v) \ {}), TRUE)
  BY <1>1, <1>2, <1>9, <1>10, SumCarries DEF R
<1>12. Marginal(v) = SumOf(v, factor_to_variable, EdgesAt(D, From, To, v) \ {})
  <2>1. EdgesAt(D, From, To, v) \ {} = {e \in DOMAIN edges : edges[e].variable = v}
    BY <1>3 DEF D
  <2> QED
    BY <2>1 DEF Marginal
<1> QED
  BY <1>7, <1>11, <1>12 DEF root

(* The property follows.                                                   *)
LEMMA PassesGive == ExactInv => ExactIsExact
<1> SUFFICES ASSUME ExactInv, phase = "deciding"
             PROVE  /\ stopping_reason = "Exact" <=> Forest(DOMAIN edges)
                    /\ stopping_reason = "Exact" =>
                           \A c \in Components(DOMAIN edges) : \A v \in c \cap 1..batch :
                               Marginal(v) = [x \in Node |-> IF x \in c THEN 1 ELSE 0]
  BY DEF ExactIsExact
<1>1. United = DOMAIN edges
  BY DEF United
<1>2. /\ {{y \in Node : Root(y) = Root(x)} : x \in Node} = Components(DOMAIN edges)
      /\ acyclic <=> Forest(DOMAIN edges)
  BY <1>1, UnionGives DEF ExactInv, TopologyRight
<1>3. stopping_reason = "Exact" <=> acyclic
  BY DEF ExactInv, PassesHold
<1>4. ASSUME acyclic, NEW c \in Components(DOMAIN edges), NEW v \in c \cap 1..batch
      PROVE  Marginal(v) = [x \in Node |-> IF x \in c THEN 1 ELSE 0]
  <2> DEFINE root == EndsIn(Node, parent)
  <2>1. PICK z \in Node : c = {y \in Node : Root(y) = Root(z)}
    BY <1>2
  <2>2. \A y : y \in c <=> y \in Node /\ root[y] = root[z]
    BY <2>1, RootsAreEnds
  <2>3. Carries(Node, Below(Node, root, v), Marginal(v), TRUE)
    BY <1>4, MarginalCarries
  <2> HIDE DEF root
  <2>4. c = Below(Node, root, v)
    BY <2>2 DEF Below
  <2>5. \A x \in Node : Marginal(v)[x] = IF x \in c THEN 1 ELSE 0
    BY <2>3, <2>4 DEF Carries
  <2>6. Marginal(v) = [x \in Node |-> Marginal(v)[x]]
    BY DEF Marginal, SumOf
  <2> QED
    BY <2>5, <2>6
<1> QED
  BY <1>2, <1>3, <1>4

(* For any number of observations and tables, any scopes, any batches      *)
(* before and any number of passes: solve calls its answer exact if and    *)
(* only if the graph has no cycle, and then the passes that topology       *)
(* allowed have brought every prior and every potential of a component to  *)
(* each of its variables, once, and nothing else.                          *)
THEOREM ExactAnswersAreExact == CollectiveSpec => []ExactIsExact
<1>1. CollectiveInit => ExactInv
  BY ExactSteps
<1>2. ExactInv /\ [CollectiveNext]_collectivevars => ExactInv'
  BY ExactSteps
<1> QED
  BY <1>1, <1>2, PassesGive, PTL DEF CollectiveSpec
=============================================================================
