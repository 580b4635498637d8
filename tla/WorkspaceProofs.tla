-------------------------- MODULE WorkspaceProofs --------------------------
(***************************************************************************)
(* That the hot workspace is a view of the ledger and loses nothing, for   *)
(* every capacity and every log.                                           *)
(***************************************************************************)
EXTENDS Workspace, WellFoundedInduction, SequenceTheorems, TLAPS

(* The least element of a set of numbers is one of its elements, and no    *)
(* element is below it.                                                    *)
LEMMA LeastIsMember ==
    ASSUME NEW S \in SUBSET Nat, S # {}
    PROVE  Least(S) \in S /\ \A n \in S : Least(S) <= n
<1> DEFINE less == {p \in Nat \X Nat : p[1] < p[2]}
<1>1. IsWellFoundedOn(less, Nat)
  BY NatLessThanWellFounded, Zenon DEF OpToRel
<1>2. PICK m \in S : \A n \in S : <<n, m>> \notin less
  BY <1>1, WFMin
<1>3. SUFFICES ASSUME NEW n \in S, ~(m <= n) PROVE FALSE
  BY DEF Least
<1>4. n \in Nat /\ m \in Nat /\ n < m
  BY <1>3
<1>5. <<n, m>> \in less
  BY <1>4
<1> QED
  BY <1>2, <1>5


Association == [identity : Identity, version : Nat \ {0}, event_time : Time]

Entry == [summaries : Seq([provider : Provider, version : Nat]),
          history : Seq(Nat), last_activation : Nat, applied : Nat]

(* The versions of the log never go back. *)
LogOK ==
    /\ associations \in Seq(Association)
    /\ \A m, n \in DOMAIN associations :
          m <= n => associations[m].version <= associations[n].version
    /\ next \in 1..(Len(associations) + 1)
    /\ cutoff \in Nat

EntryOK(id, entry) ==
    /\ entry \in Entry
    /\ Remembered(entry) \subseteq DOMAIN associations
    /\ FollowsLog(id, entry) /\ OnePerProvider(entry)

(* An entry that remembers anything has applied the newest version of what *)
(* was delivered to its identity, but for what a copy put back left out.   *)
UpToDate(id, entry) ==
    entry.history # <<>> =>
        \A o \in DOMAIN associations :
            o < next /\ associations[o].identity = id =>
                associations[o].version <= entry.applied \/ associations[o].version \in lost[id]

EntriesOK ==
    /\ DOMAIN entries \subseteq Identity
    /\ entries \in [DOMAIN entries -> Entry]
    /\ \A id \in DOMAIN entries :
          /\ EntryOK(id, entries[id]) /\ UpToDate(id, entries[id])
          /\ entries[id].applied <= newest[id]

(* A copy need not be up to date: it follows the log as far as it goes.    *)
HeldOK ==
    /\ held \in [Identity -> SUBSET Entry]
    /\ \A id \in Identity : \A copy \in held[id] :
          EntryOK(id, copy) /\ copy.applied <= newest[id]

(* Nothing is delivered to an identity that has no entry, so that what was *)
(* delivered was applied to some entry.                                    *)
NewestOK ==
    /\ newest \in [Identity -> Nat] /\ lost \in [Identity -> SUBSET Nat]
    /\ \A o \in DOMAIN associations :
          o < next => associations[o].version <= newest[associations[o].identity]

WorkspaceInv == LogOK /\ EntriesOK /\ HeldOK /\ NewestOK

-----------------------------------------------------------------------------
(* upsert_summary leaves one summary per provider.                         *)
LEMMA UpsertOne ==
    ASSUME NEW entry \in Entry, OnePerProvider(entry), NEW p \in Provider, NEW v \in Nat
    PROVE  LET after == [entry EXCEPT !.summaries = Upsert(@, [provider |-> p, version |-> v])]
           IN  /\ after \in Entry /\ OnePerProvider(after)
               /\ after.history = entry.history /\ after.applied = entry.applied
               /\ after.last_activation = entry.last_activation
<1> DEFINE summaries == entry.summaries
           s == [provider |-> p, version |-> v]
           same == {n \in DOMAIN summaries : summaries[n].provider = s.provider}
           upserted == Upsert(summaries, s)
           Summary == [provider : Provider, version : Nat]
<1>1. summaries \in Seq(Summary) /\ s \in Summary /\ s.provider = p
  BY DEF Entry
<1>2. /\ upserted \in Seq(Summary)
      /\ \A m, n \in DOMAIN upserted : upserted[m].provider = upserted[n].provider => m = n
  <2>1. CASE same = {}
    <3>1. upserted = Append(summaries, s)
      BY <2>1 DEF Upsert
    <3>2. \A n \in DOMAIN summaries : summaries[n].provider # p
      BY <1>1, <2>1
    <3> HIDE DEF summaries, s
    <3> QED
      BY <1>1, <3>1, <3>2 DEF OnePerProvider, summaries
  <2>2. CASE same # {}
    <3>1. same \in SUBSET Nat
      BY <1>1
    <3>2. Least(same) \in same
      BY <2>2, <3>1, LeastIsMember
    <3>3. upserted = [summaries EXCEPT ![Least(same)] = s]
      BY <2>2 DEF Upsert
    <3>4. \A n \in DOMAIN summaries : upserted[n].provider = summaries[n].provider
      BY <1>1, <3>2, <3>3
    <3>5. upserted \in Seq(Summary) /\ DOMAIN upserted = DOMAIN summaries
      <4>1. Least(same) \in 1..Len(summaries)
        BY <1>1, <3>2
      <4> HIDE DEF summaries, s, Summary, same
      <4>2. [summaries EXCEPT ![Least(same)] = s] \in Seq(Summary)
        BY <1>1, <4>1, ExceptSeq
      <4> QED
        BY <3>3, <4>2
    <3> QED
      BY <3>4, <3>5 DEF OnePerProvider
  <2> QED
    BY <2>1, <2>2
<1> HIDE DEF upserted
<1>3. [entry EXCEPT !.summaries = upserted] \in Entry
  BY <1>2 DEF Entry
<1>4. [entry EXCEPT !.summaries = upserted].summaries = upserted
  BY DEF Entry
<1> QED
  BY <1>2, <1>3, <1>4 DEF OnePerProvider, Entry, upserted

(* What is said of an entry depends on its history, its version and its    *)
(* activation.                                                             *)
LEMMA PreparedOK ==
    ASSUME NEW id, NEW entry, EntryOK(id, entry), NEW after \in Prepared(entry)
    PROVE  EntryOK(id, after) /\ after.history = entry.history /\ after.applied = entry.applied
<1>1. CASE after = entry
  BY <1>1
<1>2. CASE after # entry
  <2>1. PICK p \in Provider :
            after = [entry EXCEPT !.summaries = Upsert(@, [provider |-> p, version |-> entry.applied])]
    BY <1>2 DEF Prepared
  <2>2. entry \in Entry /\ entry.applied \in Nat /\ OnePerProvider(entry)
    BY DEF EntryOK, Entry
  <2>3. /\ after \in Entry /\ OnePerProvider(after)
        /\ after.history = entry.history /\ after.applied = entry.applied
        /\ after.last_activation = entry.last_activation
    BY <2>1, <2>2, UpsertOne
  <2>4. FollowsLog(id, after) /\ Remembered(after) = Remembered(entry)
    BY <2>3 DEF EntryOK, FollowsLog, Remembered
  <2> QED
    BY <2>3, <2>4 DEF EntryOK
<1> QED
  BY <1>1, <1>2

(* BoundedHistory::push appends, to the history or to what is left of it   *)
(* without its first.                                                      *)
LEMMA PushShape ==
    ASSUME NEW h \in Seq(Nat), Len(h) <= HistoryCapacity, NEW o \in Nat
    PROVE  /\ Push(h, o) \in Seq(Nat) /\ Len(Push(h, o)) <= HistoryCapacity
           /\ HistoryCapacity = 0 => Push(h, o) = <<>>
           /\ HistoryCapacity # 0 =>
                 \E d \in {0, 1} :
                    /\ d <= Len(h)
                    /\ Len(Push(h, o)) = Len(h) + 1 - d
                    /\ \A k \in 1..(Len(h) - d) : Push(h, o)[k] = h[k + d]
                    /\ Push(h, o)[Len(h) + 1 - d] = o
<1>1. CASE HistoryCapacity = 0
  BY <1>1 DEF Push
<1>2. CASE HistoryCapacity # 0 /\ Len(h) < HistoryCapacity
  <2>1. Push(h, o) = Append(h, o)
    BY <1>2 DEF Push
  <2>2. Append(h, o) \in Seq(Nat) /\ Len(Append(h, o)) = Len(h) + 1
    OBVIOUS
  <2>3. \A k \in 1..Len(h) : Append(h, o)[k] = h[k + 0]
    OBVIOUS
  <2>4. Append(h, o)[Len(h) + 1] = o
    OBVIOUS
  <2> QED
    BY <1>2, <2>1, <2>2, <2>3, <2>4, WorkspaceAssumption
<1>3. CASE HistoryCapacity # 0 /\ ~(Len(h) < HistoryCapacity)
  <2>1. Push(h, o) = Append(Tail(h), o)
    BY <1>3 DEF Push
  <2>2. Len(h) = HistoryCapacity /\ h # <<>>
    BY <1>3, WorkspaceAssumption
  <2>3. /\ Tail(h) \in Seq(Nat) /\ Len(Tail(h)) = Len(h) - 1
        /\ \A k \in 1..(Len(h) - 1) : Tail(h)[k] = h[k + 1]
    BY <2>2
  <2>4. /\ Append(Tail(h), o) \in Seq(Nat) /\ Len(Append(Tail(h), o)) = Len(h)
        /\ \A k \in 1..(Len(h) - 1) : Append(Tail(h), o)[k] = h[k + 1]
        /\ Append(Tail(h), o)[Len(h)] = o
    BY <2>2, <2>3
  <2> QED
    BY <1>3, <2>1, <2>2, <2>4, WorkspaceAssumption
<1> QED
  BY <1>1, <1>2, <1>3

-----------------------------------------------------------------------------
(* The fields of an association.                                           *)
LEMMA LogElements ==
    ASSUME LogOK
    PROVE  \A o \in DOMAIN associations :
               /\ o \in Nat /\ associations[o] \in Association
               /\ associations[o].version \in Nat /\ associations[o].event_time \in Nat
<1>1. \A o \in DOMAIN associations : o \in Nat /\ associations[o] \in Association
  BY DEF LogOK
<1>2. \A a \in Association : a.version \in Nat /\ a.event_time \in Nat
  BY WorkspaceAssumption DEF Association
<1> QED
  BY <1>1, <1>2

(* A new association has the version of the last or a later one.           *)
LEMMA CommittedLog ==
    ASSUME LogOK, NEW id \in Identity, NEW v \in Nat, NEW t \in Time, Commit(id, v, t)
    PROVE  /\ LogOK'
           /\ Len(associations') = Len(associations) + 1
           /\ \A o \in DOMAIN associations :
                 /\ o \in DOMAIN associations' /\ associations'[o] = associations[o]
                 /\ associations[o].version <= v
           /\ DOMAIN associations' = DOMAIN associations \cup {Len(associations) + 1}
           /\ associations'[Len(associations) + 1].version = v
<1> DEFINE a == [identity |-> id, version |-> v, event_time |-> t]
           n == Len(associations)
<1>1. /\ associations \in Seq(Association) /\ a \in Association /\ n \in Nat
      /\ associations' = Append(associations, a) /\ UNCHANGED <<next, cutoff>>
      /\ v \in {LastVersion, LastVersion + 1}
  BY DEF Commit, LogOK, Association
<1>2. /\ associations' \in Seq(Association) /\ Len(associations') = n + 1
      /\ DOMAIN associations = 1..n /\ DOMAIN associations' = 1..(n + 1)
      /\ \A o \in 1..n : associations'[o] = associations[o]
      /\ associations'[n + 1] = a
  BY <1>1
<1>3. \A o \in 1..n : associations[o].version <= v
  <2> SUFFICES ASSUME NEW o \in 1..n PROVE associations[o].version <= v
    OBVIOUS
  <2>1. associations # <<>> /\ LastVersion = associations[n].version /\ n \in 1..n
    BY <1>1 DEF LastVersion
  <2>2. associations[o].version <= associations[n].version
    BY <1>2, <2>1 DEF LogOK
  <2>3. associations[o].version \in Nat /\ associations[n].version \in Nat
    BY <1>2, <2>1, LogElements
  <2> QED
    BY <1>1, <2>1, <2>2, <2>3
<1>4. \A m, o \in 1..(n + 1) : m <= o => associations'[m].version <= associations'[o].version
  <2> SUFFICES ASSUME NEW m \in 1..(n + 1), NEW o \in 1..(n + 1), m <= o
               PROVE  associations'[m].version <= associations'[o].version
    OBVIOUS
  <2>1. CASE o = n + 1
    BY <1>2, <1>3, <2>1
  <2>2. CASE o # n + 1
    BY <1>1, <1>2, <2>2 DEF LogOK
  <2> QED
    BY <2>1, <2>2
<1>5. next \in 1..(n + 2)
  BY <1>1 DEF LogOK
<1> QED
  BY <1>1, <1>2, <1>3, <1>4, <1>5 DEF LogOK

(* An entry follows the log when it grows: the new version is none of      *)
(* those between two that it remembers.                                    *)
LEMMA CommittedEntry ==
    ASSUME LogOK, NEW id \in Identity, NEW v \in Nat, NEW t \in Time, Commit(id, v, t),
           NEW i, NEW entry, EntryOK(i, entry)
    PROVE  EntryOK(i, entry)' /\ (UpToDate(i, entry) => UpToDate(i, entry)')
<1>1. /\ \A o \in DOMAIN associations :
            /\ o \in DOMAIN associations' /\ associations'[o] = associations[o]
            /\ associations[o].version <= v
      /\ DOMAIN associations' = DOMAIN associations \cup {Len(associations) + 1}
      /\ associations'[Len(associations) + 1].version = v
      /\ lost' = lost
  BY CommittedLog DEF Commit
<1>2. Remembered(entry) \subseteq DOMAIN associations /\ entry \in Entry /\ OnePerProvider(entry)
  BY DEF EntryOK
<1> DEFINE h == entry.history
<1>3. h \in Seq(Nat) /\ \A k \in DOMAIN h : h[k] \in DOMAIN associations
  BY <1>2 DEF Entry, Remembered
<1>4. \A o \in DOMAIN associations : associations[o].version \in Nat
  BY LogElements
<1>5. \A k \in 1..Len(h) : associations'[h[k]] = associations[h[k]]
  BY <1>1, <1>3
<1>6. \A k \in 1..Len(h) : v \notin (associations[h[k - 1]].version + 1)..(associations[h[k]].version - 1)
  BY <1>1, <1>3, <1>4
<1>7. \A k \in 2..Len(h) : k \in 1..Len(h) /\ k - 1 \in 1..Len(h)
  BY <1>3
<1>8. FollowsLog(i, entry)'
  <2>1. Len(h) <= HistoryCapacity
    BY DEF EntryOK, FollowsLog
  <2>2. \A o \in Remembered(entry) : associations'[o].identity = i
                                     /\ associations'[o].event_time <= entry.last_activation
    BY <1>1, <1>2 DEF EntryOK, FollowsLog
  <2>3. ASSUME NEW k \in 2..Len(h)
        PROVE  /\ associations'[h[k - 1]].version < associations'[h[k]].version
               /\ \A o \in DOMAIN associations' :
                     associations'[o].identity = i =>
                        associations'[o].version \notin
                            ((associations'[h[k - 1]].version + 1)..(associations'[h[k]].version - 1))
                                \ lost'[i]
    <3>1. /\ associations'[h[k - 1]] = associations[h[k - 1]]
          /\ associations'[h[k]] = associations[h[k]]
      BY <1>5, <1>7
    <3>2. /\ associations[h[k - 1]].version < associations[h[k]].version
          /\ \A o \in DOMAIN associations :
                associations[o].identity = i =>
                   associations[o].version \notin
                       ((associations[h[k - 1]].version + 1)..(associations[h[k]].version - 1))
                           \ lost[i]
      BY DEF EntryOK, FollowsLog
    <3> QED
      BY <1>1, <1>6, <1>7, <3>1, <3>2
  <2>4. h # <<>> => entry.applied = associations'[h[Len(h)]].version
    <3> SUFFICES ASSUME h # <<>> PROVE entry.applied = associations'[h[Len(h)]].version
      OBVIOUS
    <3>1. Len(h) \in 1..Len(h)
      BY <1>3
    <3> QED
      BY <1>5, <3>1 DEF EntryOK, FollowsLog
  <2> QED
    BY <2>1, <2>2, <2>3, <2>4 DEF FollowsLog, Remembered
<1>9. EntryOK(i, entry)'
  BY <1>1, <1>2, <1>8 DEF EntryOK, Remembered, OnePerProvider
<1>10. UpToDate(i, entry) => UpToDate(i, entry)'
  <2>1. next' = next /\ next <= Len(associations) + 1 /\ Len(associations) \in Nat /\ next \in Nat
    BY DEF Commit, LogOK
  <2>2. ~(Len(associations) + 1 < next)
    BY <2>1
  <2> QED
    BY <1>1, <2>1, <2>2 DEF UpToDate
<1> QED
  BY <1>9, <1>10

(* The delivered association is newer than all that the entry remembers,   *)
(* and none of its identity lies between: those delivered before are not   *)
(* newer than the entry, those after it are not older than it.             *)
LEMMA AppliedEntry ==
    ASSUME LogOK, next \in DOMAIN associations,
           NEW entry, EntryOK(associations[next].identity, entry),
           UpToDate(associations[next].identity, entry), Advances(associations[next], entry)
    PROVE  LET a == associations[next]
               after == Applied(entry, a, next)
           IN  /\ EntryOK(a.identity, after) /\ after.applied = a.version
               /\ Continues(entry, after)
<1> DEFINE a == associations[next]
           h == entry.history
           g == Push(h, next)
           after == Applied(entry, a, next)
           V(o) == associations[o].version
<1>1. /\ a \in Association /\ a.version \in Nat /\ a.event_time \in Nat /\ next \in Nat
      /\ \A o \in DOMAIN associations : V(o) \in Nat /\ o \in Nat
  BY LogElements
<1>2. entry \in Entry /\ h \in Seq(Nat) /\ Remembered(entry) \subseteq DOMAIN associations
  BY DEF EntryOK, Entry
<1>3. /\ Len(h) <= HistoryCapacity
      /\ \A k \in DOMAIN h : /\ h[k] \in DOMAIN associations
                             /\ associations[h[k]].identity = a.identity
                             /\ associations[h[k]].event_time <= entry.last_activation
      /\ \A k \in 2..Len(h) :
            /\ V(h[k - 1]) < V(h[k])
            /\ \A o \in DOMAIN associations :
                  associations[o].identity = a.identity =>
                     V(o) \notin ((V(h[k - 1]) + 1)..(V(h[k]) - 1)) \ lost[a.identity]
      /\ h # <<>> => entry.applied = V(h[Len(h)])
  BY <1>2 DEF EntryOK, FollowsLog, Remembered
<1>4. V(next) = a.version /\ a.version > entry.applied /\ entry.applied \in Nat
      /\ entry.last_activation \in Nat
  BY <1>2 DEF Advances, Entry
<1>5. /\ after.applied = a.version /\ after.history = g /\ after.summaries = entry.summaries
      /\ after.last_activation = Later(entry.last_activation, a.event_time)
  BY <1>2 DEF Applied, Entry
<1>6. /\ after.last_activation \in Nat
      /\ after.last_activation >= entry.last_activation /\ after.last_activation >= a.event_time
  BY <1>1, <1>4, <1>5 DEF Later
<1>7. g \in Seq(Nat) /\ Len(g) <= HistoryCapacity
  BY <1>1, <1>2, <1>3, PushShape
<1>8. after \in Entry
  BY <1>1, <1>2, <1>4, <1>5, <1>6, <1>7 DEF Applied, Entry
<1>9. OnePerProvider(after)
  BY <1>5 DEF EntryOK, OnePerProvider
<1>10. Remembered(after) \subseteq DOMAIN associations /\ FollowsLog(a.identity, after)
  <2>1. CASE HistoryCapacity = 0
    <3>1. g = <<>>
      BY <1>1, <1>2, <1>3, <2>1, PushShape
    <3> QED
      BY <1>5, <1>7, <3>1 DEF FollowsLog, Remembered
  <2>2. CASE HistoryCapacity # 0
    <3>1. PICK d \in {0, 1} :
              /\ d <= Len(h)
              /\ Len(g) = Len(h) + 1 - d
              /\ \A k \in 1..(Len(h) - d) : g[k] = h[k + d]
              /\ g[Len(h) + 1 - d] = next
      BY <1>1, <1>2, <1>3, <2>2, PushShape
    <3> HIDE DEF g, h, after, a
    <3>2. Len(h) \in Nat /\ DOMAIN h = 1..Len(h) /\ DOMAIN g = 1..Len(g) /\ Len(g) \in Nat
      BY <1>2, <1>7
    <3>3. \A k \in 1..Len(g) : \/ k + d \in DOMAIN h /\ g[k] = h[k + d]
                               \/ k = Len(g) /\ g[k] = next
      BY <3>1, <3>2
    <3>4. \A k \in 1..Len(g) :
              /\ g[k] \in DOMAIN associations /\ associations[g[k]].identity = a.identity
              /\ associations[g[k]].event_time <= after.last_activation
      <4> SUFFICES ASSUME NEW k \in 1..Len(g)
                   PROVE  /\ g[k] \in DOMAIN associations /\ associations[g[k]].identity = a.identity
                          /\ associations[g[k]].event_time <= after.last_activation
        OBVIOUS
      <4>1. CASE g[k] = next
        BY <1>6, <4>1 DEF a
      <4>2. CASE k + d \in DOMAIN h /\ g[k] = h[k + d]
        <5>1. associations[g[k]].event_time \in Nat
          BY <1>3, <4>2, LogElements
        <5> QED
          BY <1>3, <1>4, <1>6, <4>2, <5>1
      <4> QED
        BY <3>3, <4>1, <4>2
    <3>5. ASSUME NEW k \in 2..Len(g)
          PROVE  /\ V(g[k - 1]) < V(g[k])
                 /\ \A o \in DOMAIN associations :
                       associations[o].identity = a.identity =>
                           V(o) \notin ((V(g[k - 1]) + 1)..(V(g[k]) - 1)) \ lost[a.identity]
      <4>1. CASE k # Len(g)
        <5>1. k + d \in 2..Len(h) /\ g[k] = h[k + d] /\ g[k - 1] = h[(k + d) - 1]
          <6>1. k \in 1..(Len(h) - d) /\ k - 1 \in 1..(Len(h) - d) /\ (k - 1) + d = (k + d) - 1
            BY <3>1, <3>2, <4>1
          <6>2. g[k] = h[k + d] /\ g[k - 1] = h[(k - 1) + d]
            BY <3>1, <6>1
          <6> QED
            BY <3>2, <6>1, <6>2
        <5> QED
          BY <1>3, <5>1
      <4>2. CASE k = Len(g)
        <5>1. g[k] = next /\ g[k - 1] = h[Len(h)] /\ Len(h) \in DOMAIN h /\ h # <<>>
          BY <3>1, <3>2, <4>2
        <5>2. V(g[k - 1]) = entry.applied
          BY <1>3, <5>1
        <5>3. ASSUME NEW o \in DOMAIN associations, associations[o].identity = a.identity
              PROVE  V(o) <= entry.applied \/ V(o) \in lost[a.identity] \/ V(next) <= V(o)
          <6>1. CASE o < next
            BY <5>1, <5>3, <6>1 DEF UpToDate, a, h
          <6>2. CASE ~(o < next)
            BY <1>1, <6>2 DEF LogOK
          <6> QED
            BY <6>1, <6>2
        <5>4. entry.applied < V(next) /\ V(next) \in Nat /\ entry.applied \in Nat
          BY <1>1, <1>4
        <5>5. ASSUME NEW o \in DOMAIN associations, associations[o].identity = a.identity
              PROVE  V(o) \notin ((entry.applied + 1)..(V(next) - 1)) \ lost[a.identity]
          <6>1. V(o) \in Nat
            BY <1>1, <5>5
          <6> QED
            BY <5>3, <5>4, <5>5, <6>1
        <5> QED
          BY <5>1, <5>2, <5>4, <5>5
      <4> QED
        BY <4>1, <4>2
    <3>6. g # <<>> => after.applied = V(g[Len(g)])
      BY <1>4, <1>5, <3>1
    <3>7. Remembered(after) \subseteq DOMAIN associations
          /\ \A o \in Remembered(after) : /\ associations[o].identity = a.identity
                                          /\ associations[o].event_time <= after.last_activation
      BY <1>5, <3>2, <3>4 DEF Remembered
    <3> QED
      BY <1>5, <1>7, <3>5, <3>6, <3>7 DEF FollowsLog
  <2> QED
    BY <2>1, <2>2
<1>11. Continues(entry, after)
  <2> SUFFICES ASSUME NEW k \in 2..Len(h) PROVE h[k] \in Remembered(after)
    BY <1>1, <1>4, <1>5 DEF Continues
  <2>1. Len(h) \in Nat /\ HistoryCapacity # 0
    BY <1>2, <1>3
  <2>2. PICK d \in {0, 1} :
            /\ d <= Len(h)
            /\ Len(g) = Len(h) + 1 - d
            /\ \A n \in 1..(Len(h) - d) : g[n] = h[n + d]
    BY <1>1, <1>2, <1>3, <2>1, PushShape
  <2> HIDE DEF g, h, after, a
  <2>3. k - d \in 1..(Len(h) - d) /\ (k - d) + d = k /\ k - d \in 1..Len(g)
    BY <2>1, <2>2
  <2>4. g[k - d] = h[k]
    BY <2>2, <2>3
  <2>5. k - d \in DOMAIN g
    BY <1>7, <2>3
  <2> QED
    BY <1>5, <2>4, <2>5 DEF Remembered
<1> QED
  BY <1>1, <1>4, <1>5, <1>8, <1>9, <1>10, <1>11 DEF EntryOK

-----------------------------------------------------------------------------
(* What an entry says does not change while the log stands still and no    *)
(* version that was lost is found.                                         *)
LEMMA EntryKept ==
    ASSUME NEW id, NEW entry, UNCHANGED associations, EntryOK(id, entry), lost[id] \subseteq lost'[id]
    PROVE  /\ EntryOK(id, entry)'
           /\ UpToDate(id, entry) /\ next' <= next /\ LogOK /\ LogOK' => UpToDate(id, entry)'
<1>1. EntryOK(id, entry)'
  BY DEF EntryOK, FollowsLog, Remembered, OnePerProvider
<1>2. UpToDate(id, entry) /\ next' <= next /\ LogOK /\ LogOK' => UpToDate(id, entry)'
  BY DEF UpToDate, LogOK
<1> QED
  BY <1>1, <1>2

(* A step that commits, applies and delivers nothing keeps what is said of *)
(* every entry that it leaves alone.                                       *)
LEMMA StillOK ==
    ASSUME WorkspaceInv, UNCHANGED <<associations, newest>>, next' <= next, LogOK',
           lost' \in [Identity -> SUBSET Nat], \A id \in Identity : lost[id] \subseteq lost'[id]
    PROVE  /\ NewestOK'
           /\ UNCHANGED held => HeldOK'
           /\ UNCHANGED entries => EntriesOK'
           /\ \A id \in Identity, entry \in Entry :
                 EntryOK(id, entry) => /\ EntryOK(id, entry)'
                                       /\ UpToDate(id, entry) => UpToDate(id, entry)'
<1>1. NewestOK'
  BY DEF WorkspaceInv, NewestOK, LogOK
<1>2. UNCHANGED held => HeldOK'
  BY EntryKept DEF WorkspaceInv, HeldOK
<1>3. \A id \in Identity, entry \in Entry :
          EntryOK(id, entry) => /\ EntryOK(id, entry)'
                                /\ UpToDate(id, entry) => UpToDate(id, entry)'
  BY EntryKept DEF WorkspaceInv
<1>4. UNCHANGED entries => EntriesOK'
  BY <1>3 DEF WorkspaceInv, EntriesOK
<1> QED
  BY <1>1, <1>2, <1>3, <1>4

(* What the owner is handed are entries of the workspace.                  *)
LEMMA HandedOK ==
    ASSUME WorkspaceInv, NEW ids \in SUBSET DOMAIN entries, held' = Handed(ids),
           UNCHANGED <<associations, newest>>, \A id \in Identity : lost[id] \subseteq lost'[id]
    PROVE  /\ HeldOK'
           /\ \A id \in ids : entries[id] \in held'[id]
<1>1. \A id \in ids : /\ id \in Identity /\ entries[id] \in Entry
                      /\ EntryOK(id, entries[id]) /\ entries[id].applied <= newest[id]
  BY DEF WorkspaceInv, EntriesOK
<1>2. held' \in [Identity -> SUBSET Entry]
  BY <1>1 DEF Handed, WorkspaceInv, HeldOK
<1>3. \A id \in ids : entries[id] \in held'[id]
  BY <1>1 DEF Handed
<1>4. ASSUME NEW id \in Identity, NEW copy \in held'[id]
      PROVE  EntryOK(id, copy)' /\ copy.applied <= newest'[id]
  <2>1. copy \in held[id] \/ (id \in ids /\ copy = entries[id])
    BY <1>4 DEF Handed
  <2>2. EntryOK(id, copy) /\ copy.applied <= newest[id] /\ lost[id] \subseteq lost'[id]
    BY <1>1, <2>1 DEF WorkspaceInv, HeldOK
  <2> QED
    BY <2>2, EntryKept
<1> QED
  BY <1>2, <1>3, <1>4 DEF HeldOK

(* The ledger commits.                                                     *)
LEMMA CommitKeeps ==
    ASSUME WorkspaceInv, NEW id \in Identity, NEW v \in Nat, NEW t \in Time, Commit(id, v, t)
    PROVE  WorkspaceInv'
<1>1. UNCHANGED <<entries, held, newest, lost, next>>
  BY DEF Commit
<1>2. /\ LogOK' /\ Len(associations') = Len(associations) + 1
      /\ \A o \in DOMAIN associations : associations'[o] = associations[o]
      /\ DOMAIN associations' = DOMAIN associations \cup {Len(associations) + 1}
  BY CommittedLog DEF WorkspaceInv
<1>3. EntriesOK'
  BY <1>1, CommittedEntry DEF WorkspaceInv, EntriesOK
<1>4. HeldOK'
  BY <1>1, CommittedEntry DEF WorkspaceInv, HeldOK
<1>5. ~(Len(associations) + 1 < next)
  BY DEF WorkspaceInv, LogOK
<1>6. NewestOK'
  BY <1>1, <1>2, <1>5 DEF WorkspaceInv, NewestOK
<1> QED
  BY <1>2, <1>3, <1>4, <1>6 DEF WorkspaceInv

(* A new entry remembers nothing.                                          *)
LEMMA NewEntryOK ==
    ASSUME NEW id \in Identity, NEW t \in Nat
    PROVE  LET entry == NewEntry(t, 0)
           IN  EntryOK(id, entry) /\ UpToDate(id, entry) /\ entry.history = <<>> /\ entry.applied = 0
<1> DEFINE entry == NewEntry(t, 0)
<1>1. /\ entry \in Entry /\ entry.history = <<>> /\ entry.summaries = <<>> /\ entry.applied = 0
  BY DEF NewEntry, Entry
<1> HIDE DEF entry
<1>2. EntryOK(id, entry) /\ UpToDate(id, entry)
  BY <1>1, WorkspaceAssumption DEF EntryOK, UpToDate, FollowsLog, Remembered, OnePerProvider
<1> QED
  BY <1>1, <1>2 DEF entry

LEMMA ReconstructKeeps == ASSUME WorkspaceInv, Reconstruct PROVE WorkspaceInv'
<1>1. Delivered.identity \in Identity /\ Delivered.event_time \in Nat
  BY LogElements DEF Association, Reconstruct, Due, Delivered, WorkspaceInv
<1>2. PICK id \in Identity, t \in Nat : id = Delivered.identity /\ t = Delivered.event_time
  BY <1>1
<1> DEFINE entry == NewEntry(t, 0)
<1>3. /\ entries' = Insert(entries, id, entry)
      /\ UNCHANGED <<associations, next, held, cutoff, newest, lost>>
  BY <1>2 DEF Reconstruct
<1>4. entry \in Entry /\ EntryOK(id, entry) /\ UpToDate(id, entry)
  BY NewEntryOK DEF EntryOK
<1> HIDE DEF entry
<1>5. /\ entries' \in [DOMAIN entries \cup {id} -> Entry] /\ entries'[id] = entry
      /\ \A i \in DOMAIN entries \ {id} : entries'[i] = entries[i]
  BY <1>3, <1>4 DEF Insert, WorkspaceInv, EntriesOK
<1>6. LogOK' /\ next' <= next /\ lost' \in [Identity -> SUBSET Nat]
  BY <1>3 DEF WorkspaceInv, LogOK, NewestOK
<1>7. /\ NewestOK' /\ HeldOK'
      /\ \A i \in Identity, e \in Entry :
            EntryOK(i, e) => EntryOK(i, e)' /\ (UpToDate(i, e) => UpToDate(i, e)')
  BY <1>3, <1>6, StillOK
<1>8. entry.applied <= newest[id]
  BY NewEntryOK DEF WorkspaceInv, NewestOK, entry
<1>9. EntriesOK'
  BY <1>3, <1>4, <1>5, <1>7, <1>8 DEF WorkspaceInv, EntriesOK
<1> QED
  BY <1>6, <1>7, <1>9 DEF WorkspaceInv

(* A delivery counts only for the identity that has an entry; a repeated   *)
(* one changes no entry.                                                   *)
LEMMA StaleKeeps == ASSUME WorkspaceInv, StaleCommit PROVE WorkspaceInv'
<1> DEFINE id == associations[next].identity
<1>1. /\ next \in DOMAIN associations /\ id \in DOMAIN entries /\ next' = next + 1
      /\ ~(associations[next].version > entries[id].applied)
      /\ UNCHANGED <<associations, entries, held, cutoff, newest, lost>>
  BY DEF StaleCommit, Due, Delivered, Advances
<1>2. LogOK'
  BY <1>1 DEF WorkspaceInv, LogOK
<1>3. entries[id].applied \in Nat /\ entries[id].applied <= newest[id]
  BY <1>1 DEF WorkspaceInv, EntriesOK, Entry
<1>4. \A o \in DOMAIN associations :
          o < next' => o < next \/ (o = next /\ associations[o].version <= entries[id].applied)
  BY <1>1, <1>3, LogElements DEF WorkspaceInv
<1>5. \A i \in DOMAIN entries : EntryOK(i, entries[i])' /\ UpToDate(i, entries[i])'
  <2> SUFFICES ASSUME NEW i \in DOMAIN entries
               PROVE  EntryOK(i, entries[i]) /\ UpToDate(i, entries[i])'
    BY <1>1 DEF EntryOK, FollowsLog, Remembered, OnePerProvider
  <2>1. EntryOK(i, entries[i]) /\ UpToDate(i, entries[i])
    BY DEF WorkspaceInv, EntriesOK
  <2> QED
    BY <1>1, <1>4, <2>1 DEF UpToDate
<1>6. EntriesOK'
  BY <1>1, <1>5 DEF WorkspaceInv, EntriesOK
<1>7. HeldOK'
  BY <1>1, EntryKept DEF WorkspaceInv, HeldOK
<1>8. NewestOK'
  <2>1. associations[next].version <= newest[id]
    <3>1. associations[next].version \in Nat /\ newest[id] \in Nat
      BY <1>1, LogElements DEF WorkspaceInv, EntriesOK, NewestOK
    <3> QED
      BY <1>1, <1>3, <3>1
  <2>2. \A o \in DOMAIN associations : o < next' => o < next \/ o = next
    BY <1>4
  <2> QED
    BY <1>1, <2>1, <2>2 DEF WorkspaceInv, NewestOK
<1> QED
  BY <1>2, <1>6, <1>7, <1>8 DEF WorkspaceInv

(* An entry that is applied stays up to date, goes on and remembers all    *)
(* but its oldest.                                                         *)
LEMMA ApplyKeeps ==
    ASSUME WorkspaceInv, ApplyCommitted
    PROVE  /\ WorkspaceInv' /\ DOMAIN entries' = DOMAIN entries
           /\ \A i \in DOMAIN entries : Continues(entries[i], entries'[i])
<1> DEFINE a == associations[next]
           id == a.identity
           entry == entries[id]
           after == Applied(entry, a, next)
<1>1. /\ next \in DOMAIN associations /\ id \in DOMAIN entries /\ next' = next + 1
      /\ Advances(a, entry) /\ entries' = [entries EXCEPT ![id] = after]
      /\ newest' = [newest EXCEPT ![id] = Later(@, a.version)]
      /\ UNCHANGED <<associations, held, cutoff, lost>>
  BY DEF ApplyCommitted, Due, Delivered
<1>2. LogOK /\ EntryOK(id, entry) /\ UpToDate(id, entry) /\ id \in Identity
  BY <1>1 DEF WorkspaceInv, EntriesOK
<1>3. EntryOK(id, after) /\ after.applied = a.version /\ Continues(entry, after)
  BY <1>1, <1>2, AppliedEntry
<1> HIDE DEF after
<1>4. /\ DOMAIN entries' = DOMAIN entries /\ entries'[id] = after
      /\ \A i \in DOMAIN entries \ {id} : entries'[i] = entries[i]
      /\ entries' \in [DOMAIN entries' -> Entry]
  BY <1>1, <1>3 DEF WorkspaceInv, EntriesOK, EntryOK
<1>5. LogOK'
  BY <1>1, <1>2 DEF LogOK
<1>6. \A o \in DOMAIN associations : /\ o < next' => o < next \/ o = next
                                     /\ o < next' => associations[o].version <= a.version
  BY <1>1, <1>2, LogElements DEF LogOK
<1>7. /\ newest' \in [Identity -> Nat] /\ a.version <= newest'[id]
      /\ \A i \in Identity : newest[i] <= newest'[i] /\ newest[i] \in Nat /\ newest'[i] \in Nat
  <2>1. newest \in [Identity -> Nat] /\ a.version \in Nat
    BY <1>1, <1>2, LogElements DEF WorkspaceInv, NewestOK
  <2> QED
    BY <1>1, <1>2, <2>1 DEF Later
<1>8. EntriesOK'
  <2> SUFFICES ASSUME NEW i \in DOMAIN entries
               PROVE  /\ EntryOK(i, entries'[i])
                      /\ entries'[i].history # <<>> =>
                            \A o \in DOMAIN associations :
                                o < next' /\ associations[o].identity = i =>
                                    \/ associations[o].version <= entries'[i].applied
                                    \/ associations[o].version \in lost[i]
                      /\ entries'[i].applied <= newest'[i]
    BY <1>1, <1>4 DEF WorkspaceInv, EntriesOK, UpToDate, EntryOK, FollowsLog, Remembered, OnePerProvider
  <2>1. CASE i = id
    BY <1>3, <1>4, <1>6, <1>7, <2>1
  <2>2. CASE i # id
    <3>1. /\ entries'[i] = entries[i] /\ EntryOK(i, entries[i]) /\ UpToDate(i, entries[i])
          /\ entries[i].applied <= newest[i] /\ entries[i].applied \in Nat /\ i \in Identity
      BY <1>4, <2>2 DEF WorkspaceInv, EntriesOK, Entry
    <3>2. entries'[i].applied <= newest'[i]
      BY <1>7, <3>1
    <3> QED
      BY <1>6, <2>2, <3>1, <3>2 DEF UpToDate
  <2> QED
    BY <2>1, <2>2
<1>9. HeldOK'
  <2>1. ASSUME NEW i \in Identity, NEW copy \in held[i]
        PROVE  EntryOK(i, copy)' /\ copy.applied <= newest'[i]
    <3>1. EntryOK(i, copy) /\ copy.applied <= newest[i] /\ copy.applied \in Nat
      BY <2>1 DEF WorkspaceInv, HeldOK, EntryOK, Entry
    <3> QED
      BY <1>1, <1>7, <3>1, EntryKept
  <2> QED
    BY <1>1, <2>1 DEF WorkspaceInv, HeldOK
<1>10. NewestOK'
  <2> SUFFICES ASSUME NEW o \in DOMAIN associations, o < next'
               PROVE  associations[o].version <= newest'[associations[o].identity]
    BY <1>1, <1>7 DEF WorkspaceInv, NewestOK
  <2>1. CASE o = next
    BY <1>7, <2>1
  <2>2. CASE o < next
    <3>1. /\ associations[o].version <= newest[associations[o].identity]
          /\ associations[o].version \in Nat /\ associations[o].identity \in Identity
      BY <2>2, LogElements DEF WorkspaceInv, NewestOK, Association
    <3> QED
      BY <1>7, <3>1
  <2> QED
    BY <1>6, <2>1, <2>2
<1>11. \A i \in DOMAIN entries : Continues(entries[i], entries'[i])
  <2> SUFFICES ASSUME NEW i \in DOMAIN entries, i # id PROVE Continues(entries[i], entries[i])
    BY <1>3, <1>4
  <2>1. entries[i].applied \in Nat /\ entries[i].history \in Seq(Nat)
    BY DEF WorkspaceInv, EntriesOK, Entry
  <2> QED
    BY <2>1 DEF Continues, Remembered
<1> QED
  BY <1>4, <1>5, <1>8, <1>9, <1>10, <1>11 DEF WorkspaceInv

(* The owner delivers again from an earlier place.                         *)
LEMMA ResumeKeeps ==
    ASSUME WorkspaceInv, NEW n \in Nat \ {0}, Resume(n)
    PROVE  WorkspaceInv'
<1>1. next' = n /\ n < next /\ UNCHANGED <<associations, entries, held, cutoff, newest, lost>>
  BY DEF Resume
<1>2. LogOK' /\ next' <= next /\ lost' \in [Identity -> SUBSET Nat]
  BY <1>1 DEF WorkspaceInv, LogOK, NewestOK
<1>3. EntriesOK' /\ HeldOK' /\ NewestOK'
  BY <1>1, <1>2, StillOK
<1> QED
  BY <1>2, <1>3 DEF WorkspaceInv

(* An eviction hands the idle entries to the owner, as they are.           *)
LEMMA EvictKeeps ==
    ASSUME WorkspaceInv, NEW time \in Time, EvictBefore(time)
    PROVE  /\ WorkspaceInv' /\ cutoff' = time
           /\ \A id \in DOMAIN entries :
                 IF id \in DOMAIN entries' THEN entries'[id] = entries[id]
                 ELSE entries[id] \in held'[id] /\ IdleAt(entries[id], time)
<1> DEFINE idle == {id \in DOMAIN entries : IdleAt(entries[id], time)}
<1>1. /\ held' = Handed(idle) /\ entries' = Remove(entries, idle)
      /\ cutoff' = time /\ UNCHANGED <<associations, next, newest, lost>>
  BY DEF EvictBefore
<1>2. /\ DOMAIN entries' = DOMAIN entries \ idle
      /\ entries' \in [DOMAIN entries' -> Entry]
      /\ \A id \in DOMAIN entries' : entries'[id] = entries[id]
  BY <1>1 DEF Remove, WorkspaceInv, EntriesOK
<1>3. /\ idle \in SUBSET DOMAIN entries /\ \A id \in idle : IdleAt(entries[id], time)
      /\ \A id \in DOMAIN entries \ DOMAIN entries' : id \in idle
  BY <1>2
<1> HIDE DEF idle
<1>4. HeldOK' /\ \A id \in idle : entries[id] \in held'[id]
  BY <1>1, <1>3, HandedOK
<1>5. LogOK' /\ next' <= next /\ lost' \in [Identity -> SUBSET Nat]
  BY <1>1, WorkspaceAssumption DEF WorkspaceInv, LogOK, NewestOK
<1>6. /\ NewestOK'
      /\ \A i \in Identity, e \in Entry :
            EntryOK(i, e) => EntryOK(i, e)' /\ (UpToDate(i, e) => UpToDate(i, e)')
  BY <1>1, <1>5, StillOK
<1>7. EntriesOK'
  BY <1>1, <1>2, <1>6 DEF WorkspaceInv, EntriesOK
<1> QED
  BY <1>1, <1>2, <1>3, <1>4, <1>5, <1>6, <1>7 DEF WorkspaceInv

(* A clone changes nothing in the workspace.                               *)
LEMMA GetKeeps ==
    ASSUME WorkspaceInv, NEW id \in Identity, Get(id)
    PROVE  WorkspaceInv'
<1>1. /\ held' = Handed({id}) /\ {id} \in SUBSET DOMAIN entries
      /\ UNCHANGED <<associations, next, entries, cutoff, newest, lost>>
  BY DEF Get
<1>2. LogOK' /\ next' <= next /\ lost' \in [Identity -> SUBSET Nat]
  BY <1>1 DEF WorkspaceInv, LogOK, NewestOK
<1>3. EntriesOK' /\ NewestOK'
  BY <1>1, <1>2, StillOK
<1>4. HeldOK'
  BY <1>1, HandedOK
<1> QED
  BY <1>2, <1>3, <1>4 DEF WorkspaceInv

(* What a copy put back does not know is in lost, so that it is up to date *)
(* but for that.                                                           *)
LEMMA InsertKeeps ==
    ASSUME WorkspaceInv, NEW id \in Identity,
           NEW copy \in held[id] \cup {NewEntry(t, 0) : t \in Time}, InsertEntry(id, copy)
    PROVE  /\ WorkspaceInv' /\ id \in DOMAIN entries'
           /\ \A i \in DOMAIN entries : /\ i \in DOMAIN entries'
                                        /\ i # id => entries'[i] = entries[i]
           /\ id \in DOMAIN entries => entries[id] \in held'[id]
<1>1. PICK entry \in Prepared(copy) : entries' = Insert(entries, id, entry)
  BY DEF InsertEntry
<1>2. /\ held' = Handed({id} \cap DOMAIN entries)
      /\ lost' = [lost EXCEPT ![id] = @ \cup (copy.applied + 1)..newest[id]]
      /\ UNCHANGED <<associations, next, cutoff, newest>>
  BY DEF InsertEntry
<1>3. newest[id] \in Nat /\ 0 <= newest[id]
  BY DEF WorkspaceInv, NewestOK
<1>4. EntryOK(id, copy) /\ copy.applied <= newest[id] /\ copy.applied \in Nat
  <2>1. CASE copy \in held[id]
    BY <2>1 DEF WorkspaceInv, HeldOK, EntryOK, Entry
  <2>2. CASE copy \notin held[id]
    <3>1. PICK t \in Time : copy = NewEntry(t, 0)
      BY <2>2
    <3> QED
      BY <1>3, <3>1, NewEntryOK, WorkspaceAssumption
  <2> QED
    BY <2>1, <2>2
<1>5. EntryOK(id, entry) /\ entry \in Entry /\ entry.applied = copy.applied
  BY <1>1, <1>4, PreparedOK DEF EntryOK
<1>6. /\ entries' \in [DOMAIN entries \cup {id} -> Entry] /\ entries'[id] = entry
      /\ \A i \in DOMAIN entries \ {id} : entries'[i] = entries[i]
  BY <1>1, <1>5 DEF Insert, WorkspaceInv, EntriesOK
<1>7. /\ lost' \in [Identity -> SUBSET Nat] /\ \A i \in Identity : lost[i] \subseteq lost'[i]
      /\ (copy.applied + 1)..newest[id] \subseteq lost'[id]
  <2>1. lost \in [Identity -> SUBSET Nat] /\ (copy.applied + 1)..newest[id] \subseteq Nat
    BY <1>3, <1>4 DEF WorkspaceInv, NewestOK
  <2> DEFINE missed == (copy.applied + 1)..newest[id]
  <2> HIDE DEF missed
  <2>2. lost' = [lost EXCEPT ![id] = @ \cup missed] /\ missed \subseteq Nat
    BY <1>2, <2>1 DEF missed
  <2>3. /\ lost' \in [Identity -> SUBSET Nat] /\ \A i \in Identity : lost[i] \subseteq lost'[i]
        /\ missed \subseteq lost'[id]
    BY <2>1, <2>2
  <2> QED
    BY <2>3 DEF missed
<1>8. LogOK' /\ next' <= next
  BY <1>2 DEF WorkspaceInv, LogOK
<1>9. /\ NewestOK'
      /\ \A i \in Identity, e \in Entry :
            EntryOK(i, e) => EntryOK(i, e)' /\ (UpToDate(i, e) => UpToDate(i, e)')
  BY <1>2, <1>7, <1>8, StillOK
<1>10. UpToDate(id, entry)'
  <2>1. \A o \in DOMAIN associations :
            o < next /\ associations[o].identity = id =>
                associations[o].version \in Nat /\ associations[o].version <= newest[id]
    BY LogElements DEF WorkspaceInv, NewestOK
  <2>2. \A o \in DOMAIN associations :
            o < next /\ associations[o].identity = id =>
                \/ associations[o].version <= copy.applied
                \/ associations[o].version \in (copy.applied + 1)..newest[id]
    BY <1>3, <1>4, <2>1
  <2> QED
    BY <1>2, <1>5, <1>7, <2>2 DEF UpToDate
<1>11. EntriesOK'
  <2>1. DOMAIN entries' = DOMAIN entries \cup {id} /\ DOMAIN entries' \subseteq Identity
    BY <1>6 DEF WorkspaceInv, EntriesOK
  <2>2. \A i \in DOMAIN entries \ {id} :
            /\ EntryOK(i, entries[i])' /\ UpToDate(i, entries[i])'
            /\ entries'[i].applied <= newest'[i]
    <3> SUFFICES ASSUME NEW i \in Identity, NEW e \in Entry, i \in DOMAIN entries \ {id},
                        e = entries[i]
                 PROVE  EntryOK(i, e)' /\ UpToDate(i, e)' /\ e.applied <= newest[i]
      BY <1>2, <1>6 DEF WorkspaceInv, EntriesOK
    <3> QED
      BY <1>9 DEF WorkspaceInv, EntriesOK
  <2>3. EntryOK(id, entry)' /\ entry.applied <= newest'[id]
    BY <1>2, <1>4, <1>5, <1>9
  <2> QED
    BY <1>6, <1>10, <2>1, <2>2, <2>3 DEF EntriesOK
<1>12. HeldOK' /\ (id \in DOMAIN entries => entries[id] \in held'[id])
  <2>1. {id} \cap DOMAIN entries \in SUBSET DOMAIN entries
    OBVIOUS
  <2> QED
    BY <1>2, <1>7, <2>1, HandedOK
<1> QED
  BY <1>6, <1>8, <1>9, <1>11, <1>12 DEF WorkspaceInv

(* The workspace begins empty.                                             *)
LEMMA WorkspaceInit == Init => WorkspaceInv
<1> SUFFICES ASSUME Init PROVE WorkspaceInv
  OBVIOUS
<1>1. LogOK
  BY DEF Init, LogOK
<1>2. EntriesOK /\ HeldOK /\ NewestOK
  BY DEF Init, EntriesOK, HeldOK, NewestOK, EmptyMap
<1> QED
  BY <1>1, <1>2 DEF WorkspaceInv

(* An entry goes on when it stays as it is.                                *)
LEMMA SameGoesOn ==
    ASSUME WorkspaceInv
    PROVE  \A id \in DOMAIN entries : Continues(entries[id], entries[id])
<1> SUFFICES ASSUME NEW id \in DOMAIN entries PROVE Continues(entries[id], entries[id])
  OBVIOUS
<1>1. entries[id].applied \in Nat /\ entries[id].history \in Seq(Nat)
  BY DEF WorkspaceInv, EntriesOK, Entry
<1> QED
  BY <1>1 DEF Continues, Remembered

(* Every step keeps the invariant; an entry goes back or is lost only as   *)
(* NothingLost allows.                                                     *)
LEMMA WorkspaceStep == ASSUME WorkspaceInv, [Next]_vars PROVE WorkspaceInv' /\ Kept
<1>1. UNCHANGED entries => Kept
  BY SameGoesOn DEF Kept
<1>2. ASSUME NEW id \in Identity, NEW v \in 1..MaxAssociations, NEW t \in Time, Commit(id, v, t)
      PROVE  WorkspaceInv' /\ UNCHANGED entries
  <2>1. v \in Nat
    BY <1>2, WorkspaceAssumption
  <2> QED
    BY <1>2, <2>1, CommitKeeps DEF Commit
<1>3. CASE Reconstruct
  <2>1. /\ DOMAIN entries \subseteq DOMAIN entries'
        /\ \A id \in DOMAIN entries : entries'[id] = entries[id]
    BY <1>3 DEF Reconstruct, Insert
  <2>2. Kept
    BY <2>1, SameGoesOn DEF Kept
  <2> QED
    BY <1>3, <2>2, ReconstructKeeps
<1>4. CASE MissingIdentity \/ UNCHANGED vars
  <2>1. UNCHANGED <<associations, next, entries, held, cutoff, newest, lost>>
    BY <1>4 DEF MissingIdentity, vars
  <2>2. LogOK' /\ next' <= next /\ lost' \in [Identity -> SUBSET Nat]
    BY <2>1 DEF WorkspaceInv, LogOK, NewestOK
  <2>3. EntriesOK' /\ HeldOK' /\ NewestOK'
    BY <2>1, <2>2, StillOK
  <2> QED
    BY <1>1, <2>1, <2>2, <2>3 DEF WorkspaceInv
<1>5. CASE StaleCommit
  BY <1>1, <1>5, StaleKeeps DEF StaleCommit
<1>6. CASE ApplyCommitted
  BY <1>6, ApplyKeeps DEF Kept
<1>7. ASSUME NEW n \in 1..MaxAssociations, Resume(n)
      PROVE  WorkspaceInv' /\ UNCHANGED entries
  <2>1. n \in Nat \ {0}
    BY <1>7, WorkspaceAssumption
  <2> QED
    BY <1>7, <2>1, ResumeKeeps DEF Resume
<1>8. ASSUME NEW time \in Time, EvictBefore(time)
      PROVE  WorkspaceInv' /\ Kept
  <2>1. /\ WorkspaceInv' /\ cutoff' = time
        /\ \A id \in DOMAIN entries :
              IF id \in DOMAIN entries' THEN entries'[id] = entries[id]
              ELSE entries[id] \in held'[id] /\ IdleAt(entries[id], time)
    BY <1>8, EvictKeeps
  <2>2. ASSUME NEW id \in DOMAIN entries, IdleAt(entries[id], time),
               NEW o \in Remembered(entries[id])
        PROVE  associations[o].event_time < cutoff'
    <3>1. EntryOK(id, entries[id]) /\ LogOK
      BY DEF WorkspaceInv, EntriesOK
    <3>2. /\ o \in DOMAIN associations
          /\ associations[o].event_time <= entries[id].last_activation
          /\ entries[id].last_activation \in Nat
      BY <3>1 DEF EntryOK, FollowsLog, Entry
    <3>3. associations[o].event_time \in Nat
      BY <3>1, <3>2, LogElements
    <3> QED
      BY <2>1, <2>2, <3>2, <3>3, WorkspaceAssumption DEF IdleAt
  <2>3. Kept
    BY <2>1, <2>2, SameGoesOn DEF Kept
  <2> QED
    BY <2>1, <2>3
<1>9. ASSUME NEW id \in Identity, Get(id)
      PROVE  WorkspaceInv' /\ UNCHANGED entries
  BY <1>9, GetKeeps DEF Get
<1>10. ASSUME NEW id \in Identity, NEW copy \in held[id] \cup {NewEntry(t, 0) : t \in Time},
              InsertEntry(id, copy)
       PROVE  WorkspaceInv' /\ Kept
  <2>1. /\ WorkspaceInv' /\ id \in DOMAIN entries'
        /\ \A i \in DOMAIN entries : /\ i \in DOMAIN entries'
                                     /\ i # id => entries'[i] = entries[i]
        /\ id \in DOMAIN entries => entries[id] \in held'[id]
    BY <1>10, InsertKeeps
  <2>2. Kept
    BY <2>1, SameGoesOn DEF Kept
  <2> QED
    BY <2>1, <2>2
<1> QED
  BY <1>1, <1>2, <1>3, <1>4, <1>5, <1>6, <1>7, <1>8, <1>9, <1>10 DEF Next

(* The hot workspace is a view of the ledger: whatever is delivered again, *)
(* evicted, inserted or begun anew, a history is associations of its       *)
(* identity in the order of their versions, with a gap only where an       *)
(* inserted entry did not know what had been applied.                      *)
THEOREM HistoryIsAView == Spec => []HistoryFollowsLog
<1>1. Init => WorkspaceInv
  BY WorkspaceInit
<1>2. WorkspaceInv /\ [Next]_vars => WorkspaceInv'
  BY WorkspaceStep
<1>3. WorkspaceInv => HistoryFollowsLog
  BY DEF WorkspaceInv, EntriesOK, HeldOK, EntryOK, HistoryFollowsLog
<1> QED
  BY <1>1, <1>2, <1>3, PTL DEF Spec

(* An entry that stays goes on and remembers all but its oldest; one that  *)
(* an eviction removes or an insertion replaces is handed to the owner as  *)
(* it was, and all that an evicted one remembers is older than the cutoff. *)
THEOREM EvictionKeepsAll == Spec => NothingLost
<1>1. Init => WorkspaceInv
  BY WorkspaceInit
<1>2. WorkspaceInv /\ [Next]_vars => WorkspaceInv' /\ Kept
  BY WorkspaceStep
<1> QED
  BY <1>1, <1>2, PTL DEF Spec, NothingLost
=============================================================================
