---------------------------- MODULE IntakeProofs ----------------------------
(***************************************************************************)
(* That the ingress loses and reorders nothing, and that a batch of the    *)
(* runtime infers with the newest publication, for every number of         *)
(* producers, items, publishers and publications.                          *)
(***************************************************************************)
EXTENDS Intake, SequenceTheorems, TLAPS

Begun == 0..published

Turn == [number : 1..published, store : {"providers", "snapshot"}]

CellTypes ==
    /\ published \in Publication
    /\ providers \in Begun /\ snapshot \in Begun
    /\ publishing \in [Publisher -> Turn \cup {Idle}]
    /\ earlier \in [Publication -> SUBSET Publication]

(* What is complete when a publication begins was begun before it, and     *)
(* has nothing left to store.                                              *)
EarlierComplete ==
    \A k \in Publication : \A j \in earlier[k] : j <= published /\ j \notin Underway

(* A publication that finds the one in a cell complete has the store into  *)
(* that cell before it.                                                    *)
ProvidersDue ==
    \A k \in Publication :
        k <= published /\ providers \in earlier[k] =>
            \E p \in Publisher : publishing[p] = [number |-> k, store |-> "providers"]

SnapshotDue ==
    \A k \in Publication : k <= published /\ snapshot \in earlier[k] => k \in Underway

(* No publication is under way while a batch runs, and what the batch has  *)
(* loaded is what the cells hold.                                          *)
BatchAlone ==
    /\ phase \in {"collecting", "snapshot", "providers", "inference"}
    /\ loaded \in [snapshot : Publication, providers : Publication]
    /\ phase # "collecting" => Unshared
    /\ phase \in {"providers", "inference"} => loaded.snapshot = snapshot
    /\ phase = "inference" => loaded.providers = providers

CellInv == CellTypes /\ EarlierComplete /\ ProvidersDue /\ SnapshotDue /\ BatchAlone

-----------------------------------------------------------------------------
(* Numbers are bounded by those of the publications begun. *)
LEMMA BegunArePublications == ASSUME CellTypes PROVE Begun \subseteq Publication
BY IntakeAssumption DEF CellTypes, Begun, Publication

(* Nothing is under way before the first publication.                      *)
LEMMA CellInit == Init => CellInv
<1> SUFFICES ASSUME Init PROVE CellInv
  OBVIOUS
<1>1. 0 \in Publication
  BY IntakeAssumption DEF Publication
<1>2. CellTypes
  BY <1>1 DEF Init, CellTypes, Begun
<1>3. EarlierComplete /\ ProvidersDue /\ SnapshotDue
  BY DEF Init, EarlierComplete, ProvidersDue, SnapshotDue
<1>4. BatchAlone
  BY <1>1 DEF Init, BatchAlone
<1> QED
  BY <1>2, <1>3, <1>4 DEF CellInv

(* A publication begins: its number is new, both its stores are due.       *)
LEMMA CellPublish ==
    ASSUME CellInv, NEW p \in Publisher, Publish(p)
    PROVE  CellInv'
<1> DEFINE n == published + 1
           turn == [number |-> n, store |-> "providers"]
<1>1. /\ published \in Nat /\ published < MaxPublications
      /\ n \in Publication /\ n \in 1..n /\ n \notin Begun
      /\ published' = n /\ publishing' = [publishing EXCEPT ![p] = turn]
      /\ earlier' = [earlier EXCEPT ![n] = Begun \ Underway]
      /\ UNCHANGED <<worker, cells>> /\ publishing[p] = Idle /\ phase = "collecting"
  BY IntakeAssumption DEF CellInv, CellTypes, Publish, Publication, Begun, Shared
<1>2. Begun \subseteq Publication
  BY BegunArePublications DEF CellInv
<1>3. /\ earlier'[n] = Begun \ Underway
      /\ \A k \in Publication \ {n} : earlier'[k] = earlier[k]
      /\ publishing'[p] = turn
      /\ \A q \in Publisher \ {p} : publishing'[q] = publishing[q]
  BY <1>1 DEF CellInv, CellTypes
<1>4. Underway' = Underway \cup {n}
  <2>1. turn # Idle /\ turn.number = n
    BY DEF Idle
  <2>2. n \in Underway'
    BY <1>3, <2>1 DEF Underway
  <2>3. \A q \in Publisher : publishing[q] # Idle => publishing'[q] = publishing[q]
    BY <1>1, <1>3
  <2>4. \A q \in Publisher : publishing'[q] # Idle =>
            publishing'[q].number = n \/ publishing'[q] = publishing[q]
    BY <1>3, <2>1
  <2> QED
    BY <2>2, <2>3, <2>4 DEF Underway
<1>5. CellTypes'
  <2>1. /\ published' \in Publication
        /\ providers' \in Begun' /\ snapshot' \in Begun'
    BY <1>1 DEF CellInv, CellTypes, Begun, cells
  <2>2. Turn \subseteq Turn' /\ turn \in Turn'
    BY <1>1 DEF Turn
  <2>3. publishing' \in [Publisher -> Turn' \cup {Idle}]
    BY <1>1, <2>2 DEF CellInv, CellTypes
  <2>4. earlier' \in [Publication -> SUBSET Publication]
    BY <1>1, <1>2 DEF CellInv, CellTypes
  <2> QED
    BY <2>1, <2>3, <2>4 DEF CellTypes
<1>6. EarlierComplete'
  <2> SUFFICES ASSUME NEW k \in Publication, NEW j \in earlier'[k]
               PROVE  j <= published' /\ j \notin Underway'
    BY DEF EarlierComplete
  <2>1. j \in Begun /\ j \notin Underway
    BY <1>1, <1>3 DEF CellInv, CellTypes, EarlierComplete, Begun, Publication
  <2> QED
    BY <1>1, <1>4, <2>1 DEF Begun
<1>7. ProvidersDue'
  <2> SUFFICES ASSUME NEW k \in Publication, k <= published', providers' \in earlier'[k]
               PROVE  \E q \in Publisher : publishing'[q] = [number |-> k, store |-> "providers"]
    BY DEF ProvidersDue
  <2>1. CASE k = n
    BY <1>3, <2>1
  <2>2. CASE k # n
    <3>1. k <= published /\ providers \in earlier[k]
      BY <1>1, <1>3, <2>2 DEF cells, Publication
    <3>2. PICK q \in Publisher : publishing[q] = [number |-> k, store |-> "providers"]
      BY <3>1 DEF CellInv, ProvidersDue
    <3>3. q # p
      BY <1>1, <3>2 DEF Idle
    <3> QED
      BY <1>3, <3>2, <3>3
  <2> QED
    BY <2>1, <2>2
<1>8. SnapshotDue'
  <2> SUFFICES ASSUME NEW k \in Publication, k <= published', snapshot' \in earlier'[k], k # n
               PROVE  k \in Underway
    BY <1>4 DEF SnapshotDue
  <2>1. k <= published /\ snapshot \in earlier[k]
    BY <1>1, <1>3 DEF cells, Publication
  <2> QED
    BY <2>1 DEF CellInv, SnapshotDue
<1>9. BatchAlone'
  BY <1>1 DEF CellInv, BatchAlone, worker
<1> QED
  BY <1>5, <1>6, <1>7, <1>8, <1>9 DEF CellInv

(* A publisher's turn is at one of its stores only in a publication, which *)
(* no batch overlaps.                                                      *)
LEMMA TurnOfPublisher ==
    ASSUME CellInv, NEW p \in Publisher, NEW store \in {"providers", "snapshot"}, At(p, store)
    PROVE  /\ publishing[p] = [number |-> publishing[p].number, store |-> store]
           /\ publishing[p] # Idle
           /\ publishing[p].number \in 1..published
           /\ publishing[p].number \in Underway
           /\ phase = "collecting"
<1>1. publishing[p] # Idle
  BY DEF At, Idle
<1>2. publishing[p] \in Turn
  BY <1>1 DEF CellInv, CellTypes
<1>3. publishing[p].number \in Underway
  BY <1>1 DEF Underway
<1>4. phase = "collecting"
  BY <1>1 DEF CellInv, BatchAlone, Unshared
<1> QED
  BY <1>1, <1>2, <1>3, <1>4 DEF At, Turn

(* The providers of a publication that is under way are in no              *)
(* publication's past.                                                     *)
LEMMA CellStoreProviders ==
    ASSUME CellInv, NEW p \in Publisher, StoreProviders(p)
    PROVE  CellInv'
<1> DEFINE n == publishing[p].number
           turn == [number |-> n, store |-> "snapshot"]
<1>1. /\ publishing[p] = [number |-> n, store |-> "providers"] /\ publishing[p] # Idle
      /\ n \in 1..published /\ n \in Underway /\ phase = "collecting"
  BY TurnOfPublisher DEF StoreProviders
<1>2. /\ providers' = n /\ publishing' = [publishing EXCEPT ![p] = turn]
      /\ UNCHANGED <<worker, snapshot, published, earlier>>
  <2>1. [publishing[p] EXCEPT !.store = "snapshot"] = turn
    BY <1>1
  <2>2. publishing' = [publishing EXCEPT ![p] = [publishing[p] EXCEPT !.store = "snapshot"]]
    BY DEF StoreProviders
  <2> QED
    BY <2>1, <2>2 DEF StoreProviders
<1>3. /\ publishing'[p] = turn
      /\ \A q \in Publisher \ {p} : publishing'[q] = publishing[q]
  BY <1>2 DEF CellInv, CellTypes
<1>4. Underway' = Underway
  <2>1. \A q \in Publisher : /\ publishing'[q] # Idle <=> publishing[q] # Idle
                             /\ publishing'[q].number = publishing[q].number
    BY <1>1, <1>3 DEF Idle
  <2> QED
    BY <2>1 DEF Underway
<1>5. CellTypes'
  <2>1. turn \in Turn /\ Turn' = Turn /\ Begun' = Begun /\ n \in Begun
    BY <1>1, <1>2 DEF Turn, Begun, CellInv, CellTypes, Publication
  <2> QED
    BY <1>2, <2>1 DEF CellInv, CellTypes
<1>6. EarlierComplete'
  BY <1>2, <1>4 DEF CellInv, EarlierComplete
<1>7. ProvidersDue'
  <2>1. \A k \in Publication : n \notin earlier[k]
    BY <1>1 DEF CellInv, EarlierComplete
  <2> QED
    BY <1>2, <2>1 DEF ProvidersDue
<1>8. SnapshotDue'
  BY <1>2, <1>4 DEF CellInv, SnapshotDue
<1>9. BatchAlone'
  BY <1>1, <1>2 DEF CellInv, BatchAlone, worker
<1> QED
  BY <1>5, <1>6, <1>7, <1>8, <1>9 DEF CellInv

(* So is its snapshot; and whoever has yet to store providers is another.  *)
LEMMA CellStoreSnapshot ==
    ASSUME CellInv, NEW p \in Publisher, StoreSnapshot(p)
    PROVE  CellInv'
<1> DEFINE n == publishing[p].number
<1>1. /\ publishing[p] = [number |-> n, store |-> "snapshot"] /\ publishing[p] # Idle
      /\ n \in 1..published /\ n \in Underway /\ phase = "collecting"
  BY TurnOfPublisher DEF StoreSnapshot
<1>2. /\ snapshot' = n /\ publishing' = [publishing EXCEPT ![p] = Idle]
      /\ UNCHANGED <<worker, providers, published, earlier>>
  BY DEF StoreSnapshot
<1>3. /\ publishing'[p] = Idle
      /\ \A q \in Publisher \ {p} : publishing'[q] = publishing[q]
  BY <1>2 DEF CellInv, CellTypes
<1>4. Underway' \subseteq Underway
  BY <1>3 DEF Underway
<1>5. CellTypes'
  <2>1. Turn' = Turn /\ Begun' = Begun /\ n \in Begun
    BY <1>1, <1>2 DEF Turn, Begun, CellInv, CellTypes, Publication
  <2> QED
    BY <1>2, <2>1 DEF CellInv, CellTypes
<1>6. EarlierComplete'
  BY <1>2, <1>4 DEF CellInv, EarlierComplete
<1>7. ProvidersDue'
  <2> SUFFICES ASSUME NEW k \in Publication, k <= published, providers \in earlier[k]
               PROVE  \E q \in Publisher : publishing'[q] = [number |-> k, store |-> "providers"]
    BY <1>2 DEF ProvidersDue
  <2>1. PICK q \in Publisher : publishing[q] = [number |-> k, store |-> "providers"]
    BY DEF CellInv, ProvidersDue
  <2> QED
    BY <1>1, <1>3, <2>1
<1>8. SnapshotDue'
  <2>1. \A k \in Publication : n \notin earlier[k]
    BY <1>1 DEF CellInv, EarlierComplete
  <2> QED
    BY <1>2, <2>1 DEF SnapshotDue
<1>9. BatchAlone'
  BY <1>1, <1>2 DEF CellInv, BatchAlone, worker
<1> QED
  BY <1>5, <1>6, <1>7, <1>8, <1>9 DEF CellInv

(* A step that leaves the cells and the publishers alone disturbs at most  *)
(* what is said of the batch.                                              *)
LEMMA CellBatch ==
    ASSUME CellInv, UNCHANGED <<cells, publishers>>, BatchAlone'
    PROVE  CellInv'
<1>1. UNCHANGED <<providers, snapshot, publishing, published, earlier>>
  BY DEF cells, publishers
<1>2. Underway' = Underway
  BY <1>1 DEF Underway
<1>3. CellTypes'
  BY <1>1 DEF CellInv, CellTypes, Begun, Turn
<1>4. EarlierComplete' /\ ProvidersDue' /\ SnapshotDue'
  BY <1>1, <1>2 DEF CellInv, EarlierComplete, ProvidersDue, SnapshotDue
<1> QED
  BY <1>3, <1>4 DEF CellInv

(* The worker and the producers keep it.                                   *)
LEMMA CellStep == ASSUME CellInv, [Next]_vars PROVE CellInv'
<1>1. CASE \E p \in Producer : TrySend(p)
  <2>1. UNCHANGED <<worker, cells, publishers>>
    BY <1>1 DEF TrySend
  <2>2. BatchAlone'
    BY <2>1 DEF CellInv, BatchAlone, worker, cells, publishers, Unshared
  <2> QED
    BY <2>1, <2>2, CellBatch
<1>2. CASE TryRecv
  <2>1. UNCHANGED <<phase, loaded, cells, publishers>>
    BY <1>2 DEF TryRecv
  <2>2. BatchAlone'
    BY <2>1 DEF CellInv, BatchAlone, cells, publishers, Unshared
  <2> QED
    BY <2>1, <2>2, CellBatch
<1>3. CASE ProcessBatch
  <2>1. BatchAlone' /\ UNCHANGED <<cells, publishers>>
    BY <1>3 DEF ProcessBatch, CellInv, BatchAlone, publishers, Unshared
  <2> QED
    BY <2>1, CellBatch
<1>4. CASE LoadSnapshot
  <2>1. snapshot \in Publication
    BY BegunArePublications DEF CellInv, CellTypes
  <2>2. BatchAlone' /\ UNCHANGED <<cells, publishers>>
    BY <1>4, <2>1 DEF LoadSnapshot, CellInv, BatchAlone, publishers, cells, Unshared
  <2> QED
    BY <2>2, CellBatch
<1>5. CASE LoadProviders
  <2>1. providers \in Publication
    BY BegunArePublications DEF CellInv, CellTypes
  <2>2. BatchAlone' /\ UNCHANGED <<cells, publishers>>
    BY <1>5, <2>1 DEF LoadProviders, CellInv, BatchAlone, publishers, cells, Unshared
  <2> QED
    BY <2>2, CellBatch
<1>6. CASE BatchReturns
  <2>1. BatchAlone' /\ UNCHANGED <<cells, publishers>>
    BY <1>6 DEF BatchReturns, CellInv, BatchAlone
  <2> QED
    BY <2>1, CellBatch
<1>7. CASE \E p \in Publisher : Publish(p) \/ StoreProviders(p) \/ StoreSnapshot(p)
  BY <1>7, CellPublish, CellStoreProviders, CellStoreSnapshot
<1>8. CASE UNCHANGED vars
  <2>1. UNCHANGED <<phase, loaded, cells, publishers>>
    BY <1>8 DEF vars, cells, publishers
  <2>2. BatchAlone'
    BY <2>1 DEF CellInv, BatchAlone, cells, publishers, Unshared
  <2> QED
    BY <2>1, <2>2, CellBatch
<1>9. (\E p \in Producer : TrySendFull(p)) \/ TryRecvEmpty => UNCHANGED vars
  BY DEF TrySendFull, TryRecvEmpty
<1> QED
  BY <1>1, <1>2, <1>3, <1>4, <1>5, <1>6, <1>7, <1>8, <1>9 DEF Next

(* While nothing is under way, no publication finds complete what a cell   *)
(* holds: the cells hold the newest.                                       *)
LEMMA CellsNewest == ASSUME CellInv PROVE BatchSeesNewest
<1> SUFFICES ASSUME phase = "inference"
             PROVE  /\ Newest(loaded.providers) /\ Newest(loaded.snapshot)
                    /\ Overlapping(loaded.providers, loaded.snapshot)
  BY DEF BatchSeesNewest
<1>1. Unshared /\ loaded.snapshot = snapshot /\ loaded.providers = providers
  BY DEF CellInv, BatchAlone
<1>2. Newest(providers)
  <2>1. \A p \in Publisher, k \in Publication :
            publishing[p] # [number |-> k, store |-> "providers"]
    BY <1>1 DEF Unshared, Idle
  <2> QED
    BY <2>1 DEF CellInv, ProvidersDue, Newest
<1>3. Newest(snapshot)
  BY <1>1 DEF CellInv, SnapshotDue, Newest, Unshared, Underway
<1>4. /\ providers \in Publication /\ snapshot \in Publication
      /\ providers <= published /\ snapshot <= published
  BY BegunArePublications DEF CellInv, CellTypes, Begun
<1>5. Overlapping(providers, snapshot)
  BY <1>2, <1>3, <1>4 DEF Newest, Overlapping
<1> QED
  BY <1>1, <1>2, <1>3, <1>5

(* A batch infers with the newest publication, or with one cell of each of *)
(* two that overlapped: publish and the loads of process_batch, for any    *)
(* number of publishers.                                                   *)
THEOREM NewestPublication == Spec => []BatchSeesNewest
<1>1. Init => CellInv
  BY CellInit
<1>2. CellInv /\ [Next]_vars => CellInv'
  BY CellStep
<1>3. CellInv => BatchSeesNewest
  BY CellsNewest
<1> QED
  BY <1>1, <1>2, <1>3, PTL DEF Spec
-----------------------------------------------------------------------------
(***************************************************************************)
(* The ingress.  TrySend puts an item at the end of the line, under a      *)
(* number its producer has not used; nothing else changes the line.        *)
(***************************************************************************)
Item == Producer \X (1..MaxItems)

LineTypes ==
    /\ accepted \in [Producer -> 0..MaxItems]
    /\ processed \in Seq(Item) /\ batch \in Seq(Item) /\ queue \in Seq(Item)

LineInv == LineTypes /\ AcceptedInOrder

(* What a step leaves in the line as it was stays accepted and in order.   *)
LEMMA LineKept ==
    ASSUME AcceptedInOrder, Line' = Line, accepted' = accepted, Len(queue') <= Capacity
    PROVE  AcceptedInOrder'
BY DEF AcceptedInOrder

(* An item enters behind all others.                                       *)
LEMMA LineTrySend ==
    ASSUME LineInv, NEW p \in Producer, TrySend(p)
    PROVE  LineInv'
<1> DEFINE n == accepted[p] + 1
           item == <<p, n>>
<1>1. /\ item \in Item /\ n \in 1..MaxItems /\ accepted[p] \in Nat
      /\ queue' = Append(queue, item) /\ UNCHANGED <<processed, batch>>
      /\ accepted' = [accepted EXCEPT ![p] = n] /\ Len(queue) < Capacity
  BY IntakeAssumption DEF LineInv, LineTypes, TrySend, Item, worker
<1> HIDE DEF item
<1>2. LineTypes'
  BY <1>1 DEF LineInv, LineTypes
<1>3. Line \in Seq(Item) /\ Line' = Append(Line, item)
  BY <1>1 DEF LineInv, LineTypes, Line
<1>4. /\ DOMAIN Line = 1..Len(Line) /\ DOMAIN Line' = 1..(Len(Line) + 1) /\ Len(Line) \in Nat
      /\ \A i \in DOMAIN Line : Line'[i] = Line[i]
      /\ Line'[Len(Line) + 1] = item
  BY <1>1, <1>3
<1>5. /\ accepted'[p] = n
      /\ \A q \in Producer \ {p} : accepted'[q] = accepted[q]
  BY <1>1 DEF LineInv, LineTypes
<1>6. item[1] = p /\ item[2] = n
  BY DEF item
<1>7. \A i \in DOMAIN Line : Line[i] \in Item /\ Line[i][2] <= accepted[Line[i][1]]
  <2> SUFFICES ASSUME NEW i \in DOMAIN Line
               PROVE  Line[i] \in Item /\ Line[i][2] <= accepted[Line[i][1]]
    OBVIOUS
  <2>1. Line[i] \in {it \in Producer \X (1..MaxItems) : it[2] <= accepted[it[1]]}
    BY DEF LineInv, AcceptedInOrder
  <2> QED
    BY <2>1 DEF Item
<1>8. Len(queue') <= Capacity
  BY <1>1, IntakeAssumption DEF LineInv, LineTypes
<1>9. {Line'[i] : i \in DOMAIN Line'} =
          {it \in Producer \X (1..MaxItems) : it[2] <= accepted'[it[1]]}
  <2>1. {Line'[i] : i \in DOMAIN Line'} = {Line[i] : i \in DOMAIN Line} \cup {item}
    BY <1>4
  <2>2. {it \in Producer \X (1..MaxItems) : it[2] <= accepted'[it[1]]} =
            {it \in Producer \X (1..MaxItems) : it[2] <= accepted[it[1]]} \cup {item}
    <3>1. ASSUME NEW q \in Producer, NEW m \in 1..MaxItems
          PROVE  m <= accepted'[q] <=> m <= accepted[q] \/ <<q, m>> = item
      <4>1. CASE q = p
        <5>1. m <= n <=> m <= accepted[p] \/ m = n
          BY <1>1
        <5> QED
          BY <1>5, <4>1, <5>1 DEF item
      <4>2. CASE q # p
        BY <1>5, <4>2 DEF item
      <4> QED
        BY <4>1, <4>2
    <3> QED
      BY <1>1, <3>1 DEF Item
  <2> QED
    BY <2>1, <2>2 DEF LineInv, AcceptedInOrder
<1>10. ASSUME NEW i \in DOMAIN Line', NEW j \in DOMAIN Line', i < j, Line'[i][1] = Line'[j][1]
       PROVE  Line'[i][2] < Line'[j][2]
  <2>1. CASE j \in DOMAIN Line
    <3>1. i \in DOMAIN Line
      BY <1>4, <1>10, <2>1
    <3> QED
      BY <1>4, <1>10, <2>1, <3>1 DEF LineInv, AcceptedInOrder
  <2>2. CASE j \notin DOMAIN Line
    <3>1. j = Len(Line) + 1 /\ i \in DOMAIN Line
      BY <1>4, <1>10, <2>2
    <3>2. Line[i] \in Item /\ Line[i][1] = p /\ Line[i][2] <= accepted[p]
      BY <1>4, <1>6, <1>7, <1>10, <3>1
    <3> QED
      BY <1>1, <1>4, <1>6, <3>1, <3>2 DEF Item
  <2> QED
    BY <2>1, <2>2
<1> QED
  BY <1>2, <1>8, <1>9, <1>10 DEF LineInv, AcceptedInOrder

(* The worker moves items along the line.                                  *)
LEMMA LineStep == ASSUME LineInv, [Next]_vars PROVE LineInv'
<1>1. CASE \E p \in Producer : TrySend(p)
  BY <1>1, LineTrySend
<1>2. CASE TryRecv
  <2>1. /\ queue \in Seq(Item) /\ batch \in Seq(Item) /\ processed \in Seq(Item)
        /\ queue # <<>> /\ batch' = Append(batch, Head(queue)) /\ queue' = Tail(queue)
        /\ UNCHANGED <<processed, accepted>>
    BY <1>2 DEF LineInv, LineTypes, TryRecv
  <2>2. /\ Head(queue) \in Item /\ queue' \in Seq(Item) /\ Len(queue') = Len(queue) - 1
        /\ Len(queue) \in Nat
    BY <2>1, HeadTailProperties, LenProperties
  <2>3. LineTypes'
    BY <2>1, <2>2 DEF LineInv, LineTypes
  <2>4. Append(batch, Head(queue)) \o Tail(queue) = batch \o queue
    BY <2>1, <2>2
  <2>5. Line' = Line
    <3>1. Line = processed \o (batch \o queue)
      BY <2>1, ConcatAssociative DEF Line
    <3>2. Line' = processed \o (batch' \o queue')
      <4>1. processed \in Seq(Item) /\ batch' \in Seq(Item) /\ queue' \in Seq(Item)
        BY <2>1, <2>3 DEF LineTypes
      <4>2. \A b, q \in Seq(Item) : (processed \o b) \o q = processed \o (b \o q)
        BY <4>1, ConcatAssociative
      <4>3. (processed \o batch') \o queue' = processed \o (batch' \o queue')
        BY <4>1, <4>2
      <4> QED
        BY <2>1, <4>3 DEF Line
    <3> QED
      BY <2>1, <2>4, <3>1, <3>2
  <2>6. Len(queue') <= Capacity
    BY <2>2, IntakeAssumption DEF LineInv, AcceptedInOrder
  <2> QED
    BY <2>1, <2>3, <2>5, <2>6, LineKept DEF LineInv
<1>3. CASE BatchReturns
  <2>1. /\ queue \in Seq(Item) /\ batch \in Seq(Item) /\ processed \in Seq(Item)
        /\ processed' = processed \o batch /\ batch' = <<>> /\ UNCHANGED <<queue, accepted>>
    BY <1>3 DEF LineInv, LineTypes, BatchReturns, ingress
  <2>2. LineTypes' /\ Line' = Line
    BY <2>1 DEF LineInv, LineTypes, Line
  <2> QED
    BY <2>1, <2>2, LineKept DEF LineInv, AcceptedInOrder
<1>4. CASE UNCHANGED <<queue, accepted, batch, processed>>
  <2>1. LineTypes' /\ Line' = Line
    BY <1>4 DEF LineInv, LineTypes, Line
  <2> QED
    BY <1>4, <2>1, LineKept DEF LineInv, AcceptedInOrder
<1> QED
  BY <1>1, <1>2, <1>3, <1>4 DEF Next, TrySendFull, TryRecvEmpty, ProcessBatch, LoadSnapshot,
     LoadProviders, Publish, StoreProviders, StoreSnapshot, vars, ingress, worker

(* BoundedIngress loses, repeats and reorders nothing it has accepted, for *)
(* any number of producers and any capacity.                               *)
THEOREM IngressKeepsOrder == Spec => []AcceptedInOrder
<1>1. Init => LineInv
  BY IntakeAssumption DEF Init, LineInv, LineTypes, AcceptedInOrder, Line
<1>2. LineInv => AcceptedInOrder
  BY DEF LineInv
<1> QED
  BY <1>1, <1>2, LineStep, PTL DEF Spec
=============================================================================
