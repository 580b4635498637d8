------------------------------- MODULE Intake -------------------------------
(***************************************************************************)
(* What reaches a batch of li-runtime: the items several producers put     *)
(* into the bounded ingress, and the providers and the snapshot several    *)
(* publishers put into the two cells of the runtime, one store after the   *)
(* other.                                                                  *)
(*                                                                         *)
(* publish borrows the runtime shared and process_batch borrows it alone:  *)
(* publications overlap each other and never a batch.  The threads that    *)
(* produce, publish and work are outside src/.                             *)
(***************************************************************************)
EXTENDS Naturals, Sequences

CONSTANTS
    Producer, Publisher,
    Capacity,         \* of the ingress
    BatchSize,        \* bound: the items the worker collects for a batch
    MaxItems,         \* bound: the items of a producer
    MaxPublications   \* bound: the publications, beside the first

ASSUME IntakeAssumption ==
    /\ Capacity \in Nat \ {0} /\ BatchSize \in Nat \ {0}
    /\ MaxItems \in Nat /\ MaxPublications \in Nat

Publication == 0..MaxPublications
Idle == [number |-> 0, store |-> "none"]

VARIABLES
    queue,       \* the ingress: items, each a producer and a number
    accepted,    \* producer -> the number of its last item that was accepted
    batch,       \* the items the worker has collected, or runs as a batch
    processed,   \* the items of the batches before, in order
    phase,       \* of the worker: "collecting", "snapshot", "providers" or "inference"
    loaded,      \* what the batch has loaded
    providers, snapshot,  \* the two cells: the publication each is from
    publishing,  \* publisher -> its publication and the next store, or Idle
    published,   \* the publications begun, beside the first
    earlier      \* publication -> those that were complete when it began

vars == <<queue, accepted, batch, processed, phase, loaded,
          providers, snapshot, publishing, published, earlier>>

ingress == <<queue, accepted>>
worker == <<batch, processed, phase, loaded>>
cells == <<providers, snapshot>>
publishers == <<publishing, published, earlier>>

Init ==
    /\ queue = <<>> /\ accepted = [p \in Producer |-> 0]
    /\ batch = <<>> /\ processed = <<>> /\ phase = "collecting"
    /\ loaded = [snapshot |-> 0, providers |-> 0]
    /\ providers = 0 /\ snapshot = 0
    /\ publishing = [p \in Publisher |-> Idle] /\ published = 0
    /\ earlier = [k \in Publication |-> {}]

-----------------------------------------------------------------------------
(* BoundedIngress.  A producer that is told the ingress is full keeps its  *)
(* item.                                                                   *)

(* Fault: the oldest item makes room for the new one. *)
SendOverwriting(p) ==
    /\ accepted[p] < MaxItems
    /\ queue' = Append(IF Len(queue) < Capacity THEN queue ELSE Tail(queue),
                       <<p, accepted[p] + 1>>)
    /\ accepted' = [accepted EXCEPT ![p] = @ + 1]
    /\ UNCHANGED <<worker, cells, publishers>>

TrySend(p) ==
    /\ accepted[p] < MaxItems
    /\ Len(queue) < Capacity
    /\ queue' = Append(queue, <<p, accepted[p] + 1>>)
    /\ accepted' = [accepted EXCEPT ![p] = @ + 1]
    /\ UNCHANGED <<worker, cells, publishers>>

TrySendFull(p) ==
    /\ accepted[p] < MaxItems
    /\ Len(queue) = Capacity
    /\ UNCHANGED vars

TryRecv ==
    /\ phase = "collecting" /\ Len(batch) < BatchSize
    /\ queue # <<>>
    /\ batch' = Append(batch, Head(queue)) /\ queue' = Tail(queue)
    /\ UNCHANGED <<accepted, processed, phase, loaded, cells, publishers>>

TryRecvEmpty ==
    /\ phase = "collecting" /\ queue = <<>>
    /\ UNCHANGED vars

-----------------------------------------------------------------------------
(* process_batch, as far as it reads the cells.  Its borrow waits for the  *)
(* publishers' and theirs for its end.                                     *)

Unshared == \A p \in Publisher : publishing[p] = Idle
Shared == phase = "collecting"

ProcessBatch ==
    /\ phase = "collecting" /\ batch # <<>>
    /\ Unshared
    /\ phase' = "snapshot"
    /\ UNCHANGED <<ingress, batch, processed, loaded, cells, publishers>>

(* Fault: a batch reuses the snapshot of the batch before. *)
KeepSnapshot ==
    /\ phase = "snapshot"
    /\ loaded' = IF processed = <<>> THEN [loaded EXCEPT !.snapshot = snapshot] ELSE loaded
    /\ phase' = "providers"
    /\ UNCHANGED <<ingress, batch, processed, cells, publishers>>

LoadSnapshot ==
    /\ phase = "snapshot"
    /\ loaded' = [loaded EXCEPT !.snapshot = snapshot]
    /\ phase' = "providers"
    /\ UNCHANGED <<ingress, batch, processed, cells, publishers>>

LoadProviders ==
    /\ phase = "providers"
    /\ loaded' = [loaded EXCEPT !.providers = providers]
    /\ phase' = "inference"
    /\ UNCHANGED <<ingress, batch, processed, cells, publishers>>

BatchReturns ==
    /\ phase = "inference"
    /\ processed' = processed \o batch /\ batch' = <<>>
    /\ phase' = "collecting"
    /\ UNCHANGED <<ingress, loaded, cells, publishers>>

-----------------------------------------------------------------------------
(* publish *)
Underway == {publishing[p].number : p \in {q \in Publisher : publishing[q] # Idle}}

Publish(p) ==
    /\ Shared /\ publishing[p] = Idle
    /\ published < MaxPublications
    /\ published' = published + 1
    /\ publishing' = [publishing EXCEPT ![p] = [number |-> published', store |-> "providers"]]
    /\ earlier' = [earlier EXCEPT ![published'] = (0..published) \ Underway]
    /\ UNCHANGED <<ingress, worker, cells>>

At(p, store) == publishing[p].store = store

StoreProviders(p) ==
    /\ At(p, "providers")
    /\ providers' = publishing[p].number
    /\ publishing' = [publishing EXCEPT ![p].store = "snapshot"]
    /\ UNCHANGED <<ingress, worker, snapshot, published, earlier>>

StoreSnapshot(p) ==
    /\ At(p, "snapshot")
    /\ snapshot' = publishing[p].number
    /\ publishing' = [publishing EXCEPT ![p] = Idle]
    /\ UNCHANGED <<ingress, worker, providers, published, earlier>>

Next ==
    \/ \E p \in Producer : TrySend(p) \/ TrySendFull(p)
    \/ TryRecv \/ TryRecvEmpty
    \/ ProcessBatch \/ LoadSnapshot \/ LoadProviders \/ BatchReturns
    \/ \E p \in Publisher : Publish(p) \/ StoreProviders(p) \/ StoreSnapshot(p)

Spec == Init /\ [][Next]_vars

-----------------------------------------------------------------------------
(* The items accepted so far, as far as they have got. *)
Line == processed \o batch \o queue

(* An item that was accepted is processed once: what has been processed,   *)
(* is in the batch or waits is exactly what the producers were told was    *)
(* accepted, those of one producer stand in the order it sent them, and    *)
(* the ingress never holds more than its capacity.                         *)
AcceptedInOrder ==
    /\ Len(queue) <= Capacity
    /\ {Line[i] : i \in DOMAIN Line} =
           {item \in Producer \X (1..MaxItems) : item[2] <= accepted[item[1]]}
    /\ \A i, j \in DOMAIN Line : i < j /\ Line[i][1] = Line[j][1] => Line[i][2] < Line[j][2]

Overlapping(j, k) == j \notin earlier[k] /\ k \notin earlier[j]

(* The publication a batch finds in a cell: no later one was complete.     *)
Newest(k) == \A j \in Publication : j <= published => k \notin earlier[j]

(* A batch infers with the newest publication: the providers and the       *)
(* snapshot of one publication, or, if two publications overlapped, the    *)
(* one's providers and the other's snapshot.                               *)
BatchSeesNewest ==
    phase = "inference" =>
        /\ Newest(loaded.providers) /\ Newest(loaded.snapshot)
        /\ loaded.providers # loaded.snapshot => Overlapping(loaded.providers, loaded.snapshot)

(* publish: "Atomically publishes provider and index snapshots for later   *)
(* batches".  Not so when two publishers come to its two stores in turn.   *)
PublishedTogether == phase = "inference" => loaded.providers = loaded.snapshot
=============================================================================
