--------------------------- MODULE DurableLedger ---------------------------
(***************************************************************************)
(* DurableLedger of li-storage: a memory ledger in front of a key-value    *)
(* backend.  A valid envelope is put under the key of its version first    *)
(* and applied in memory after; `open' replays the stored envelopes in the *)
(* order of their keys through the same commit.  The process may die at    *)
(* any point, and then only the backend is left.                           *)
(***************************************************************************)
EXTENDS Ledger, KeyValue

(* A version fits into its digits. *)
ASSUME KeysAssumption == Shifted(MaxVersion)[Digits] = 0

VARIABLES
    staged,  \* the valid envelope that is still to be written, or None
    disk,    \* the table: key -> stored envelope
    mode,    \* "running", "down", "opening" or "corrupt"
    before   \* the ledger a crash or restart lost, or None; for Recovered

storage == <<staged, disk, mode, before>>
durablevars == <<vars, storage>>

DurableInit ==
    Init /\ staged = None /\ disk = EmptyMap /\ mode = "running" /\ before = None

-----------------------------------------------------------------------------
(* commit_envelope *)

Waiting == mode = "running" /\ staged = None

Respond == Waiting /\ Prepare /\ UNCHANGED storage

(* prepare has succeeded and the envelope is serialized; nothing is applied. *)
Stage(e) ==
    /\ Waiting /\ Settled
    /\ Valid(e)
    /\ staged' = e
    /\ outcome' = Answer("Pending", 0, None)
    /\ before' = None
    /\ UNCHANGED <<state, inflight, cursor, targets, disk, mode>>

PutSucceeds ==
    /\ staged # None
    /\ disk' = ApplyTransaction(disk, <<Put(DurableKey(next_version), staged)>>)
    /\ inflight' = staged /\ cursor' = 1
    /\ staged' = None
    /\ UNCHANGED <<state, targets, outcome, mode, before>>

(* Fault: the result of the write is ignored. *)
PutFailsAcknowledged ==
    /\ staged # None
    /\ staged' = None
    /\ outcome' = Answer("Committed", next_version, staged)
    /\ UNCHANGED <<state, inflight, cursor, targets, disk, mode, before>>

PutFails ==
    /\ staged # None
    /\ staged' = None
    /\ outcome' = Answer("Storage", 0, None)
    /\ UNCHANGED <<state, inflight, cursor, targets, disk, mode, before>>

ApplyStep == Apply /\ UNCHANGED storage

Return == mode = "running" /\ Publish /\ UNCHANGED storage

-----------------------------------------------------------------------------
(* The memory of a process that starts: see Empty. *)
Forget ==
    /\ observations' = EmptyMap /\ observation_commits' = EmptyMap
    /\ inferences' = EmptyMap /\ decisions' = EmptyMap
    /\ current_inference' = EmptyMap /\ current_decision' = EmptyMap
    /\ identities' = EmptyMap /\ promotions' = EmptyMap
    /\ merges' = EmptyMap /\ canonical' = EmptyMap
    /\ outbox' = EmptyMap /\ receipts' = <<>>
    /\ version' = 0 /\ transactions' = <<>>
    /\ transaction_indexes' = EmptyMap /\ dependents' = EmptyMap
    /\ idempotency' = EmptyMap
    /\ inflight' = None /\ cursor' = 0 /\ targets' = {}

(* The process dies, or is stopped: a caller that waited gets no answer. *)
Crash ==
    /\ mode \in {"running", "opening"}
    /\ Forget
    /\ staged' = None /\ outcome' = Answer("None", 0, None)
    /\ mode' = "down"
    /\ before' = IF mode = "opening" THEN before
                 ELSE IF Settled THEN state ELSE None
    /\ UNCHANGED disk

(* open: prefix_scan, then one commit per record. *)
Reopen ==
    /\ mode = "down"
    /\ mode' = "opening"
    /\ UNCHANGED <<vars, staged, disk, before>>

Records == PrefixScan(disk)

(* The records come back in the order of their keys, and record n must     *)
(* have the key of version n.                                              *)
NextRecord == version + 1

(* Fault: the scan stops one record early. *)
UnreadButLast == NextRecord < Len(Records)

Unread == NextRecord <= Len(Records)

Replayable ==
    /\ DecodeDurableKey(Records[NextRecord].key) = NextRecord
    /\ Valid(Records[NextRecord].value)

ReplayRecord ==
    /\ mode = "opening" /\ Settled
    /\ Unread /\ Replayable
    /\ inflight' = Records[NextRecord].value /\ cursor' = 1
    /\ UNCHANGED <<state, targets, outcome, storage>>

(* prefix_scan fails before anything is replayed: open may be called again. *)
ScanFails ==
    /\ mode = "opening" /\ Settled
    /\ version = 0
    /\ mode' = "down"
    /\ UNCHANGED <<vars, staged, disk, before>>

ReplayReturn == mode = "opening" /\ Record /\ UNCHANGED <<outcome, storage>>

(* Fault: an empty store is never opened. *)
OpenedNonEmpty ==
    /\ mode = "opening" /\ Settled
    /\ ~(Unread /\ Replayable) /\ Records # <<>>
    /\ mode' = IF Unread THEN "corrupt" ELSE "running"
    /\ UNCHANGED <<vars, staged, disk, before>>

(* The loop is over: every record is replayed, or one has a wrong key, is  *)
(* refused by commit, or is answered as a replay.                          *)
Opened ==
    /\ mode = "opening" /\ Settled
    /\ ~(Unread /\ Replayable)
    /\ mode' = IF Unread THEN "corrupt" ELSE "running"
    /\ UNCHANGED <<vars, staged, disk, before>>

Running == ApplyStep \/ Return \/ PutSucceeds \/ PutFails
Opening == ReplayRecord \/ ReplayReturn \/ Opened

DurableNext ==
    \/ Respond
    \/ \E e \in Envelope : Stage(e)
    \/ Running
    \/ Opening
    \/ Crash \/ Reopen \/ ScanFails

DurableSpec == DurableInit /\ [][DurableNext]_durablevars

(* commit_envelope and open are straight-line code: once called they run   *)
(* on to their end, unless the process dies.                               *)
FairDurableSpec == DurableSpec /\ WF_durablevars(Running) /\ WF_durablevars(Opening)

-----------------------------------------------------------------------------
(* Replay never fails: what was valid when it was stored is valid again    *)
(* when it is replayed on the records before it.                           *)
NeverCorrupt == mode # "corrupt"

(* A restart loses nothing and adds nothing: reopening after a crash       *)
(* between two commits rebuilds every record and every index.              *)
Recovered == mode = "running" /\ before # None /\ Settled => state = before

(* Clients see an append-only log across crashes, write failures and       *)
(* lost answers: the stored records in the order a scan returns them.  An  *)
(* entry is there from the moment the backend took it, so a commit that    *)
(* was acknowledged is never lost.                                         *)
Stored ==
    LET records == Records
    IN  [n \in DOMAIN records |-> records[n].value]

DurableContract == INSTANCE AppendOnlyLog WITH entries <- Stored, reply <- outcome

ImplementsDurableLog == DurableContract!Spec

(* Calls end: an opening comes to the running state unless it is           *)
(* interrupted, and every commit ends with its answer, a storage error or  *)
(* a crash.                                                                *)
CallsTerminate ==
    /\ mode = "opening" ~> mode \in {"running", "down"}
    /\ staged # None \/ inflight # None ~> staged = None /\ inflight = None
============================================================================
