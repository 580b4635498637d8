-------------------------- MODULE LedgerViewProofs --------------------------
(***************************************************************************)
(* The tables of the ledger are views of its log: which merges are open,   *)
(* which interpretation of an observation is current, what stands in the   *)
(* outbox, and which receipts answer it.                                   *)
(***************************************************************************)
EXTENDS LedgerProofs

-----------------------------------------------------------------------------
(***************************************************************************)
(* The commands that were applied, those of the commit under way included: *)
(* a view must hold of them after each command, although the log only      *)
(* grows at the end of a commit.                                           *)
(***************************************************************************)
Versions == 1..next_version

(* The envelope of a version: a recorded one, or the one being applied.    *)
EnvelopeAt(n) == IF n \in DOMAIN transactions THEN transactions[n].envelope ELSE inflight

CommandAt(n, i) == EnvelopeAt(n).commands[i]

DoneAt(n) ==
    IF n \in DOMAIN transactions THEN DOMAIN transactions[n].envelope.commands
    ELSE IF inflight # None /\ n = next_version THEN 1..(cursor - 1) ELSE {}

ActiveAt(n) == n \in DOMAIN transactions => transactions[n].active

(* A step takes back no command, and changes none.                         *)
HistoryKept ==
    \A n \in Versions : \A i \in DoneAt(n) :
        /\ n \in Versions' /\ i \in DoneAt(n)'
        /\ EnvelopeAt(n)' = EnvelopeAt(n) /\ CommandAt(n, i)' = CommandAt(n, i)

(* It adds none, or the one at the cursor.                                 *)
HistoryStays == \A n \in Versions' : \A i \in DoneAt(n)' : n \in Versions /\ i \in DoneAt(n)

HistoryGrows ==
    \A n \in Versions' : \A i \in DoneAt(n)' :
        \/ n \in Versions /\ i \in DoneAt(n)
        \/ /\ n = next_version /\ i = cursor
           /\ EnvelopeAt(n)' = inflight /\ CommandAt(n, i)' = command

ActivityStays == \A n \in Versions : \A i \in DoneAt(n) : ActiveAt(n)' <=> ActiveAt(n)

(* The versions are those of the log and the next one.                     *)
LEMMA VersionsOfLog ==
    ASSUME LedgerInv, LogConsistent
    PROVE  /\ version \in Nat /\ next_version = version + 1
           /\ DOMAIN transactions = 1..version /\ Len(transactions) = version
           /\ Versions = (1..version) \cup {next_version}
           /\ next_version \notin DOMAIN transactions /\ EnvelopeAt(next_version) = inflight
           /\ \A n \in 1..version : EnvelopeAt(n) = transactions[n].envelope
<1>1. /\ version = Len(transactions) /\ version \in Nat
      /\ DOMAIN transactions = 1..Len(transactions)
  BY DEF LedgerInv, TypeOK, LogTypeOK, LogConsistent
<1> QED
  BY <1>1 DEF Versions, next_version, EnvelopeAt

(* A version is known by its transaction.                                  *)
LEMMA OneVersion ==
    ASSUME LedgerInv, LogConsistent, NEW n \in Versions, NEW m \in Versions,
           DoneAt(n) # {}, DoneAt(m) # {},
           EnvelopeAt(n).transaction = EnvelopeAt(m).transaction
    PROVE  n = m
<1>1. /\ Versions = (1..version) \cup {next_version} /\ DOMAIN transactions = 1..version
      /\ next_version \notin DOMAIN transactions /\ EnvelopeAt(next_version) = inflight
      /\ \A k \in 1..version : EnvelopeAt(k) = transactions[k].envelope
  BY VersionsOfLog
<1>2. \A k \in 1..version : /\ EnvelopeAt(k).transaction \in DOMAIN transaction_indexes
                            /\ transaction_indexes[EnvelopeAt(k).transaction] = k
  <2>1. \A k \in DOMAIN transactions :
            /\ transactions[k].envelope.transaction \in DOMAIN transaction_indexes
            /\ transaction_indexes[transactions[k].envelope.transaction] = k
    BY DEF LogConsistent
  <2> QED
    BY <1>1, <2>1
<1>3. DoneAt(next_version) # {} => inflight.transaction \notin DOMAIN transaction_indexes
  BY <1>1 DEF DoneAt, LedgerInv, ValidationHolds, HeadHolds, NewTransaction
<1> QED
  BY <1>1, <1>2, <1>3

(* The commands of a recorded transaction, by their place.                 *)
LEMMA CommandsOf ==
    ASSUME LedgerInv, LogConsistent, NEW t \in DOMAIN transaction_indexes, NEW kind
    PROVE  /\ transaction_indexes[t] \in 1..version /\ transaction_indexes[t] \in Versions
           /\ EnvelopeAt(transaction_indexes[t]).transaction = t
           /\ \A c : c \in Commands(t, kind) <=>
                  \E i \in DoneAt(transaction_indexes[t]) :
                      c = CommandAt(transaction_indexes[t], i) /\ c.kind = kind
<1> DEFINE n == transaction_indexes[t]
<1>1. n \in DOMAIN transactions
  BY DEF LedgerInv, TypeOK, LogTypeOK
<1>2. n \in 1..version /\ n \in Versions
  BY <1>1, VersionsOfLog
<1>3. EnvelopeAt(n) = transactions[n].envelope
      /\ DoneAt(n) = DOMAIN transactions[n].envelope.commands
  BY <1>1 DEF EnvelopeAt, DoneAt
<1>4. EnvelopeAt(n).transaction = t
  BY <1>3 DEF LogConsistent, Committed
<1> QED
  BY <1>2, <1>3, <1>4 DEF Commands, CommandAt

(* While commands are applied, the history is that of the log and of the   *)
(* commands before the cursor.                                             *)
LEMMA HistoryMoves ==
    ASSUME LedgerInv, LogConsistent, inflight # None, cursor \in DOMAIN inflight.commands,
           UNCHANGED <<inflight, version>>, cursor' \in {cursor, cursor + 1},
           DOMAIN transactions' = DOMAIN transactions,
           \A n \in DOMAIN transactions : transactions'[n].envelope = transactions[n].envelope
    PROVE  /\ HistoryKept /\ HistoryGrows /\ (cursor' = cursor => HistoryStays)
           /\ Versions' = Versions
           /\ \A n \in Versions : EnvelopeAt(n)' = EnvelopeAt(n)
           /\ next_version \in Versions /\ cursor \in Nat /\ cursor \notin DoneAt(next_version)
           /\ EnvelopeAt(next_version) = inflight /\ CommandAt(next_version, cursor) = command
           /\ cursor' = cursor + 1 => \A n : n = next_version => cursor \in DoneAt(n)'
<1>1. /\ version \in Nat /\ next_version = version + 1 /\ DOMAIN transactions = 1..version
      /\ Versions = (1..version) \cup {next_version}
      /\ next_version \notin DOMAIN transactions /\ EnvelopeAt(next_version) = inflight
  BY VersionsOfLog
<1>2. cursor \in Nat /\ cursor >= 1
  BY InFlight, EnvelopeFields DEF LedgerInv
<1>3. next_version' = next_version /\ Versions' = Versions
  BY DEF next_version, Versions
<1>4. ASSUME NEW n \in Versions
      PROVE  EnvelopeAt(n)' = EnvelopeAt(n)
  BY DEF EnvelopeAt
<1>5. ASSUME NEW n \in Versions
      PROVE  \A i : CommandAt(n, i)' = CommandAt(n, i)
  BY <1>4 DEF CommandAt
<1>6. ASSUME NEW n \in 1..version PROVE DoneAt(n)' = DoneAt(n)
  BY <1>1 DEF DoneAt
<1>7. ASSUME NEW n, n = next_version
      PROVE  DoneAt(n) = 1..(cursor - 1) /\ DoneAt(n)' = 1..(cursor' - 1)
  BY <1>1, <1>3, <1>7 DEF DoneAt
<1>8. CommandAt(next_version, cursor) = command
  BY <1>1 DEF CommandAt, command
<1>9. HistoryKept
  <2> SUFFICES ASSUME NEW n \in Versions, NEW i \in DoneAt(n) PROVE i \in DoneAt(n)'
    BY <1>3, <1>4, <1>5 DEF HistoryKept
  <2> QED
    BY <1>1, <1>2, <1>6, <1>7
<1>10. HistoryGrows
  <2>1. ASSUME NEW n \in Versions, NEW i \in DoneAt(n)'
        PROVE  i \in DoneAt(n) \/ (n = next_version /\ i = cursor)
    BY <1>1, <1>2, <1>6, <1>7
  <2>2. ASSUME NEW n, n = next_version, NEW i, i = cursor
        PROVE  EnvelopeAt(n)' = inflight /\ CommandAt(n, i)' = command
    BY <1>1, <1>4, <1>5, <1>8, <2>2
  <2> QED
    BY <1>3, <2>1, <2>2 DEF HistoryGrows
<1>11. ASSUME cursor' = cursor PROVE HistoryStays
  BY <1>1, <1>3, <1>6, <1>7, <1>11 DEF HistoryStays
<1>12. /\ next_version \in Versions /\ cursor \notin DoneAt(next_version)
       /\ cursor' = cursor + 1 => \A n : n = next_version => cursor \in DoneAt(n)'
  BY <1>1, <1>2, <1>7
<1> QED
  BY <1>1, <1>2, <1>3, <1>4, <1>8, <1>9, <1>10, <1>11, <1>12

(* A command that leaves the log alone moves the cursor past itself.       *)
LEMMA HistoryApplied ==
    ASSUME LedgerInv, LogConsistent, inflight # None, cursor \in DOMAIN inflight.commands,
           UNCHANGED <<inflight, version, transactions>>, cursor' \in {cursor, cursor + 1}
    PROVE  /\ HistoryKept /\ HistoryGrows /\ (cursor' = cursor => HistoryStays)
           /\ Versions' = Versions /\ ActivityStays
           /\ \A n \in Versions : EnvelopeAt(n)' = EnvelopeAt(n)
           /\ next_version \in Versions /\ cursor \in Nat /\ cursor \notin DoneAt(next_version)
           /\ EnvelopeAt(next_version) = inflight /\ CommandAt(next_version, cursor) = command
           /\ cursor' = cursor + 1 => \A n : n = next_version => cursor \in DoneAt(n)'
<1>1. ActivityStays
  BY DEF ActivityStays, ActiveAt
<1> QED
  BY <1>1, HistoryMoves

(* A deactivation changes the flag of one version.                         *)
LEMMA HistoryDeactivated ==
    ASSUME LedgerInv, LogConsistent, NEW t \in targets, Deactivate(t)
    PROVE  /\ HistoryKept /\ HistoryGrows /\ Versions' = Versions
           /\ \A n \in Versions : EnvelopeAt(n)' = EnvelopeAt(n)
           /\ t \in DOMAIN transaction_indexes /\ transaction_indexes[t] \in 1..version
           /\ \A n \in Versions :
                  ActiveAt(n)' <=> ActiveAt(n) /\ n # transaction_indexes[t]
           /\ CommandAt(next_version, cursor) = command /\ command.kind = "Revert"
           /\ next_version \in 1..MaxVersion
<1>1. /\ inflight # None /\ cursor \in DOMAIN inflight.commands /\ command.kind = "Revert"
      /\ t \in DOMAIN transaction_indexes /\ LogTypeOK
  BY DEF LedgerInv, ValidationHolds, TypeOK, ControlTypeOK
<1>2. /\ UNCHANGED <<inflight, version, transaction_indexes>>
      /\ cursor' \in {cursor, cursor + 1}
      /\ DOMAIN transactions' = DOMAIN transactions
      /\ \A n \in DOMAIN transactions : transactions'[n].envelope = transactions[n].envelope
      /\ transactions' = [transactions EXCEPT ![transaction_indexes[t]] = Inactive(@)]
  BY DeactivateLog DEF Deactivate
<1>3. /\ HistoryKept /\ HistoryGrows /\ Versions' = Versions
      /\ \A n \in Versions : EnvelopeAt(n)' = EnvelopeAt(n)
      /\ CommandAt(next_version, cursor) = command
  BY <1>1, <1>2, HistoryMoves
<1>4. transaction_indexes[t] \in 1..version /\ DOMAIN transactions = 1..version
  BY <1>1, CommandsOf, VersionsOfLog
<1> DEFINE T == [version: 1..MaxVersion, envelope: CommandEnvelope, active: BOOLEAN]
<1>5. transactions \in Seq(T)
  BY <1>1 DEF LogTypeOK
<1> HIDE DEF T
<1>6. transactions[transaction_indexes[t]] \in T
  <2>1. transaction_indexes[t] \in DOMAIN transactions
    BY <1>4
  <2> QED
    BY <1>5, <2>1
<1>7. ~Inactive(transactions[transaction_indexes[t]]).active
  BY <1>6 DEF Inactive, T
<1>8. ASSUME NEW n \in Versions
      PROVE  ActiveAt(n)' <=> ActiveAt(n) /\ n # transaction_indexes[t]
  <2>1. CASE n = transaction_indexes[t]
    BY <1>2, <1>4, <1>7, <2>1 DEF ActiveAt
  <2>2. CASE n # transaction_indexes[t]
    BY <1>2, <2>2 DEF ActiveAt
  <2> QED
    BY <2>1, <2>2
<1>9. next_version \in 1..MaxVersion
  BY <1>1, InFlight DEF LedgerInv
<1> QED
  BY <1>1, <1>3, <1>4, <1>8, <1>9

(* The end of apply puts the commands into the log.                        *)
LEMMA HistoryRecorded ==
    ASSUME LedgerInv, LogConsistent, Record
    PROVE  /\ HistoryKept /\ HistoryStays /\ ActivityStays
           /\ Versions \subseteq Versions'
           /\ \A n \in Versions : EnvelopeAt(n)' = EnvelopeAt(n)
<1> DEFINE m == Len(transactions) + 1
<1>1. /\ version \in Nat /\ next_version = version + 1 /\ DOMAIN transactions = 1..version
      /\ Len(transactions) = version /\ Versions = (1..version) \cup {next_version}
      /\ next_version \notin DOMAIN transactions /\ EnvelopeAt(next_version) = inflight
  BY VersionsOfLog
<1>2. /\ inflight # None /\ cursor = Len(inflight.commands) + 1
      /\ inflight' = None /\ version' = next_version
      /\ inflight \in CommandEnvelope
  BY AppendedLog DEF Record, LedgerInv
<1>3. /\ DOMAIN transactions' = 1..next_version
      /\ transactions'[next_version] =
             [version |-> next_version, envelope |-> inflight, active |-> TRUE]
      /\ \A n \in 1..version : transactions'[n] = transactions[n]
  BY <1>1, AppendedLog DEF LedgerInv
<1>4. next_version' = next_version + 1 /\ Versions' = (1..next_version) \cup {next_version + 1}
      /\ Versions = 1..next_version
  BY <1>1, <1>2 DEF next_version, Versions
<1>5. Len(inflight.commands) \in Nat /\ DOMAIN inflight.commands = 1..Len(inflight.commands)
  BY <1>2, EnvelopeFields
<1>6. ASSUME NEW n \in Versions
      PROVE  /\ EnvelopeAt(n)' = EnvelopeAt(n) /\ DoneAt(n)' = DoneAt(n)
             /\ ActiveAt(n)' <=> ActiveAt(n)
  <2>1. CASE n = next_version
    BY <1>1, <1>2, <1>3, <1>5, <2>1 DEF EnvelopeAt, DoneAt, ActiveAt
  <2>2. CASE n \in 1..version
    <3>1. /\ n \in DOMAIN transactions /\ n \in DOMAIN transactions'
          /\ transactions'[n] = transactions[n]
      BY <1>1, <1>3, <2>2
    <3> QED
      BY <3>1 DEF EnvelopeAt, DoneAt, ActiveAt
  <2> QED
    BY <1>1, <2>1, <2>2
<1>7. ASSUME NEW n, n = next_version + 1
      PROVE  DoneAt(n)' = {}
  BY <1>1, <1>2, <1>3, <1>7 DEF DoneAt
<1>8. HistoryKept
  BY <1>4, <1>6 DEF HistoryKept, CommandAt
<1>9. HistoryStays
  BY <1>4, <1>6, <1>7 DEF HistoryStays
<1>10. ActivityStays
  BY <1>6 DEF ActivityStays
<1> QED
  BY <1>4, <1>6, <1>8, <1>9, <1>10

(* An accepted envelope has no command applied.                            *)
LEMMA HistoryStarted ==
    ASSUME LedgerInv, LogConsistent, NEW e \in CommandEnvelope, Start(e)
    PROVE  /\ HistoryKept /\ HistoryStays /\ ActivityStays /\ Versions' = Versions
           /\ DoneAt(next_version) = {}
<1>1. /\ inflight = None /\ inflight' = e /\ cursor' = 1
      /\ UNCHANGED <<version, transactions>>
  BY DEF Start, state, log
<1>2. /\ DOMAIN transactions = 1..version /\ version \in Nat
      /\ Versions = (1..version) \cup {next_version} /\ next_version \notin DOMAIN transactions
  BY VersionsOfLog
<1>3. next_version' = next_version /\ Versions' = Versions
  BY <1>1 DEF next_version, Versions
<1>4. ASSUME NEW n \in Versions
      PROVE  /\ DoneAt(n)' = DoneAt(n) /\ (ActiveAt(n)' <=> ActiveAt(n))
             /\ DoneAt(n) # {} => n \in DOMAIN transactions
  BY <1>1, <1>2, <1>3 DEF DoneAt, ActiveAt
<1>5. ASSUME NEW n \in DOMAIN transactions
      PROVE  EnvelopeAt(n)' = EnvelopeAt(n)
  BY <1>1 DEF EnvelopeAt
<1>6. DoneAt(next_version) = {}
  BY <1>1, <1>2 DEF DoneAt
<1> QED
  BY <1>3, <1>4, <1>5, <1>6 DEF HistoryKept, HistoryStays, ActivityStays, CommandAt

(* A step that leaves log, envelope and cursor alone leaves the history.   *)
LEMMA HistorySame ==
    ASSUME UNCHANGED <<version, transactions, inflight, cursor>>
    PROVE  /\ HistoryKept /\ HistoryStays /\ ActivityStays /\ Versions' = Versions
<1>1. Versions' = Versions /\ next_version' = next_version
  BY DEF Versions, next_version
<1>2. \A n : /\ DoneAt(n)' = DoneAt(n) /\ EnvelopeAt(n)' = EnvelopeAt(n)
             /\ (ActiveAt(n)' <=> ActiveAt(n))
  BY <1>1 DEF DoneAt, EnvelopeAt, ActiveAt
<1> QED
  BY <1>1, <1>2 DEF HistoryKept, HistoryStays, ActivityStays, CommandAt

(* The commands that advance the cursor.                                   *)
Advances ==
    \/ PersistObservation \/ CommitResolution \/ CreateIdentity \/ Promote
    \/ (\E kind \in {"Dormant", "Reactivate", "Retire"} : ChangeStatus(kind))
    \/ Merge \/ Split \/ EnqueueMaterialization \/ Materialized
    \/ Revert /\ cursor' = cursor + 1

(* Each of them adds itself to the history.                                *)
LEMMA AdvanceHistory ==
    ASSUME LedgerInv, LogConsistent, Advances
    PROVE  /\ HistoryKept /\ HistoryGrows /\ ActivityStays
           /\ Versions' = Versions /\ next_version' = next_version
           /\ inflight # None /\ cursor \in DOMAIN inflight.commands
           /\ command \in Command /\ inflight \in CommandEnvelope
           /\ next_version \in Versions /\ next_version \in 1..MaxVersion
           /\ EnvelopeAt(next_version) = inflight /\ ActiveAt(next_version)
           /\ cursor \notin DoneAt(next_version)
           /\ \A n, i : n = next_version /\ i = cursor =>
                  /\ i \in DoneAt(n)' /\ EnvelopeAt(n)' = inflight /\ ActiveAt(n)'
                  /\ CommandAt(n, i)' = command
<1>1. /\ inflight # None /\ cursor \in DOMAIN inflight.commands
      /\ UNCHANGED <<inflight, version, transactions>> /\ cursor' = cursor + 1
  BY DEF Advances, PersistObservation, CommitResolution, CreateIdentity, Promote,
     ChangeStatus, Merge, Split, Revert, EnqueueMaterialization, Materialized, Applying,
     Advance, state, log
<1>2. /\ next_version' = next_version /\ next_version \in 1..MaxVersion
      /\ command \in Command /\ inflight \in CommandEnvelope
  BY <1>1, InFlight DEF next_version, LedgerInv
<1>3. next_version \notin DOMAIN transactions
  BY VersionsOfLog
<1>4. ActiveAt(next_version) /\ \A n : n = next_version => ActiveAt(n)'
  BY <1>1, <1>3 DEF ActiveAt
<1>5. /\ HistoryKept /\ HistoryGrows /\ ActivityStays /\ Versions' = Versions
      /\ \A n \in Versions : EnvelopeAt(n)' = EnvelopeAt(n)
      /\ next_version \in Versions /\ cursor \notin DoneAt(next_version)
      /\ EnvelopeAt(next_version) = inflight
      /\ \A n : n = next_version => cursor \in DoneAt(n)'
  BY <1>1, HistoryApplied
<1>6. ASSUME NEW n, n = next_version, NEW i, i = cursor
      PROVE  EnvelopeAt(n)' = inflight /\ CommandAt(n, i)' = command
  BY <1>1, <1>5, <1>6 DEF CommandAt, command
<1> QED
  BY <1>1, <1>2, <1>4, <1>5, <1>6

(* Deactivations aside, the other steps leave history and tables alone.    *)
LEMMA HistorySteps ==
    ASSUME LedgerInv, LogConsistent, TableStep
    PROVE  /\ HistoryKept /\ Versions \subseteq Versions'
           /\ \/ Advances
              \/ \E t \in targets : Deactivate(t)
              \/ /\ HistoryStays /\ ActivityStays
                 /\ UNCHANGED <<evidence, lineage, identity_index, delivery>>
<1>1. CASE Advances
  BY <1>1, AdvanceHistory
<1>2. CASE Revert /\ cursor' # cursor + 1
  <2>1. /\ inflight # None /\ cursor \in DOMAIN inflight.commands
        /\ UNCHANGED <<inflight, version, transactions>> /\ cursor' = cursor
        /\ UNCHANGED <<evidence, lineage, identity_index, delivery>>
    BY <1>2 DEF Revert, Applying, Advance, state, log
  <2> QED
    BY <2>1, HistoryApplied
<1>3. ASSUME NEW t \in targets, Deactivate(t)
      PROVE  HistoryKept /\ Versions' = Versions
  BY <1>3, HistoryDeactivated
<1>4. CASE Record
  <2>1. Record /\ UNCHANGED <<evidence, lineage, identity_index, delivery>>
    BY <1>4 DEF Record
  <2> QED
    BY <2>1, HistoryRecorded
<1>5. ASSUME NEW e \in CommandEnvelope, Start(e)
      PROVE  /\ HistoryKept /\ HistoryStays /\ ActivityStays /\ Versions' = Versions
             /\ UNCHANGED <<evidence, lineage, identity_index, delivery>>
  <2>1. UNCHANGED <<evidence, lineage, identity_index, delivery>>
    BY <1>5 DEF Start, state
  <2> QED
    BY <1>5, <2>1, HistoryStarted
<1>6. CASE Quiet
  <2>1. UNCHANGED <<version, transactions, inflight, cursor>>
        /\ UNCHANGED <<evidence, lineage, identity_index, delivery>>
    BY <1>6 DEF Quiet, state, log
  <2> QED
    BY <2>1, HistorySame
<1> QED
  BY <1>1, <1>2, <1>3, <1>4, <1>5, <1>6 DEF TableStep, Apply, Advances

-----------------------------------------------------------------------------
(***************************************************************************)
(* Which merges are open.                                                  *)
(***************************************************************************)

(* A merge record stands for the Merge command with its decision: it       *)
(* belongs to that command's transaction and begins with its version.      *)
MergeFrom(d, n, i) ==
    /\ CommandAt(n, i).kind = "Merge" /\ CommandAt(n, i).decision = d
    /\ merges[d].validity.begin = n /\ merges[d].transaction = EnvelopeAt(n).transaction

MergesRecorded ==
    /\ \A d \in DOMAIN merges : \E n \in Versions : \E i \in DoneAt(n) : MergeFrom(d, n, i)
    /\ \A n \in Versions : \A i \in DoneAt(n) :
           CommandAt(n, i).kind = "Merge" =>
               /\ CommandAt(n, i).decision \in DOMAIN merges
               /\ MergeFrom(CommandAt(n, i).decision, n, i)

(* A Split closes merges that were there before its envelope.              *)
SplitsKnown ==
    \A n \in Versions : \A i \in DoneAt(n) :
        CommandAt(n, i).kind = "Split" => CommandAt(n, i).close_merges \subseteq DOMAIN merges

SplitsLater ==
    inflight # None =>
        \A i \in cursor..Len(inflight.commands) :
            inflight.commands[i].kind = "Split" =>
                \A d \in inflight.commands[i].close_merges :
                    merges[d].validity.begin < next_version

ClosedBySplit(d) ==
    \E n \in Versions : \E i \in DoneAt(n) :
        CommandAt(n, i).kind = "Split" /\ d \in CommandAt(n, i).close_merges

MergesOpen ==
    \A d \in DOMAIN merges : \A n \in Versions :
        merges[d].validity.begin = n =>
            (IsOpen(merges[d].validity) <=> ActiveAt(n) /\ ~ClosedBySplit(d))

MergeView == MergesRecorded /\ SplitsKnown /\ SplitsLater /\ MergesOpen

(* No merge changes its version or its transaction, so that what stands    *)
(* for it in the history stays the same.                                   *)
LEMMA MergeBeginsKept ==
    ASSUME LedgerInv, TableStep, NEW d \in DOMAIN merges
    PROVE  /\ d \in DOMAIN merges' /\ merges'[d].validity.begin = merges[d].validity.begin
           /\ merges'[d].transaction = merges[d].transaction
<1>1. MergeFrozen(d)
  BY MergesFrozen
<1>2. merges[d] \in [left: DOMAIN identities, right: DOMAIN identities,
                     validity: Validity, transaction: Transaction]
  BY DEF LedgerInv, TypeOK, IdentityTypeOK
<1> QED
  BY <1>1, <1>2 DEF MergeFrozen

(* What stands for a merge goes on standing for it.                        *)
LEMMA MergeFromKept ==
    ASSUME LedgerInv, TableStep, HistoryKept, NEW d \in DOMAIN merges,
           NEW n \in Versions, NEW i \in DoneAt(n), MergeFrom(d, n, i)
    PROVE  n \in Versions' /\ i \in DoneAt(n)' /\ MergeFrom(d, n, i)'
BY MergeBeginsKept DEF HistoryKept, MergeFrom

(* Every step keeps records and Merge commands together.                   *)
LEMMA MergesRecordedStep ==
    LedgerInv /\ LogConsistent /\ MergesRecorded /\ TableStep => MergesRecorded'
<1> SUFFICES ASSUME LedgerInv, LogConsistent, MergesRecorded, TableStep PROVE MergesRecorded'
  OBVIOUS
<1>1. HistoryKept
  BY HistorySteps
<1>2. ASSUME NEW d \in DOMAIN merges
      PROVE  \E n \in Versions' : \E i \in DoneAt(n)' : MergeFrom(d, n, i)'
  BY <1>1, MergeFromKept DEF MergesRecorded
<1>3. ASSUME NEW n \in Versions, NEW i \in DoneAt(n), CommandAt(n, i)'.kind = "Merge"
      PROVE  /\ CommandAt(n, i)'.decision \in DOMAIN merges'
             /\ \A d : d = CommandAt(n, i)'.decision => MergeFrom(d, n, i)'
  <2>1. CommandAt(n, i)' = CommandAt(n, i)
    BY <1>1 DEF HistoryKept
  <2>2. PICK d \in DOMAIN merges : d = CommandAt(n, i).decision /\ MergeFrom(d, n, i)
    BY <1>3, <2>1 DEF MergesRecorded
  <2>3. MergeFrom(d, n, i)' /\ d \in DOMAIN merges'
    BY <1>1, <2>2, MergeFromKept, MergeBeginsKept
  <2> QED
    BY <2>1, <2>2, <2>3
<1>4. ASSUME HistoryStays, DOMAIN merges' = DOMAIN merges PROVE MergesRecorded'
  BY <1>2, <1>3, <1>4 DEF HistoryStays, MergesRecorded
<1>5. ASSUME HistoryGrows, DOMAIN merges' = DOMAIN merges, command.kind # "Merge"
      PROVE  MergesRecorded'
  BY <1>2, <1>3, <1>5 DEF HistoryGrows, MergesRecorded
<1>6. CASE Advances
  <2>1. /\ HistoryGrows /\ Versions' = Versions /\ EnvelopeAt(next_version) = inflight
        /\ inflight # None /\ cursor \in DOMAIN inflight.commands /\ next_version \in Versions
        /\ \A n, i : n = next_version /\ i = cursor =>
               i \in DoneAt(n)' /\ EnvelopeAt(n)' = inflight /\ CommandAt(n, i)' = command
    BY <1>6, AdvanceHistory
  <2>2. CASE ~Merge
    <3>1. DOMAIN merges' = DOMAIN merges /\ command.kind # "Merge"
      BY <1>6, <2>2 DEF Advances, PersistObservation, CommitResolution, CreateIdentity, Promote,
         ChangeStatus, Split, Revert, EnqueueMaterialization, Materialized, Applying,
         CloseMerges, state, identity_index
    <3> QED
      BY <1>5, <2>1, <3>1
  <2>3. CASE Merge
    <3> DEFINE r == [left |-> command.left, right |-> command.right,
                     validity |-> Current(next_version), transaction |-> inflight.transaction]
    <3>1. /\ merges' = Insert(merges, command.decision, r) /\ command.kind = "Merge"
      BY <2>3 DEF Merge, Applying
    <3>2. command.decision \notin DOMAIN merges
      BY <2>1, <3>1, InFlight DEF LedgerInv, MergeHolds, command
    <3>3. /\ merges'[command.decision] = r /\ r.validity.begin = next_version
          /\ DOMAIN merges' = DOMAIN merges \cup {command.decision}
      BY <3>1 DEF Insert, Current, Interval
    <3>4. ASSUME NEW d, d = command.decision, NEW n, n = next_version, NEW i, i = cursor
          PROVE  /\ n \in Versions' /\ i \in DoneAt(n)' /\ CommandAt(n, i)'.decision = d
                 /\ d \in DOMAIN merges' /\ MergeFrom(d, n, i)'
      BY <2>1, <3>1, <3>3, <3>4 DEF MergeFrom
    <3>5. \A d \in DOMAIN merges' :
              \E n \in Versions' : \E i \in DoneAt(n)' : MergeFrom(d, n, i)'
      BY <1>2, <3>3, <3>4
    <3>6. ASSUME NEW n \in Versions', NEW i \in DoneAt(n)', CommandAt(n, i)'.kind = "Merge"
          PROVE  /\ CommandAt(n, i)'.decision \in DOMAIN merges'
                 /\ \A d : d = CommandAt(n, i)'.decision => MergeFrom(d, n, i)'
      <4>1. CASE n \in Versions /\ i \in DoneAt(n)
        BY <1>3, <3>6, <4>1
      <4>2. CASE n = next_version /\ i = cursor
        BY <3>4, <4>2, <2>1
      <4> QED
        BY <2>1, <4>1, <4>2 DEF HistoryGrows
    <3> QED
      BY <3>5, <3>6 DEF MergesRecorded
  <2> QED
    BY <2>2, <2>3
<1>7. ASSUME NEW t \in targets, Deactivate(t) PROVE MergesRecorded'
  <2>1. HistoryGrows /\ command.kind # "Merge" /\ DOMAIN merges' = DOMAIN merges
    BY <1>7, HistoryDeactivated DEF Deactivate, CloseMerges
  <2> QED
    BY <1>5, <2>1
<1>8. CASE HistoryStays /\ UNCHANGED identity_index
  BY <1>4, <1>8 DEF identity_index
<1> QED
  BY <1>6, <1>7, <1>8, HistorySteps

(* What happens to the commands that are left to apply.                    *)
LEMMA LeftSteps ==
    ASSUME LedgerInv, TableStep
    PROVE  \/ inflight' = None
           \/ \E e \in CommandEnvelope : Start(e)
           \/ /\ inflight # None /\ inflight' = inflight /\ cursor' \in {cursor, cursor + 1}
              /\ next_version' = next_version
              /\ Len(inflight.commands) \in Nat /\ cursor \in 1..(Len(inflight.commands) + 1)
              /\ \A i \in cursor'..Len(inflight.commands) : i \in cursor..Len(inflight.commands)
<1>1. CASE inflight = None /\ ~\E e \in CommandEnvelope : Start(e)
  BY <1>1 DEF TableStep, Quiet, Apply, Applying, PersistObservation, CommitResolution,
     CreateIdentity, Promote, ChangeStatus, Merge, Split, Revert, Deactivate,
     EnqueueMaterialization, Materialized, Record, LedgerInv, ValidationHolds
<1>2. CASE inflight # None
  <2>1. Len(inflight.commands) \in Nat /\ cursor \in 1..(Len(inflight.commands) + 1)
    BY <1>2, EnvelopeFields DEF LedgerInv, TypeOK, ControlTypeOK, ValidationHolds, HeadHolds
  <2>2. CASE Record
    BY <2>2 DEF Record
  <2>3. CASE ~Record
    <3>1. /\ inflight' = inflight /\ cursor' \in {cursor, cursor + 1} /\ version' = version
      BY <1>2, <2>3 DEF TableStep, Quiet, Start, Apply, PersistObservation, CommitResolution,
         CreateIdentity, Promote, ChangeStatus, Merge, Split, Revert, Deactivate,
         EnqueueMaterialization, Materialized, Record, Advance, state, log
    <3> QED
      BY <1>2, <2>1, <3>1 DEF next_version
  <2> QED
    BY <2>2, <2>3
<1> QED
  BY <1>1, <1>2

(* A Split finds the merges it closes, and they began before its envelope. *)
LEMMA SplitsStep ==
    LedgerInv /\ LogConsistent /\ MergesRecorded /\ SplitsKnown /\ SplitsLater /\ TableStep
        => SplitsKnown' /\ SplitsLater'
<1> SUFFICES ASSUME LedgerInv, LogConsistent, MergesRecorded, SplitsKnown, SplitsLater, TableStep
             PROVE  SplitsKnown' /\ SplitsLater'
  OBVIOUS
<1>1. /\ HistoryKept
      /\ \A d \in DOMAIN merges : d \in DOMAIN merges'
                                  /\ merges'[d].validity.begin = merges[d].validity.begin
  BY HistorySteps, MergeBeginsKept
<1>2. SplitsKnown'
  <2>1. ASSUME NEW n \in Versions, NEW i \in DoneAt(n), CommandAt(n, i)'.kind = "Split"
        PROVE  CommandAt(n, i)'.close_merges \subseteq DOMAIN merges'
    BY <1>1, <2>1 DEF HistoryKept, SplitsKnown
  <2>2. ASSUME inflight # None, cursor \in DOMAIN inflight.commands, command.kind = "Split"
        PROVE  command.close_merges \subseteq DOMAIN merges
    BY <2>2, InFlight DEF LedgerInv, SplitHolds, command
  <2>3. CASE HistoryStays
    BY <2>1, <2>3 DEF HistoryStays, SplitsKnown
  <2>4. CASE HistoryGrows /\ inflight # None /\ cursor \in DOMAIN inflight.commands
    BY <1>1, <2>1, <2>2, <2>4 DEF HistoryGrows, SplitsKnown
  <2>5. ASSUME NEW t \in targets, Deactivate(t)
        PROVE  HistoryGrows /\ inflight # None /\ cursor \in DOMAIN inflight.commands
    BY <2>5, HistoryDeactivated DEF LedgerInv, ValidationHolds
  <2> QED
    BY <2>3, <2>4, <2>5, HistorySteps, AdvanceHistory
<1>3. SplitsLater'
  <2>1. CASE inflight' = None
    BY <2>1 DEF SplitsLater
  <2>2. ASSUME NEW e \in CommandEnvelope, Start(e) PROVE SplitsLater'
    <3>1. /\ inflight' = e /\ cursor' = 1 /\ merges' = merges /\ next_version' = next_version
          /\ Valid(e)
      BY <2>2 DEF Start, state, log, identity_index, next_version
    <3>2. ASSUME NEW i \in 1..Len(e.commands), e.commands[i].kind = "Split",
                 NEW d \in e.commands[i].close_merges
          PROVE  merges[d].validity.begin < next_version
      <4>1. ValidCommand(e, i)
        BY <3>1, EnvelopeFields DEF Valid, CommandsValid
      <4>2. d \in DOMAIN merges
        BY <3>2, <4>1 DEF ValidCommand, ValidSplit
      <4>3. \E n \in Versions : DoneAt(n) # {} /\ merges[d].validity.begin = n
        BY <4>2 DEF MergesRecorded, MergeFrom
      <4> QED
        BY <2>2, <4>3, HistoryStarted, VersionsOfLog
    <3> QED
      BY <3>1, <3>2 DEF SplitsLater
  <2>3. ASSUME inflight # None, inflight' = inflight, next_version' = next_version,
               \A i \in cursor'..Len(inflight.commands) : i \in cursor..Len(inflight.commands)
        PROVE  SplitsLater'
    <3>1. \A i \in cursor..Len(inflight.commands) : SplitHolds(i)
      BY <2>3 DEF LedgerInv, ValidationHolds
    <3> QED
      BY <1>1, <2>3, <3>1 DEF SplitsLater, SplitHolds
  <2> QED
    BY <2>1, <2>2, <2>3, LeftSteps
<1> QED
  BY <1>2, <1>3

(* Ending a merge that began before this commit closes it.                 *)
LEMMA EndedIsClosed ==
    ASSUME NEW validity \in Validity, NEW n \in 1..MaxVersion, validity.begin < n
    PROVE  ~IsOpen(EndAt(validity, n)) /\ EndAt(validity, n).end = n
BY LedgerAssumption DEF EndAt, IsOpen, Open, Validity

(* What CloseMerges does to one merge.                                     *)
LEMMA ClosedMerge ==
    ASSUME LedgerInv, next_version \in 1..MaxVersion, NEW S, merges' = CloseMerges(S),
           NEW d \in DOMAIN merges
    PROVE  /\ DOMAIN merges' = DOMAIN merges
           /\ d \notin S => (IsOpen(merges[d].validity)' <=> IsOpen(merges[d].validity))
           /\ d \in S /\ merges[d].validity.begin < next_version =>
                  ~IsOpen(merges[d].validity)'
<1> DEFINE R == [left: DOMAIN identities, right: DOMAIN identities,
                 validity: Validity, transaction: Transaction]
<1>1. merges[d] \in R /\ merges[d].validity \in Validity
  BY DEF LedgerInv, TypeOK, IdentityTypeOK
<1>2. CASE d \notin S
  <2>1. merges'[d] = merges[d] /\ DOMAIN merges' = DOMAIN merges
    BY <1>2 DEF CloseMerges
  <2> QED
    BY <1>2, <2>1 DEF IsOpen, Open
<1>3. CASE d \in S
  <2>1. /\ merges'[d] = [merges[d] EXCEPT !.validity = EndAt(@, next_version)]
        /\ DOMAIN merges' = DOMAIN merges
    BY <1>3 DEF CloseMerges
  <2>2. merges'[d].validity = EndAt(merges[d].validity, next_version)
    BY <1>1, <2>1
  <2>3. merges[d].validity.begin < next_version =>
            ~IsOpen(EndAt(merges[d].validity, next_version))
    BY <1>1, EndedIsClosed
  <2> QED
    BY <1>3, <2>1, <2>2, <2>3 DEF IsOpen, Open
<1> QED
  BY <1>2, <1>3

(* Which merges the Split commands of the history close.                   *)
LEMMA ClosedBySplitKept ==
    ASSUME HistoryKept, Versions \subseteq Versions', NEW d
    PROVE  /\ ClosedBySplit(d) => ClosedBySplit(d)'
           /\ HistoryStays => (ClosedBySplit(d)' <=> ClosedBySplit(d))
           /\ HistoryGrows =>
                  (ClosedBySplit(d)' =>
                       ClosedBySplit(d) \/ (command.kind = "Split" /\ d \in command.close_merges))
<1>1. ClosedBySplit(d) => ClosedBySplit(d)'
  BY DEF ClosedBySplit, HistoryKept
<1>2. HistoryStays /\ ClosedBySplit(d)' => ClosedBySplit(d)
  BY DEF ClosedBySplit, HistoryKept, HistoryStays
<1>3. HistoryGrows /\ ClosedBySplit(d)' =>
          ClosedBySplit(d) \/ (command.kind = "Split" /\ d \in command.close_merges)
  BY DEF ClosedBySplit, HistoryKept, HistoryGrows
<1> QED
  BY <1>1, <1>2, <1>3

(* Every step keeps a merge open exactly as long as its version is active  *)
(* and no Split has closed it.                                             *)
LEMMA MergesOpenStep ==
    LedgerInv /\ LogConsistent /\ MergeView /\ TableStep => MergesOpen'
<1> SUFFICES ASSUME LedgerInv, LogConsistent, MergeView, TableStep PROVE MergesOpen'
  OBVIOUS
<1>1. /\ HistoryKept /\ Versions \subseteq Versions'
      /\ \A d \in DOMAIN merges : d \in DOMAIN merges'
                                  /\ merges'[d].validity.begin = merges[d].validity.begin
  BY HistorySteps, MergeBeginsKept
<1>2. MergesRecorded /\ SplitsKnown /\ SplitsLater /\ MergesOpen
  BY DEF MergeView
<1>3. ASSUME NEW d \in DOMAIN merges
      PROVE  \E n \in Versions : DoneAt(n) # {} /\ merges[d].validity.begin = n
  BY <1>2 DEF MergesRecorded, MergeFrom
<1>4. ASSUME DOMAIN merges' = DOMAIN merges, ActivityStays,
             \A d \in DOMAIN merges :
                 /\ IsOpen(merges[d].validity)' <=> IsOpen(merges[d].validity)
                 /\ ClosedBySplit(d)' <=> ClosedBySplit(d)
      PROVE  MergesOpen'
  BY <1>1, <1>2, <1>3, <1>4 DEF MergesOpen, ActivityStays
<1>5. CASE ActivityStays /\ merges' = merges /\
           (HistoryStays \/ (HistoryGrows /\ command.kind # "Split"))
  <2>1. \A d \in DOMAIN merges : IsOpen(merges[d].validity)' <=> IsOpen(merges[d].validity)
    BY <1>5 DEF IsOpen, Open
  <2> QED
    BY <1>1, <1>4, <1>5, <2>1, ClosedBySplitKept
<1>6. CASE Advances
  <2>1. /\ HistoryGrows /\ ActivityStays /\ Versions' = Versions
        /\ inflight # None /\ cursor \in DOMAIN inflight.commands
        /\ next_version \in 1..MaxVersion /\ next_version \in Versions
        /\ \A n, i : n = next_version /\ i = cursor =>
               i \in DoneAt(n)' /\ ActiveAt(n)' /\ CommandAt(n, i)' = command
    BY <1>6, AdvanceHistory
  <2>2. CASE ~Merge /\ ~Split
    <3>1. merges' = merges /\ command.kind # "Split"
      BY <1>6, <2>2 DEF Advances, PersistObservation, CommitResolution, CreateIdentity, Promote,
         ChangeStatus, Revert, EnqueueMaterialization, Materialized, Applying, state,
         identity_index
    <3> QED
      BY <1>5, <2>1, <3>1
  <2>3. CASE Merge
    <3> DEFINE r == [left |-> command.left, right |-> command.right,
                     validity |-> Current(next_version), transaction |-> inflight.transaction]
    <3>1. merges' = Insert(merges, command.decision, r) /\ command.kind = "Merge"
      BY <2>3 DEF Merge, Applying
    <3>2. command.decision \notin DOMAIN merges
      BY <2>1, <3>1, InFlight DEF LedgerInv, MergeHolds, command
    <3>3. /\ merges'[command.decision] = r /\ r.validity.begin = next_version
          /\ IsOpen(r.validity)
          /\ DOMAIN merges' = DOMAIN merges \cup {command.decision}
          /\ \A d \in DOMAIN merges : merges'[d] = merges[d]
      BY <3>1, <3>2 DEF Insert, Current, Interval, IsOpen
    <3>4. \A d : ClosedBySplit(d)' <=> ClosedBySplit(d)
      BY <1>1, <2>1, <3>1, ClosedBySplitKept
    <3>5. ASSUME NEW d \in DOMAIN merges, NEW n \in Versions', merges'[d].validity.begin = n
          PROVE  IsOpen(merges[d].validity)' <=> ActiveAt(n)' /\ ~ClosedBySplit(d)'
      <4>1. n \in Versions /\ DoneAt(n) # {} /\ merges[d].validity.begin = n
        BY <1>1, <1>3, <3>5
      <4>2. (ActiveAt(n)' <=> ActiveAt(n))
        BY <2>1, <4>1 DEF ActivityStays
      <4>3. IsOpen(merges[d].validity)' <=> IsOpen(merges[d].validity)
        BY <3>3 DEF IsOpen, Open
      <4> QED
        BY <1>2, <3>4, <4>1, <4>2, <4>3 DEF MergesOpen
    <3>6. ASSUME NEW d, d = command.decision, NEW n \in Versions', merges'[d].validity.begin = n
          PROVE  IsOpen(merges[d].validity)' <=> ActiveAt(n)' /\ ~ClosedBySplit(d)'
      <4>1. n = next_version /\ ActiveAt(n)'
        BY <2>1, <3>3, <3>6
      <4>2. IsOpen(merges[d].validity)'
        BY <3>3, <3>6 DEF IsOpen, Open
      <4>3. ~ClosedBySplit(d)
        BY <1>2, <3>2, <3>6 DEF ClosedBySplit, SplitsKnown
      <4> QED
        BY <3>4, <4>1, <4>2, <4>3
    <3> QED
      BY <3>3, <3>5, <3>6 DEF MergesOpen
  <2>4. CASE Split
    <3> DEFINE S == command.close_merges
    <3>1. merges' = CloseMerges(S) /\ command.kind = "Split"
      BY <2>4 DEF Split, Applying
    <3>2. \A d \in S : d \in DOMAIN merges /\ merges[d].validity.begin < next_version
      <4>1. SplitHolds(cursor) /\ cursor \in cursor..Len(inflight.commands)
        BY <2>1, InFlight, EnvelopeFields DEF LedgerInv
      <4> QED
        BY <1>2, <2>1, <3>1, <4>1 DEF SplitHolds, SplitsLater, command
    <3>3. \A d : ClosedBySplit(d)' <=> ClosedBySplit(d) \/ d \in S
      <4>1. \A d \in S : ClosedBySplit(d)'
        BY <2>1, <3>1 DEF ClosedBySplit
      <4> QED
        BY <1>1, <2>1, <3>1, <4>1, ClosedBySplitKept
    <3>4. ASSUME NEW d \in DOMAIN merges, NEW n \in Versions', merges'[d].validity.begin = n
          PROVE  IsOpen(merges[d].validity)' <=> ActiveAt(n)' /\ ~ClosedBySplit(d)'
      <4>1. n \in Versions /\ DoneAt(n) # {} /\ merges[d].validity.begin = n
        BY <1>1, <1>3, <3>4
      <4>2. ActiveAt(n)' <=> ActiveAt(n)
        BY <2>1, <4>1 DEF ActivityStays
      <4>3. IsOpen(merges[d].validity) <=> ActiveAt(n) /\ ~ClosedBySplit(d)
        BY <1>2, <4>1 DEF MergesOpen
      <4>4. d \notin S => (IsOpen(merges[d].validity)' <=> IsOpen(merges[d].validity))
        BY <2>1, <3>1, ClosedMerge
      <4>5. d \in S => ~IsOpen(merges[d].validity)'
        BY <2>1, <3>1, <3>2, ClosedMerge
      <4> QED
        BY <3>3, <4>2, <4>3, <4>4, <4>5
    <3>5. DOMAIN merges' = DOMAIN merges
      BY <3>1 DEF CloseMerges
    <3> QED
      BY <3>4, <3>5 DEF MergesOpen
  <2> QED
    BY <2>2, <2>3, <2>4
<1>7. ASSUME NEW t \in targets, Deactivate(t) PROVE MergesOpen'
  <2> DEFINE v == transaction_indexes[t]
             S == OpenMergesOf(t)
  <2>1. /\ HistoryGrows /\ Versions' = Versions /\ command.kind = "Revert"
        /\ t \in DOMAIN transaction_indexes /\ v \in 1..version
        /\ \A n \in Versions : ActiveAt(n)' <=> ActiveAt(n) /\ n # v
        /\ next_version \in 1..MaxVersion
    BY <1>7, HistoryDeactivated
  <2>2. merges' = CloseMerges(S) /\ DOMAIN merges' = DOMAIN merges
    BY <1>7 DEF Deactivate, CloseMerges
  <2>3. \A d : ClosedBySplit(d)' <=> ClosedBySplit(d)
    BY <1>1, <2>1, ClosedBySplitKept
  <2>4. /\ v \in Versions /\ v < next_version
        /\ \A c : c \in Commands(t, "Merge") <=>
               \E i \in DoneAt(v) : c = CommandAt(v, i) /\ c.kind = "Merge"
    BY <2>1, CommandsOf, VersionsOfLog
  <2>5. ASSUME NEW d \in DOMAIN merges
        PROVE  d \in S <=> merges[d].validity.begin = v /\ IsOpen(merges[d].validity)
    <3>1. d \in S => merges[d].validity.begin = v /\ IsOpen(merges[d].validity)
      BY <1>2, <2>4 DEF OpenMergesOf, MergesRecorded, MergeFrom
    <3>2. ASSUME merges[d].validity.begin = v, IsOpen(merges[d].validity) PROVE d \in S
      <4>1. \E i \in DoneAt(v) : CommandAt(v, i).kind = "Merge" /\ CommandAt(v, i).decision = d
        BY <1>2, <3>2 DEF MergesRecorded, MergeFrom
      <4>2. \E c \in Commands(t, "Merge") : c.decision = d
        BY <2>4, <4>1
      <4> QED
        BY <3>2, <4>2 DEF OpenMergesOf
    <3> QED
      BY <3>1, <3>2
  <2>6. ASSUME NEW d \in DOMAIN merges, NEW n \in Versions, merges'[d].validity.begin = n
        PROVE  IsOpen(merges[d].validity)' <=> ActiveAt(n)' /\ ~ClosedBySplit(d)'
    <3>1. merges[d].validity.begin = n
      BY <1>1, <2>6
    <3>2. IsOpen(merges[d].validity) <=> ActiveAt(n) /\ ~ClosedBySplit(d)
      BY <1>2, <3>1 DEF MergesOpen
    <3>3. d \notin S => (IsOpen(merges[d].validity)' <=> IsOpen(merges[d].validity))
      BY <2>1, <2>2, ClosedMerge
    <3>4. d \in S => ~IsOpen(merges[d].validity)'
      BY <2>1, <2>2, <2>4, <2>5, ClosedMerge
    <3>5. d \in S <=> n = v /\ IsOpen(merges[d].validity)
      BY <2>5, <3>1
    <3> QED
      BY <2>1, <2>3, <3>2, <3>3, <3>4, <3>5
  <2> QED
    BY <2>1, <2>2, <2>6 DEF MergesOpen
<1>8. CASE HistoryStays /\ ActivityStays /\ UNCHANGED identity_index
  BY <1>5, <1>8 DEF identity_index
<1> QED
  BY <1>6, <1>7, <1>8, HistorySteps

(* Between commits a merge is open exactly when its transaction is active  *)
(* and no committed Split closed it, whatever was split and reverted in    *)
(* which order.                                                            *)
THEOREM MergesAreJustified == Spec => []OpenMergesJustified
<1>1. Init => LogConsistent /\ MergeView
  <2> SUFFICES ASSUME Init PROVE LogConsistent /\ MergeView
    OBVIOUS
  <2>1. LogConsistent
    BY DEF Init, Empty, EmptyMap, LogConsistent
  <2>2. merges = EmptyMap /\ transactions = <<>> /\ inflight = None
    BY DEF Init, Empty
  <2>3. \A n : DoneAt(n) = {}
    BY <2>2 DEF DoneAt
  <2> QED
    BY <2>1, <2>2, <2>3 DEF MergeView, MergesRecorded, SplitsKnown, SplitsLater, MergesOpen,
       EmptyMap
<1>2. LedgerInv /\ LogConsistent /\ MergeView /\ TableStep => MergeView'
  BY MergesRecordedStep, SplitsStep, MergesOpenStep DEF MergeView
<1>3. LedgerInv /\ LogConsistent /\ MergeView => OpenMergesJustified
  <2> SUFFICES ASSUME LedgerInv, LogConsistent, MergeView, inflight = None,
                      NEW d \in DOMAIN merges
               PROVE  IsOpen(merges[d].validity) <=>
                          /\ IsActive(merges[d].transaction)
                          /\ \A c \in Splits : d \notin c.close_merges
    BY DEF OpenMergesJustified, Settled
  <2>1. /\ Versions = (1..version) \cup {next_version} /\ DOMAIN transactions = 1..version
        /\ next_version \notin DOMAIN transactions
        /\ \A n \in 1..version : EnvelopeAt(n) = transactions[n].envelope
    BY VersionsOfLog
  <2>2. /\ DoneAt(next_version) = {}
        /\ \A n \in 1..version : DoneAt(n) = DOMAIN transactions[n].envelope.commands
    BY <2>1 DEF DoneAt
  <2>3. (\A c \in Splits : d \notin c.close_merges) <=> ~ClosedBySplit(d)
    BY <2>1, <2>2 DEF Splits, ClosedBySplit, CommandAt
  <2>4. PICK n \in 1..version : /\ merges[d].validity.begin = n
                                /\ merges[d].transaction = transactions[n].envelope.transaction
    BY <2>1, <2>2 DEF MergeView, MergesRecorded, MergeFrom
  <2>5. IsActive(merges[d].transaction) <=> ActiveAt(n)
    <3>1. /\ transactions[n].envelope.transaction \in DOMAIN transaction_indexes
          /\ transaction_indexes[transactions[n].envelope.transaction] = n
      BY <2>1 DEF LogConsistent
    <3> QED
      BY <2>1, <2>4, <3>1 DEF IsActive, ActiveAt
  <2> QED
    BY <2>1, <2>3, <2>4, <2>5 DEF MergeView, MergesOpen
<1> QED
  BY <1>1, <1>2, <1>3, InitInv, StepInv, NextIsStep, LogStep, PTL DEF Spec

-----------------------------------------------------------------------------
(***************************************************************************)
(* Which interpretation of an observation is current.                      *)
(***************************************************************************)
IsResolution(n, i) == CommandAt(n, i).kind = "CommitResolution"

(* The records of a resolution begin with its version.                     *)
ResolutionRecorded(n, i) ==
    LET inference == CommandAt(n, i).inference
        decision == CommandAt(n, i).decision
    IN  /\ inference.id \in DOMAIN inferences /\ decision.id \in DOMAIN decisions
        /\ inferences[inference.id].observation = inference.observation
        /\ inferences[inference.id].validity.begin = n
        /\ decisions[decision.id].inference = inference.id
        /\ decisions[decision.id].validity.begin = n

(* Inferences and decisions stand for the one resolution that recorded     *)
(* them.                                                                   *)
ResolutionsRecorded ==
    \A n \in Versions : \A i \in DoneAt(n) : IsResolution(n, i) => ResolutionRecorded(n, i)

InferencesResolved ==
    \A x \in DOMAIN inferences : \E n \in Versions : \E i \in DoneAt(n) :
        IsResolution(n, i) /\ CommandAt(n, i).inference.id = x

DecisionsResolved ==
    \A d \in DOMAIN decisions : \E n \in Versions : \E i \in DoneAt(n) :
        IsResolution(n, i) /\ CommandAt(n, i).decision.id = d

ResolutionsDistinct ==
    \A n \in Versions : \A i, j \in DoneAt(n) :
        IsResolution(n, i) /\ IsResolution(n, j) /\ i # j =>
            /\ CommandAt(n, i).inference.id # CommandAt(n, j).inference.id
            /\ CommandAt(n, i).decision.id # CommandAt(n, j).decision.id

LineageRecorded ==
    ResolutionsRecorded /\ InferencesResolved /\ DecisionsResolved /\ ResolutionsDistinct

Resolves(n, i, o) == IsResolution(n, i) /\ CommandAt(n, i).inference.observation = o

IsLast(n, i, o) ==
    /\ Resolves(n, i, o)
    /\ \A m \in Versions : \A j \in DoneAt(m) :
           Resolves(m, j, o) => m < n \/ (m = n /\ j <= i)

(* The pointers name the records of the last resolution, if it is active.  *)
PointsTo(o, n, i) ==
    /\ o \in DOMAIN current_inference
    /\ current_inference[o] = CommandAt(n, i).inference.id
    /\ current_decision[o] = CommandAt(n, i).decision.id

ViewOf(o) ==
    /\ (\E n \in Versions : \E i \in DoneAt(n) : Resolves(n, i, o)) =>
           \E n \in Versions : \E i \in DoneAt(n) : IsLast(n, i, o)
    /\ o \in DOMAIN current_inference =>
           \E n \in Versions : \E i \in DoneAt(n) : IsLast(n, i, o) /\ ActiveAt(n)
    /\ \A n \in Versions : \A i \in DoneAt(n) :
           IsLast(n, i, o) /\ ActiveAt(n) => PointsTo(o, n, i)

CurrentView == \A o \in Observation : ViewOf(o)

(* The version a commit under way is given is the last there is.           *)
Now == IF inflight = None THEN version ELSE next_version

Twice(o) == \E n \in Versions : \E i, j \in DoneAt(n) :
                i # j /\ Resolves(n, i, o) /\ Resolves(n, j, o)

EndedBy(validity) == ~IsOpen(validity) => validity.end <= Now

(* Evidence comes before its inferences, and nothing ends in the future.   *)
EvidenceFirst ==
    /\ \A o \in DOMAIN observations : observation_commits[o] <= Now
    /\ \A x \in DOMAIN inferences :
           /\ inferences[x].observation \in DOMAIN observations
           /\ observation_commits[inferences[x].observation] <= inferences[x].validity.begin
           /\ EndedBy(inferences[x].validity)
    /\ \A d \in DOMAIN decisions : EndedBy(decisions[d].validity)

(* Only the current records of an observation are open.                    *)
OnlyCurrentOpen ==
    \A o \in Observation : ~Twice(o) =>
        /\ \A x \in InferencesOf(o) : IsOpen(inferences[x].validity) =>
               o \in DOMAIN current_inference /\ current_inference[o] = x
        /\ \A d \in DecisionsOf(o) : IsOpen(decisions[d].validity) =>
               o \in DOMAIN current_inference /\ current_decision[o] = d

(* A current decision is open.                                             *)
DecisionOpen ==
    \A o \in DOMAIN current_inference : IsOpen(decisions[current_decision[o]].validity)

InferencesDisjoint ==
    \A o \in Observation : ~Twice(o) =>
        \A x, y \in InferencesOf(o) :
            x # y => ~Overlap(inferences[x].validity, inferences[y].validity)

(* A step resolves an observation, withdraws the resolutions of a          *)
(* transaction, or leaves the lineage alone.                               *)
ResolutionsStay ==
    \A n \in Versions' : \A i \in DoneAt(n)' :
        IsResolution(n, i)' => n \in Versions /\ i \in DoneAt(n)

(* Which steps write the lineage, and what they do to the history.         *)
LEMMA ResolutionSteps ==
    ASSUME LedgerInv, LogConsistent, TableStep
    PROVE  /\ HistoryKept /\ Versions \subseteq Versions'
           /\ \/ CommitResolution
              \/ ResolutionsStay /\ \E t \in targets : Deactivate(t)
              \/ ResolutionsStay /\ ActivityStays /\ UNCHANGED lineage
<1>1. HistoryKept /\ Versions \subseteq Versions'
  BY HistorySteps
<1>2. CASE Advances /\ ~CommitResolution
  <2>1. command.kind # "CommitResolution" /\ UNCHANGED lineage
    BY <1>2 DEF Advances, PersistObservation, CreateIdentity, Promote, ChangeStatus, Merge, Split,
       Revert, EnqueueMaterialization, Materialized, Applying, state
  <2>2. HistoryGrows /\ ActivityStays
    BY <1>2, AdvanceHistory
  <2> QED
    BY <1>1, <2>1, <2>2 DEF HistoryGrows, ResolutionsStay, IsResolution
<1>3. ASSUME NEW t \in targets, Deactivate(t) PROVE ResolutionsStay
  <2>1. HistoryGrows /\ command.kind # "CommitResolution"
    BY <1>3, HistoryDeactivated
  <2> QED
    BY <2>1 DEF HistoryGrows, ResolutionsStay, IsResolution
<1>4. HistoryStays => ResolutionsStay
  BY DEF HistoryStays, ResolutionsStay
<1> QED
  BY <1>1, <1>2, <1>3, <1>4, HistorySteps

(* What a resolution finds and leaves.                                     *)
LEMMA ResolutionEffect ==
    ASSUME LedgerInv, LogConsistent, CommitResolution
    PROVE  LET o == command.inference.observation
               x == command.inference.id
               d == command.decision.id
           IN  /\ command.kind = "CommitResolution" /\ o \in DOMAIN observations
               /\ x \notin DOMAIN inferences /\ d \notin DOMAIN decisions
               /\ DOMAIN inferences' = DOMAIN inferences \cup {x}
               /\ DOMAIN decisions' = DOMAIN decisions \cup {d}
               /\ inferences'[x] = [observation |-> o, validity |-> Current(next_version)]
               /\ decisions'[d] = [inference |-> x, validity |-> Current(next_version)]
               /\ \A y \in DOMAIN inferences :
                      inferences'[y] = CloseCurrent(inferences, current_inference, {o})[y]
               /\ \A e \in DOMAIN decisions :
                      decisions'[e] = CloseCurrent(decisions, current_decision, {o})[e]
               /\ current_inference' = Insert(current_inference, o, x)
               /\ current_decision' = Insert(current_decision, o, d)
<1>1. inflight # None /\ cursor \in DOMAIN inflight.commands
      /\ command.kind = "CommitResolution"
  BY DEF CommitResolution, Applying
<1>2. /\ EvidenceHolds(cursor) /\ ResolutionHolds(cursor) /\ Left(cursor) = {}
  BY <1>1, InFlight DEF LedgerInv
<1>3. /\ command.inference.observation \in DOMAIN observations
      /\ command.inference.id \notin DOMAIN inferences
      /\ command.decision.id \notin DOMAIN decisions
      /\ command.decision.inference = command.inference.id
      /\ command.inference.begin = next_version /\ command.decision.begin = next_version
  BY <1>1, <1>2 DEF EvidenceHolds, ResolutionHolds, command
<1> QED
  BY <1>1, <1>3 DEF CommitResolution, Insert, CloseCurrent

(* A decision keeps its inference and the version it begins with.          *)
LEMMA DecisionKept ==
    ASSUME LedgerInv, LogConsistent, TableStep, NEW d \in DOMAIN decisions
    PROVE  /\ d \in DOMAIN decisions' /\ decisions'[d].inference = decisions[d].inference
           /\ decisions'[d].validity.begin = decisions[d].validity.begin
<1> DEFINE R == [inference: Inference, validity: Validity]
<1>1. decisions[d] \in R /\ decisions[d].validity \in Validity
  BY DEF LedgerInv, TypeOK, LineageTypeOK
<1>2. ASSUME NEW r \in R, next_version \in 1..MaxVersion,
             NEW s, s = [r EXCEPT !.validity = EndAt(@, next_version)]
      PROVE  s \in R /\ s.inference = r.inference /\ s.validity.begin = r.validity.begin
  BY <1>2, EndAtType
<1>3. ASSUME NEW S, next_version \in 1..MaxVersion
      PROVE  LET r == CloseCurrent(decisions, current_decision, S)[d]
             IN  r \in R /\ r.inference = decisions[d].inference
                         /\ r.validity.begin = decisions[d].validity.begin
  <2> DEFINE s == [decisions[d] EXCEPT !.validity = EndAt(@, next_version)]
  <2>1. s \in R /\ s.inference = decisions[d].inference
        /\ s.validity.begin = decisions[d].validity.begin
    BY <1>1, <1>2, <1>3
  <2>2. CloseCurrent(decisions, current_decision, S)[d] \in {s, decisions[d]}
    BY DEF CloseCurrent
  <2> QED
    BY <1>1, <2>1, <2>2
<1>4. CASE CommitResolution
  <2>1. next_version \in 1..MaxVersion
    BY <1>4, InFlight DEF CommitResolution, Applying, LedgerInv
  <2> QED
    BY <1>3, <1>4, <2>1, ResolutionEffect
<1>5. ASSUME NEW t \in targets, Deactivate(t)
      PROVE  /\ d \in DOMAIN decisions' /\ decisions'[d].inference = decisions[d].inference
             /\ decisions'[d].validity.begin = decisions[d].validity.begin
  <2> DEFINE c == CloseCurrent(decisions, current_decision, Withdrawn(t))
             s == [c[d] EXCEPT !.validity = EndAt(@, next_version)]
  <2>1. next_version \in 1..MaxVersion
    BY <1>5, HistoryDeactivated
  <2>2. decisions' = EndDecisions(c, Decided(t)) /\ DOMAIN c = DOMAIN decisions
    BY <1>5 DEF Deactivate, CloseCurrent
  <2>3. d \in DOMAIN decisions' /\ decisions'[d] \in {s, c[d]}
    BY <2>2 DEF EndDecisions
  <2>4. c[d] \in R /\ c[d].inference = decisions[d].inference
        /\ c[d].validity.begin = decisions[d].validity.begin
    BY <1>3, <2>1
  <2>5. s.inference = c[d].inference /\ s.validity.begin = c[d].validity.begin
    BY <1>2, <2>1, <2>4
  <2> QED
    BY <2>3, <2>4, <2>5
<1> QED
  BY <1>4, <1>5, ResolutionSteps DEF lineage

(* What a resolution in the history recorded, it goes on to stand for.     *)
LEMMA ResolutionKept ==
    ASSUME LedgerInv, LogConsistent, CurrentOpen, TableStep, HistoryKept,
           NEW n \in Versions, NEW i \in DoneAt(n), ResolutionRecorded(n, i)
    PROVE  ResolutionRecorded(n, i)'
<1> DEFINE x == CommandAt(n, i).inference.id
           d == CommandAt(n, i).decision.id
<1>1. CommandAt(n, i)' = CommandAt(n, i) /\ x \in DOMAIN inferences /\ d \in DOMAIN decisions
  BY DEF HistoryKept, ResolutionRecorded
<1>2. InferenceFrozen(x)
  BY <1>1, InferencesFrozen
<1>3. /\ d \in DOMAIN decisions' /\ decisions'[d].inference = decisions[d].inference
      /\ decisions'[d].validity.begin = decisions[d].validity.begin
  BY <1>1, DecisionKept
<1> QED
  BY <1>1, <1>2, <1>3 DEF ResolutionRecorded, InferenceFrozen

(* Every step keeps records and resolutions together.                      *)
LEMMA LineageRecordedStep ==
    LedgerInv /\ LogConsistent /\ CurrentOpen /\ LineageRecorded /\ TableStep
        => LineageRecorded'
<1> SUFFICES ASSUME LedgerInv, LogConsistent, CurrentOpen, LineageRecorded, TableStep
             PROVE  LineageRecorded'
  OBVIOUS
<1>1. HistoryKept /\ Versions \subseteq Versions'
  BY ResolutionSteps
<1>2. ASSUME NEW n \in Versions, NEW i \in DoneAt(n)
      PROVE  /\ n \in Versions' /\ i \in DoneAt(n)' /\ CommandAt(n, i)' = CommandAt(n, i)
             /\ IsResolution(n, i)' <=> IsResolution(n, i)
             /\ IsResolution(n, i) => ResolutionRecorded(n, i)'
  BY <1>1, ResolutionKept DEF HistoryKept, IsResolution, LineageRecorded, ResolutionsRecorded
<1>3. ASSUME DOMAIN inferences' = DOMAIN inferences, DOMAIN decisions' = DOMAIN decisions,
             ResolutionsStay
      PROVE  LineageRecorded'
  <2>1. ResolutionsRecorded'
    BY <1>2, <1>3 DEF ResolutionsStay, ResolutionsRecorded
  <2>2. InferencesResolved' /\ DecisionsResolved'
    BY <1>2, <1>3 DEF LineageRecorded, InferencesResolved, DecisionsResolved
  <2>3. ResolutionsDistinct'
    BY <1>2, <1>3 DEF LineageRecorded, ResolutionsStay, ResolutionsDistinct
  <2> QED
    BY <2>1, <2>2, <2>3 DEF LineageRecorded
<1>4. CASE CommitResolution
  <2> DEFINE x == command.inference.id
             d == command.decision.id
  <2>1. /\ HistoryGrows /\ next_version \in Versions'
        /\ \A n, i : n = next_version /\ i = cursor =>
               i \in DoneAt(n)' /\ CommandAt(n, i)' = command
    BY <1>4, AdvanceHistory DEF Advances
  <2>2. /\ command.kind = "CommitResolution"
        /\ x \notin DOMAIN inferences /\ d \notin DOMAIN decisions
        /\ DOMAIN inferences' = DOMAIN inferences \cup {x}
        /\ DOMAIN decisions' = DOMAIN decisions \cup {d}
        /\ inferences'[x] = [observation |-> command.inference.observation,
                             validity |-> Current(next_version)]
        /\ decisions'[d] = [inference |-> x, validity |-> Current(next_version)]
    BY <1>4, ResolutionEffect
  <2>3. ASSUME NEW n, n = next_version, NEW i, i = cursor
        PROVE  /\ n \in Versions' /\ i \in DoneAt(n)' /\ CommandAt(n, i)' = command
               /\ IsResolution(n, i)' /\ ResolutionRecorded(n, i)'
    BY <2>1, <2>2, <2>3 DEF IsResolution, ResolutionRecorded, Current, Interval
  <2>4. ResolutionsRecorded'
    BY <1>2, <2>1, <2>3 DEF HistoryGrows, ResolutionsRecorded
  <2>5. InferencesResolved'
    BY <1>2, <2>2, <2>3 DEF LineageRecorded, InferencesResolved
  <2>6. DecisionsResolved'
    BY <1>2, <2>2, <2>3 DEF LineageRecorded, DecisionsResolved
  <2>7. ASSUME NEW n \in Versions, NEW i \in DoneAt(n), IsResolution(n, i)
        PROVE  /\ CommandAt(n, i)'.inference.id # x /\ CommandAt(n, i)'.decision.id # d
    BY <1>2, <2>2, <2>7 DEF LineageRecorded, ResolutionsRecorded, ResolutionRecorded
  <2>8. ASSUME NEW n \in Versions', NEW i \in DoneAt(n)', NEW j \in DoneAt(n)',
               IsResolution(n, i)', IsResolution(n, j)', i # j
        PROVE  /\ CommandAt(n, i)'.inference.id # CommandAt(n, j)'.inference.id
               /\ CommandAt(n, i)'.decision.id # CommandAt(n, j)'.decision.id
    <3>1. CASE n \in Versions /\ i \in DoneAt(n) /\ j \in DoneAt(n)
      BY <1>2, <2>8, <3>1 DEF LineageRecorded, ResolutionsDistinct
    <3>2. CASE n \in Versions /\ i \in DoneAt(n) /\ n = next_version /\ j = cursor
      BY <1>2, <2>3, <2>7, <2>8, <3>2
    <3>3. CASE n \in Versions /\ j \in DoneAt(n) /\ n = next_version /\ i = cursor
      BY <1>2, <2>3, <2>7, <2>8, <3>3
    <3> QED
      BY <2>1, <2>8, <3>1, <3>2, <3>3 DEF HistoryGrows
  <2>9. ResolutionsDistinct'
    BY <2>8 DEF ResolutionsDistinct
  <2> QED
    BY <2>4, <2>5, <2>6, <2>9 DEF LineageRecorded
<1>5. ASSUME NEW t \in targets, Deactivate(t)
      PROVE  DOMAIN inferences' = DOMAIN inferences /\ DOMAIN decisions' = DOMAIN decisions
  BY <1>5 DEF Deactivate, CloseCurrent, EndDecisions
<1> QED
  BY <1>3, <1>4, <1>5, ResolutionSteps DEF lineage

-----------------------------------------------------------------------------
(* The current pointers. *)

(* A history in which o was not resolved again has the same last           *)
(* resolution of it.                                                       *)
LEMMA SameLast ==
    ASSUME HistoryKept, Versions \subseteq Versions', NEW o,
           \A n \in Versions' : \A i \in DoneAt(n)' :
               Resolves(n, i, o)' => n \in Versions /\ i \in DoneAt(n)
    PROVE  \A n \in Versions : \A i \in DoneAt(n) :
               /\ Resolves(n, i, o)' <=> Resolves(n, i, o)
               /\ IsLast(n, i, o)' <=> IsLast(n, i, o)
<1>1. ASSUME NEW n \in Versions, NEW i \in DoneAt(n)
      PROVE  /\ n \in Versions' /\ i \in DoneAt(n)'
             /\ Resolves(n, i, o)' <=> Resolves(n, i, o)
  BY DEF HistoryKept, Resolves, IsResolution
<1>2. ASSUME NEW n \in Versions, NEW i \in DoneAt(n)
      PROVE  IsLast(n, i, o)' <=> IsLast(n, i, o)
  BY <1>1 DEF IsLast
<1> QED
  BY <1>1, <1>2

(* An observation that is neither resolved nor withdrawn keeps its view.   *)
LEMMA SameView ==
    ASSUME HistoryKept, Versions \subseteq Versions', ActivityStays, NEW o, ViewOf(o),
           \A n \in Versions' : \A i \in DoneAt(n)' :
               Resolves(n, i, o)' => n \in Versions /\ i \in DoneAt(n),
           (o \in DOMAIN current_inference') <=> (o \in DOMAIN current_inference),
           o \in DOMAIN current_inference =>
               /\ current_inference'[o] = current_inference[o]
               /\ current_decision'[o] = current_decision[o]
    PROVE  ViewOf(o)'
<1>1. \A n \in Versions : \A i \in DoneAt(n) :
          /\ n \in Versions' /\ i \in DoneAt(n)' /\ CommandAt(n, i)' = CommandAt(n, i)
          /\ Resolves(n, i, o)' <=> Resolves(n, i, o)
          /\ IsLast(n, i, o)' <=> IsLast(n, i, o)
          /\ ActiveAt(n)' <=> ActiveAt(n)
  BY SameLast DEF HistoryKept, ActivityStays
<1>2. \A n \in Versions' : \A i \in DoneAt(n)' :
          IsLast(n, i, o)' => n \in Versions /\ i \in DoneAt(n)
  BY DEF IsLast
<1>3. (\E n \in Versions' : \E i \in DoneAt(n)' : Resolves(n, i, o)') =>
          \E n \in Versions' : \E i \in DoneAt(n)' : IsLast(n, i, o)'
  BY <1>1 DEF ViewOf
<1>4. o \in DOMAIN current_inference' =>
          \E n \in Versions' : \E i \in DoneAt(n)' : IsLast(n, i, o)' /\ ActiveAt(n)'
  BY <1>1 DEF ViewOf
<1>5. ASSUME NEW n \in Versions', NEW i \in DoneAt(n)', IsLast(n, i, o)', ActiveAt(n)'
      PROVE  PointsTo(o, n, i)'
  BY <1>1, <1>2, <1>5 DEF ViewOf, PointsTo
<1> QED
  BY <1>3, <1>4, <1>5 DEF ViewOf

(* The places of the history are numbers, and a command under way comes    *)
(* after all of them.                                                      *)
LEMMA Places ==
    ASSUME LedgerInv, LogConsistent
    PROVE  /\ \A n \in Versions : n \in Nat /\ n <= next_version /\ DoneAt(n) \subseteq Nat
           /\ inflight # None => \A i \in DoneAt(next_version) : i < cursor
<1>1. /\ version \in Nat /\ next_version = version + 1 /\ DOMAIN transactions = 1..version
      /\ Versions = (1..version) \cup {next_version} /\ next_version \notin DOMAIN transactions
      /\ Len(transactions) = version
  BY VersionsOfLog
<1>2. cursor \in Nat /\ transactions \in Seq([version: 1..MaxVersion, envelope: CommandEnvelope,
                                               active: BOOLEAN])
  BY DEF LedgerInv, TypeOK, ControlTypeOK, LogTypeOK
<1>3. ASSUME NEW n \in 1..version PROVE DoneAt(n) \subseteq Nat
  <2> DEFINE T == [version: 1..MaxVersion, envelope: CommandEnvelope, active: BOOLEAN]
  <2> HIDE DEF T
  <2>1. n \in DOMAIN transactions /\ transactions \in Seq(T)
    BY <1>1, <1>2, <1>3 DEF T
  <2>2. transactions[n] \in T
    BY <2>1
  <2>3. transactions[n].envelope \in CommandEnvelope
    BY <2>2 DEF T
  <2>4. /\ Len(transactions[n].envelope.commands) \in Nat
        /\ DOMAIN transactions[n].envelope.commands =
               1..Len(transactions[n].envelope.commands)
    BY <2>3, EnvelopeFields
  <2> QED
    BY <2>1, <2>4 DEF DoneAt
<1>4. DoneAt(next_version) \subseteq 1..(cursor - 1)
  BY <1>1 DEF DoneAt
<1> QED
  BY <1>1, <1>2, <1>3, <1>4

(* Every step keeps the current pointers on the last resolution, or takes  *)
(* them away with its transaction.                                         *)
LEMMA CurrentViewStep ==
    LedgerInv /\ LogConsistent /\ LineageRecorded /\ CurrentView /\ TableStep => CurrentView'
<1> SUFFICES ASSUME LedgerInv, LogConsistent, LineageRecorded, CurrentView, TableStep,
                    NEW o \in Observation
             PROVE  ViewOf(o)'
  BY DEF CurrentView
<1>1. HistoryKept /\ Versions \subseteq Versions' /\ ViewOf(o)
  BY ResolutionSteps DEF CurrentView
<1>2. ResolutionsStay =>
          \A n \in Versions' : \A i \in DoneAt(n)' :
              Resolves(n, i, o)' => n \in Versions /\ i \in DoneAt(n)
  BY DEF ResolutionsStay, Resolves
<1>3. CASE ResolutionsStay /\ ActivityStays /\ UNCHANGED lineage
  BY <1>1, <1>2, <1>3, SameView DEF lineage
<1>4. CASE CommitResolution
  <2>1. /\ HistoryGrows /\ ActivityStays /\ Versions' = Versions /\ inflight # None
        /\ next_version \in Versions
        /\ \A n, i : n = next_version /\ i = cursor =>
               i \in DoneAt(n)' /\ ActiveAt(n)' /\ CommandAt(n, i)' = command
    BY <1>4, AdvanceHistory DEF Advances
  <2>2. /\ command.kind = "CommitResolution"
        /\ current_inference' =
               Insert(current_inference, command.inference.observation, command.inference.id)
        /\ current_decision' =
               Insert(current_decision, command.inference.observation, command.decision.id)
    BY <1>4, ResolutionEffect
  <2>3. DOMAIN current_decision = DOMAIN current_inference
    BY DEF LedgerInv, TypeOK, LineageTypeOK
  <2>4. CASE o # command.inference.observation
    <3>1. \A n \in Versions' : \A i \in DoneAt(n)' :
              Resolves(n, i, o)' => n \in Versions /\ i \in DoneAt(n)
      BY <2>1, <2>4 DEF HistoryGrows, Resolves
    <3>2. (o \in DOMAIN current_inference') <=> (o \in DOMAIN current_inference)
      BY <2>2, <2>4 DEF Insert
    <3>3. o \in DOMAIN current_inference =>
               /\ current_inference'[o] = current_inference[o]
               /\ current_decision'[o] = current_decision[o]
      BY <2>2, <2>3, <2>4 DEF Insert
    <3> QED
      BY <1>1, <2>1, <3>1, <3>2, <3>3, SameView
  <2>5. CASE o = command.inference.observation
    <3>1. ASSUME NEW n, n = next_version, NEW i, i = cursor
          PROVE  /\ n \in Versions' /\ i \in DoneAt(n)' /\ Resolves(n, i, o)' /\ ActiveAt(n)'
                 /\ PointsTo(o, n, i)'
      BY <2>1, <2>2, <2>3, <2>5, <3>1 DEF Resolves, IsResolution, PointsTo, Insert
    <3>2. ASSUME NEW m \in Versions', NEW j \in DoneAt(m)'
          PROVE  m < next_version \/ (m = next_version /\ j <= cursor)
      <4>1. cursor \in Nat /\ next_version \in Nat
        BY VersionsOfLog DEF LedgerInv, TypeOK, ControlTypeOK
      <4>2. CASE m \in Versions /\ j \in DoneAt(m)
        <5>1. /\ m \in Nat /\ m <= next_version /\ j \in Nat
              /\ m = next_version => j < cursor
          BY <2>1, <4>2, Places
        <5> QED
          BY <4>1, <5>1
      <4>3. CASE m = next_version /\ j = cursor
        BY <4>1, <4>3
      <4> QED
        BY <2>1, <4>2, <4>3 DEF HistoryGrows
    <3>3. ASSUME NEW n, n = next_version, NEW i, i = cursor
          PROVE  IsLast(n, i, o)'
      BY <3>1, <3>2, <3>3 DEF IsLast
    <3>4. ASSUME NEW n \in Versions', NEW i \in DoneAt(n)', IsLast(n, i, o)'
          PROVE  n = next_version /\ i = cursor
      <4>1. next_version < n \/ (next_version = n /\ cursor <= i)
        <5>1. \A m, j : m = next_version /\ j = cursor => m < n \/ (m = n /\ j <= i)
          BY <3>1, <3>4 DEF IsLast
        <5> QED
          BY <5>1
      <4>2. n < next_version \/ (n = next_version /\ i <= cursor)
        BY <3>2
      <4>3. n \in Nat /\ next_version \in Nat /\ cursor \in Nat
            /\ (n = next_version => i \in Nat)
        <5>1. /\ n \in Versions /\ cursor \in Nat /\ next_version \in Nat
              /\ i \in DoneAt(n) \/ i = cursor
          BY <2>1, VersionsOfLog DEF HistoryGrows, LedgerInv, TypeOK, ControlTypeOK
        <5> QED
          BY <5>1, Places
      <4> QED
        BY <4>1, <4>2, <4>3
    <3> QED
      BY <3>1, <3>3, <3>4 DEF ViewOf
  <2> QED
    BY <2>4, <2>5
<1>5. ASSUME NEW t \in targets, Deactivate(t), ResolutionsStay PROVE ViewOf(o)'
  <2> DEFINE v == transaction_indexes[t]
  <2>1. /\ Versions' = Versions /\ t \in DOMAIN transaction_indexes
        /\ \A n \in Versions : ActiveAt(n)' <=> ActiveAt(n) /\ n # v
    BY <1>5, HistoryDeactivated
  <2>2. /\ current_inference' = Remove(current_inference, Withdrawn(t))
        /\ current_decision' = Remove(current_decision, Withdrawn(t))
    BY <1>5 DEF Deactivate
  <2>3. DOMAIN current_decision = DOMAIN current_inference
    BY DEF LedgerInv, TypeOK, LineageTypeOK
  <2>4. /\ v \in Versions
        /\ \A c : c \in Commands(t, "CommitResolution") <=>
               \E i \in DoneAt(v) : c = CommandAt(v, i) /\ c.kind = "CommitResolution"
    BY <2>1, CommandsOf
  <2>5. \A n \in Versions : \A i \in DoneAt(n) :
            /\ i \in DoneAt(n)' /\ CommandAt(n, i)' = CommandAt(n, i)
            /\ Resolves(n, i, o)' <=> Resolves(n, i, o)
            /\ IsLast(n, i, o)' <=> IsLast(n, i, o)
    BY <1>1, <1>2, <1>5, SameLast DEF HistoryKept
  <2>6. ASSUME o \in Withdrawn(t), NEW n \in Versions, NEW i \in DoneAt(n), PointsTo(o, n, i),
               IsResolution(n, i)
        PROVE  n = v
    <3>1. PICK j \in DoneAt(v) : /\ IsResolution(v, j)
                                 /\ CommandAt(v, j).inference.id = current_inference[o]
      BY <2>4, <2>6 DEF Withdrawn, IsResolution
    <3>2. ResolutionRecorded(v, j) /\ ResolutionRecorded(n, i)
      BY <2>4, <2>6, <3>1 DEF LineageRecorded, ResolutionsRecorded
    <3> QED
      BY <2>6, <3>1, <3>2 DEF ResolutionRecorded, PointsTo
  <2>7. ASSUME NEW i \in DoneAt(v), Resolves(v, i, o), PointsTo(o, v, i) PROVE o \in Withdrawn(t)
    BY <2>4, <2>7 DEF Withdrawn, Resolves, IsResolution, PointsTo
  <2>8. (\E n \in Versions' : \E i \in DoneAt(n)' : Resolves(n, i, o)') =>
            \E n \in Versions' : \E i \in DoneAt(n)' : IsLast(n, i, o)'
    BY <1>1, <1>2, <1>5, <2>1, <2>5 DEF ViewOf
  <2>9. ASSUME o \in DOMAIN current_inference'
        PROVE  \E n \in Versions' : \E i \in DoneAt(n)' : IsLast(n, i, o)' /\ ActiveAt(n)'
    <3>1. o \in DOMAIN current_inference /\ o \notin Withdrawn(t)
      BY <2>2, <2>9 DEF Remove
    <3>2. PICK n \in Versions : \E i \in DoneAt(n) : IsLast(n, i, o) /\ ActiveAt(n)
      BY <1>1, <3>1 DEF ViewOf
    <3>3. PICK i \in DoneAt(n) : IsLast(n, i, o) /\ ActiveAt(n) /\ PointsTo(o, n, i)
      BY <1>1, <3>2 DEF ViewOf
    <3>4. n # v
      BY <2>7, <3>1, <3>3 DEF IsLast
    <3> QED
      BY <2>1, <2>5, <3>3, <3>4
  <2>10. ASSUME NEW n \in Versions', NEW i \in DoneAt(n)', IsLast(n, i, o)', ActiveAt(n)'
         PROVE  PointsTo(o, n, i)'
    <3>1. n \in Versions /\ i \in DoneAt(n)
      BY <1>2, <1>5, <2>10 DEF IsLast
    <3>2. IsLast(n, i, o) /\ PointsTo(o, n, i) /\ n # v
      BY <1>1, <2>1, <2>5, <2>10, <3>1 DEF ViewOf
    <3>3. o \notin Withdrawn(t)
      BY <2>6, <3>1, <3>2 DEF IsLast, Resolves
    <3> QED
      BY <2>2, <2>3, <2>5, <3>1, <3>2, <3>3 DEF PointsTo, Remove
  <2> QED
    BY <2>8, <2>9, <2>10 DEF ViewOf
<1> QED
  BY <1>3, <1>4, <1>5, ResolutionSteps

(* What the views need of the current pointers: see CurrentOpen.           *)
CurrentInv == CurrentOpen /\ LineageRecorded /\ CurrentView

(* An empty ledger has no history, and views of nothing.                   *)
LEMMA InitCurrent == Init => LogConsistent /\ CurrentInv
<1> SUFFICES ASSUME Init PROVE LogConsistent /\ CurrentInv
  OBVIOUS
<1>1. LogConsistent /\ CurrentOpen
  BY DEF Init, Empty, EmptyMap, LogConsistent, CurrentOpen
<1>2. /\ inferences = EmptyMap /\ decisions = EmptyMap /\ current_inference = EmptyMap
      /\ transactions = <<>> /\ inflight = None
  BY DEF Init, Empty
<1>3. \A n : DoneAt(n) = {}
  BY <1>2 DEF DoneAt
<1>4. LineageRecorded
  BY <1>2, <1>3 DEF LineageRecorded, ResolutionsRecorded, InferencesResolved, DecisionsResolved,
     ResolutionsDistinct, EmptyMap
<1>5. CurrentView
  BY <1>2, <1>3 DEF CurrentView, ViewOf, EmptyMap
<1> QED
  BY <1>1, <1>4, <1>5 DEF CurrentInv

(* Every step keeps the views of the current pointers.                     *)
LEMMA CurrentInvStep == LedgerInv /\ LogConsistent /\ CurrentInv /\ TableStep => CurrentInv'
BY CurrentOpenStep, LineageRecordedStep, CurrentViewStep DEF CurrentInv

(* Between commits the history is the log.                                 *)
LEMMA SettledHistory ==
    ASSUME LedgerInv, LogConsistent, inflight = None
    PROVE  /\ DOMAIN transactions = 1..version /\ version \in Nat
           /\ \A n \in 1..version :
                  /\ n \in Versions /\ DoneAt(n) = DOMAIN transactions[n].envelope.commands
                  /\ EnvelopeAt(n) = transactions[n].envelope
                  /\ ActiveAt(n) <=> transactions[n].active
           /\ \A n \in Versions : DoneAt(n) # {} => n \in 1..version
<1>1. /\ Versions = (1..version) \cup {next_version} /\ DOMAIN transactions = 1..version
      /\ version \in Nat /\ next_version \notin DOMAIN transactions
      /\ \A n \in 1..version : EnvelopeAt(n) = transactions[n].envelope
  BY VersionsOfLog
<1>2. /\ DoneAt(next_version) = {}
      /\ \A n \in 1..version : DoneAt(n) = DOMAIN transactions[n].envelope.commands
      /\ \A n \in 1..version : ActiveAt(n) <=> transactions[n].active
  BY <1>1 DEF DoneAt, ActiveAt
<1> QED
  BY <1>1, <1>2

(* Between commits the current inference and decision of an observation    *)
(* are those of its last resolution in the log, if its transaction is      *)
(* active, and else there are none: reverting an earlier resolution does   *)
(* not touch them, and reverting the last one restores no earlier one.     *)
THEOREM CurrentFollowsLog == Spec => []CurrentIsLatest
<1>1. LedgerInv /\ LogConsistent /\ CurrentInv => CurrentIsLatest
  <2> SUFFICES ASSUME LedgerInv, LogConsistent, CurrentInv, inflight = None,
                      NEW o \in Observation
               PROVE  LET P == Resolutions(o)
                          last == Latest(P)
                          c == transactions[last[1]].envelope.commands[last[2]]
                          current == P # {} /\ transactions[last[1]].active
                      IN  /\ (o \in DOMAIN current_inference) <=> current
                          /\ current => /\ current_inference[o] = c.inference.id
                                        /\ current_decision[o] = c.decision.id
    BY DEF CurrentIsLatest, Settled
  <2> DEFINE P == Resolutions(o)
  <2>1. /\ DOMAIN transactions = 1..version
        /\ \A n \in 1..version :
               /\ n \in Versions /\ DoneAt(n) = DOMAIN transactions[n].envelope.commands
               /\ EnvelopeAt(n) = transactions[n].envelope
               /\ ActiveAt(n) <=> transactions[n].active
        /\ \A n \in Versions : DoneAt(n) # {} => n \in 1..version
    BY SettledHistory
  <2>2. /\ \A n \in Versions : \A i \in DoneAt(n) : Resolves(n, i, o) => <<n, i>> \in P
        /\ \A p \in P : /\ p = <<p[1], p[2]>> /\ p[1] \in 1..version /\ p[1] \in Versions
                        /\ p[2] \in DoneAt(p[1]) /\ Resolves(p[1], p[2], o)
    <3>1. ASSUME NEW n \in Versions, NEW i \in DoneAt(n), Resolves(n, i, o)
          PROVE  <<n, i>> \in P
      <4>1. n \in 1..version /\ i \in DOMAIN transactions[n].envelope.commands
        BY <2>1, <3>1
      <4>2. /\ transactions[n].envelope.commands[i].kind = "CommitResolution"
            /\ transactions[n].envelope.commands[i].inference.observation = o
        BY <2>1, <3>1, <4>1 DEF Resolves, IsResolution, CommandAt
      <4> QED
        BY <2>1, <4>1, <4>2 DEF Resolutions
    <3>2. ASSUME NEW p \in P
          PROVE  /\ p = <<p[1], p[2]>> /\ p[1] \in 1..version /\ p[1] \in Versions
                 /\ p[2] \in DoneAt(p[1]) /\ Resolves(p[1], p[2], o)
      <4>1. PICK n \in 1..version :
                p \in {n} \X DOMAIN transactions[n].envelope.commands
        BY <2>1 DEF Resolutions
      <4>2. /\ p = <<p[1], p[2]>> /\ p[1] = n
            /\ p[2] \in DOMAIN transactions[n].envelope.commands
        BY <4>1
      <4>3. /\ transactions[p[1]].envelope.commands[p[2]].kind = "CommitResolution"
            /\ transactions[p[1]].envelope.commands[p[2]].inference.observation = o
        BY DEF Resolutions
      <4> QED
        BY <2>1, <4>2, <4>3 DEF Resolves, IsResolution, CommandAt
    <3> QED
      BY <3>1, <3>2
  <2>3. ViewOf(o)
    BY DEF CurrentInv, CurrentView
  <2>4. CASE P = {}
    BY <2>2, <2>3, <2>4 DEF ViewOf, IsLast
  <2>5. CASE P # {}
    <3>1. PICK n \in Versions : \E i \in DoneAt(n) : IsLast(n, i, o)
      BY <2>2, <2>3, <2>5 DEF ViewOf
    <3>2. PICK i \in DoneAt(n) : IsLast(n, i, o)
      BY <3>1
    <3> DEFINE Later(p, q) == q[1] < p[1] \/ (q[1] = p[1] /\ q[2] <= p[2])
    <3>3. <<n, i>> \in P /\ n \in 1..version
      BY <2>1, <2>2, <3>2 DEF IsLast
    <3>4. \A q \in P : Later(<<n, i>>, q)
      BY <2>2, <3>2 DEF IsLast
    <3>5. ASSUME NEW p \in P, \A q \in P : Later(p, q) PROVE p = <<n, i>>
      <4>1. p = <<p[1], p[2]>> /\ p[1] \in Nat /\ p[2] \in Nat /\ n \in Nat /\ i \in Nat
        BY <2>2, <3>2, Places
      <4>2. Later(p, <<n, i>>) /\ Later(<<n, i>>, p)
        BY <3>3, <3>4, <3>5
      <4> QED
        BY <4>1, <4>2
    <3>6. Latest(P) = <<n, i>>
      BY <3>3, <3>4, <3>5 DEF Latest
    <3>7. (o \in DOMAIN current_inference) <=> ActiveAt(n)
      <4>1. ASSUME NEW m \in Versions, NEW j \in DoneAt(m), IsLast(m, j, o)
            PROVE  m = n
        BY <3>2, <4>1, Places DEF IsLast
      <4> QED
        BY <2>3, <3>2, <4>1 DEF ViewOf, PointsTo
    <3>8. ActiveAt(n) => PointsTo(o, n, i)
      BY <2>3, <3>2 DEF ViewOf
    <3>9. CommandAt(n, i) = transactions[n].envelope.commands[i]
          /\ (ActiveAt(n) <=> transactions[n].active)
      BY <2>1, <3>3 DEF CommandAt
    <3> QED
      BY <2>5, <3>6, <3>7, <3>8, <3>9 DEF PointsTo
  <2> QED
    BY <2>4, <2>5
<1> QED
  BY <1>1, InitCurrent, CurrentInvStep, InitInv, StepInv, NextIsStep, LogStep, PTL DEF Spec

-----------------------------------------------------------------------------
(* The timeline of an observation. *)

(* What stands for a record.                                               *)
LEMMA RecordOrigin ==
    ASSUME LedgerInv, LineageRecorded
    PROVE  /\ \A x \in DOMAIN inferences : \E n \in Versions : \E i \in DoneAt(n) :
                  /\ Resolves(n, i, inferences[x].observation)
                  /\ CommandAt(n, i).inference.id = x /\ inferences[x].validity.begin = n
           /\ \A d \in DOMAIN decisions :
                  /\ decisions[d].inference \in DOMAIN inferences
                  /\ \E n \in Versions : \E i \in DoneAt(n) :
                         /\ Resolves(n, i, inferences[decisions[d].inference].observation)
                         /\ CommandAt(n, i).decision.id = d
                         /\ decisions[d].validity.begin = n
BY DEF LineageRecorded, ResolutionsRecorded, ResolutionRecorded, InferencesResolved,
   DecisionsResolved, Resolves

(* The current records of an observation come from one active resolution.  *)
LEMMA CurrentOrigin ==
    ASSUME LedgerInv, CurrentInv, NEW o \in DOMAIN current_inference
    PROVE  \E n \in Versions : \E i \in DoneAt(n) :
               /\ Resolves(n, i, o) /\ PointsTo(o, n, i) /\ ResolutionRecorded(n, i)
               /\ ActiveAt(n)
<1>1. o \in Observation /\ ViewOf(o)
  BY DEF LedgerInv, TypeOK, LineageTypeOK, EvidenceTypeOK, CurrentInv, CurrentView
<1>2. PICK n \in Versions : \E i \in DoneAt(n) : IsLast(n, i, o) /\ ActiveAt(n)
  BY <1>1 DEF ViewOf
<1>3. PICK i \in DoneAt(n) : IsLast(n, i, o) /\ ActiveAt(n) /\ PointsTo(o, n, i)
  BY <1>1, <1>2 DEF ViewOf
<1>4. ResolutionRecorded(n, i)
  BY <1>3 DEF IsLast, Resolves, CurrentInv, LineageRecorded, ResolutionsRecorded
<1> QED
  BY <1>3, <1>4 DEF IsLast

(* The current decision belongs to the current inference, so that no two   *)
(* observations have the same one.                                         *)
LEMMA CurrentPair ==
    ASSUME LedgerInv, CurrentInv, NEW o \in DOMAIN current_inference
    PROVE  /\ current_inference[o] \in DOMAIN inferences
           /\ inferences[current_inference[o]].observation = o
           /\ current_decision[o] \in DOMAIN decisions
           /\ decisions[current_decision[o]].inference = current_inference[o]
BY CurrentOrigin DEF ResolutionRecorded, PointsTo, Resolves

(* What ending an interval in this commit does to it.                      *)
LEMMA EndAtEnds ==
    ASSUME NEW validity \in Validity, NEW n \in 1..MaxVersion
    PROVE  LET after == EndAt(validity, n)
           IN  /\ after \in Validity /\ after.begin = validity.begin
               /\ EndAt(after, n) = after
               /\ after = validity \/ after.end = n
               /\ validity.begin < n => ~IsOpen(after) /\ after.end = n
               /\ IsOpen(validity) => after.end <= validity.end
<1>1. MaxVersion \in Nat /\ EndAt(validity, n) \in Validity
      /\ EndAt(validity, n).begin = validity.begin
  BY LedgerAssumption, EndAtType
<1>2. CASE n <= validity.begin
  <2>1. EndAt(validity, n) = validity
    BY <1>2 DEF EndAt
  <2> QED
    BY <1>1, <1>2, <2>1 DEF Validity
<1>3. CASE ~(n <= validity.begin)
  <2> DEFINE after == [validity EXCEPT !.end = n]
  <2>1. EndAt(validity, n) = after
    BY <1>3 DEF EndAt
  <2>2. after.begin = validity.begin /\ after.end = n /\ [after EXCEPT !.end = n] = after
    BY DEF Validity
  <2>3. EndAt(after, n) = after
    BY <2>2 DEF EndAt
  <2>4. ~IsOpen(after) /\ (IsOpen(validity) => after.end <= validity.end)
    BY <1>1, <2>2 DEF IsOpen, Open
  <2> QED
    BY <1>1, <2>1, <2>2, <2>3, <2>4
<1> QED
  BY <1>2, <1>3

(* The intervals of the lineage are left alone, or ended in this commit.   *)
LEMMA ValiditySteps ==
    ASSUME LedgerInv, LogConsistent, TableStep
    PROVE  /\ \A x \in DOMAIN inferences :
                  /\ inferences[x].validity \in Validity
                  /\ inferences'[x].validity \in
                         {inferences[x].validity, EndAt(inferences[x].validity, next_version)}
           /\ \A d \in DOMAIN decisions :
                  /\ decisions[d].validity \in Validity
                  /\ decisions'[d].validity \in
                         {decisions[d].validity, EndAt(decisions[d].validity, next_version)}
           /\ \/ UNCHANGED lineage
              \/ /\ inflight # None /\ inflight' = inflight /\ version' = version
                 /\ next_version \in 1..MaxVersion
<1> DEFINE I == [observation: Observation, validity: Validity]
           D == [inference: Inference, validity: Validity]
<1>1. /\ \A x \in DOMAIN inferences : inferences[x] \in I /\ inferences[x].validity \in Validity
      /\ \A d \in DOMAIN decisions : decisions[d] \in D /\ decisions[d].validity \in Validity
  BY DEF LedgerInv, TypeOK, LineageTypeOK
<1>2. ASSUME NEW S, NEW x \in DOMAIN inferences
      PROVE  CloseCurrent(inferences, current_inference, S)[x].validity \in
                 {inferences[x].validity, EndAt(inferences[x].validity, next_version)}
  BY <1>1 DEF CloseCurrent
<1>3. ASSUME NEW S, NEW d \in DOMAIN decisions
      PROVE  LET r == CloseCurrent(decisions, current_decision, S)[d]
             IN  /\ r = [decisions[d] EXCEPT !.validity = r.validity]
                 /\ r.validity \in
                        {decisions[d].validity, EndAt(decisions[d].validity, next_version)}
  BY <1>1 DEF CloseCurrent
<1>4. CASE CommitResolution
  <2>1. inflight # None /\ cursor \in DOMAIN inflight.commands
        /\ inflight' = inflight /\ version' = version
    BY <1>4 DEF CommitResolution, Applying, Advance, log
  <2>2. next_version \in 1..MaxVersion
    BY <2>1, InFlight DEF LedgerInv
  <2> QED
    BY <1>1, <1>2, <1>3, <1>4, <2>1, <2>2, ResolutionEffect
<1>5. ASSUME NEW t \in targets, Deactivate(t)
      PROVE  /\ \A x \in DOMAIN inferences : inferences'[x].validity \in
                    {inferences[x].validity, EndAt(inferences[x].validity, next_version)}
             /\ \A d \in DOMAIN decisions : decisions'[d].validity \in
                    {decisions[d].validity, EndAt(decisions[d].validity, next_version)}
             /\ inflight # None /\ inflight' = inflight /\ version' = version
             /\ next_version \in 1..MaxVersion
  <2> DEFINE c == CloseCurrent(decisions, current_decision, Withdrawn(t))
  <2>1. inflight # None /\ inflight' = inflight /\ version' = version
        /\ next_version \in 1..MaxVersion
    BY <1>5, HistoryDeactivated DEF Deactivate, LedgerInv, ValidationHolds
  <2>2. /\ inferences' = CloseCurrent(inferences, current_inference, Withdrawn(t))
        /\ decisions' = EndDecisions(c, Decided(t)) /\ DOMAIN c = DOMAIN decisions
    BY <1>5 DEF Deactivate, CloseCurrent
  <2>3. ASSUME NEW d \in DOMAIN decisions
        PROVE  decisions'[d].validity \in
                   {decisions[d].validity, EndAt(decisions[d].validity, next_version)}
    <3>1. /\ c[d] = [decisions[d] EXCEPT !.validity = c[d].validity]
          /\ c[d].validity \in
                 {decisions[d].validity, EndAt(decisions[d].validity, next_version)}
      BY <1>3
    <3>2. decisions'[d] \in {c[d], [c[d] EXCEPT !.validity = EndAt(@, next_version)]}
      BY <2>2 DEF EndDecisions
    <3>3. EndAt(c[d].validity, next_version) = EndAt(decisions[d].validity, next_version)
      BY <1>1, <2>1, <3>1, EndAtEnds
    <3>4. c[d] \in D
      BY <1>1, <2>1, <3>1, EndAtEnds
    <3> QED
      BY <3>1, <3>2, <3>3, <3>4
  <2> QED
    BY <1>2, <2>1, <2>2, <2>3
<1>6. CASE UNCHANGED lineage
  BY <1>1, <1>6 DEF lineage
<1> QED
  BY <1>1, <1>4, <1>5, <1>6, ResolutionSteps

(* The present never moves back, and a commit works at the next version.   *)
LEMMA NowMoves ==
    ASSUME LedgerInv, LogConsistent, TableStep
    PROVE  /\ Now \in Nat /\ Now' \in Nat /\ Now <= Now'
           /\ inflight # None /\ inflight' = inflight /\ version' = version =>
                  Now = next_version /\ Now' = next_version
<1>1. version \in Nat /\ next_version = version + 1
  BY VersionsOfLog
<1>2. /\ version' \in {version, next_version}
      /\ version' = next_version => inflight # None
      /\ inflight # None /\ inflight' = None => version' = next_version
  <2>1. CASE Record
    BY <2>1 DEF Record
  <2>2. CASE ~Record
    <3>1. version' = version /\ (inflight # None => inflight' = inflight)
      BY <2>2 DEF TableStep, Quiet, Start, Apply, Applying, PersistObservation, CommitResolution,
         CreateIdentity, Promote, ChangeStatus, Merge, Split, Revert, Deactivate,
         EnqueueMaterialization, Materialized, Record, Advance, state, log
    <3> QED
      BY <1>1, <3>1
  <2> QED
    BY <2>1, <2>2
<1>3. inflight # None /\ inflight' # None => version' = version
  BY DEF TableStep, Quiet, Start, Apply, Applying, PersistObservation, CommitResolution,
     CreateIdentity, Promote, ChangeStatus, Merge, Split, Revert, Deactivate,
     EnqueueMaterialization, Materialized, Record, Advance, state, log
<1>4. CASE inflight = None
  <2>1. version' = version /\ next_version' = next_version
    BY <1>2, <1>4 DEF next_version
  <2>2. Now = version /\ Now' \in {version, next_version}
    BY <1>4, <2>1 DEF Now
  <2> QED
    BY <1>1, <1>4, <2>2
<1>5. CASE inflight # None /\ inflight' = None
  BY <1>1, <1>2, <1>5 DEF Now, next_version
<1>6. CASE inflight # None /\ inflight' # None
  BY <1>1, <1>3, <1>6 DEF Now, next_version
<1> QED
  BY <1>4, <1>5, <1>6

(* Every step persists evidence at the present version, lets no inference  *)
(* begin before its evidence, and ends nothing in the future.              *)
LEMMA EvidenceFirstStep ==
    LedgerInv /\ LogConsistent /\ CurrentInv /\ EvidenceFirst /\ TableStep => EvidenceFirst'
<1> SUFFICES ASSUME LedgerInv, LogConsistent, CurrentInv, EvidenceFirst, TableStep
             PROVE  EvidenceFirst'
  OBVIOUS
<1>1. /\ Now \in Nat /\ Now' \in Nat /\ Now <= Now'
      /\ inflight # None /\ inflight' = inflight /\ version' = version =>
             Now = next_version /\ Now' = next_version
  BY NowMoves
<1>2. \A o \in DOMAIN observations : /\ o \in DOMAIN observations'
                                     /\ observation_commits'[o] = observation_commits[o]
                                     /\ observation_commits[o] \in Nat
  BY EvidenceKept DEF LedgerInv, TypeOK, EvidenceTypeOK
<1>3. ASSUME NEW o \in DOMAIN observations' PROVE observation_commits'[o] <= Now'
  <2>1. CASE o \in DOMAIN observations
    BY <1>1, <1>2, <2>1 DEF EvidenceFirst
  <2>2. CASE PersistObservation /\ o \notin DOMAIN observations
    <3>1. inflight # None /\ inflight' = inflight /\ version' = version
      BY <2>2 DEF PersistObservation, Applying, Advance, log
    <3>2. observation_commits'[o] = next_version
      BY <2>2 DEF PersistObservation, Insert
    <3> QED
      BY <1>1, <3>1, <3>2
  <2>3. CASE ~PersistObservation
    <3>1. UNCHANGED evidence
      BY <2>3 DEF TableStep, Quiet, Start, Apply, CommitResolution, CreateIdentity, Promote,
         ChangeStatus, Merge, Split, Revert, Deactivate, EnqueueMaterialization, Materialized,
         Record, state
    <3> QED
      BY <2>1, <3>1 DEF evidence
  <2> QED
    BY <2>1, <2>2, <2>3
<1>4. ASSUME NEW v \in Validity, EndedBy(v), NEW w \in {v, EndAt(v, next_version)},
             \/ w = v
             \/ /\ inflight # None /\ inflight' = inflight /\ version' = version
                /\ next_version \in 1..MaxVersion
      PROVE  w.end # Open => w.end <= Now'
  <2>1. v.end \in Nat
    BY LedgerAssumption DEF Validity, Open
  <2>2. CASE w = v
    BY <1>1, <1>4, <2>1, <2>2 DEF EndedBy, IsOpen
  <2>3. CASE w # v
    BY <1>1, <1>4, <2>3, EndAtEnds
  <2> QED
    BY <2>2, <2>3
<1>5. ASSUME NEW x \in DOMAIN inferences'
      PROVE  /\ inferences'[x].observation \in DOMAIN observations'
             /\ observation_commits'[inferences'[x].observation] <= inferences'[x].validity.begin
             /\ inferences'[x].validity.end # Open => inferences'[x].validity.end <= Now'
  <2>1. CASE x \in DOMAIN inferences
    <3>1. InferenceFrozen(x) /\ EndedBy(inferences[x].validity)
          /\ inferences[x].validity \in Validity
          /\ inferences'[x].validity \in
                 {inferences[x].validity, EndAt(inferences[x].validity, next_version)}
          /\ \/ UNCHANGED lineage
             \/ /\ inflight # None /\ inflight' = inflight /\ version' = version
                /\ next_version \in 1..MaxVersion
      BY <2>1, InferencesFrozen, ValiditySteps DEF CurrentInv, EvidenceFirst
    <3>2. inferences'[x].validity.end # Open => inferences'[x].validity.end <= Now'
      BY <1>4, <3>1 DEF lineage
    <3> QED
      BY <1>2, <2>1, <3>1, <3>2 DEF EvidenceFirst, InferenceFrozen
  <2>2. CASE x \notin DOMAIN inferences
    <3>1. CommitResolution
      BY <2>2, ResolutionSteps DEF lineage, Deactivate, CloseCurrent
    <3> DEFINE o == command.inference.observation
    <3>2. /\ o \in DOMAIN observations /\ x = command.inference.id
          /\ inferences'[x] = [observation |-> o, validity |-> Current(next_version)]
      BY <2>2, <3>1, ResolutionEffect
    <3>3. inflight # None /\ inflight' = inflight /\ version' = version
      BY <3>1 DEF CommitResolution, Applying, Advance, log
    <3> QED
      BY <1>1, <1>2, <3>2, <3>3 DEF EvidenceFirst, Current, Interval
  <2> QED
    BY <2>1, <2>2
<1>6. ASSUME NEW d \in DOMAIN decisions'
      PROVE  decisions'[d].validity.end # Open => decisions'[d].validity.end <= Now'
  <2>1. CASE d \in DOMAIN decisions
    <3>1. EndedBy(decisions[d].validity) /\ decisions[d].validity \in Validity
          /\ decisions'[d].validity \in
                 {decisions[d].validity, EndAt(decisions[d].validity, next_version)}
          /\ \/ UNCHANGED lineage
             \/ /\ inflight # None /\ inflight' = inflight /\ version' = version
                /\ next_version \in 1..MaxVersion
      BY <2>1, ValiditySteps DEF EvidenceFirst
    <3> QED
      BY <1>4, <3>1 DEF lineage
  <2>2. CASE d \notin DOMAIN decisions
    <3>1. CommitResolution
      BY <2>2, ResolutionSteps DEF lineage, Deactivate, CloseCurrent, EndDecisions
    <3>2. d = command.decision.id
          /\ decisions'[d] = [inference |-> command.inference.id,
                              validity |-> Current(next_version)]
      BY <2>2, <3>1, ResolutionEffect
    <3> QED
      BY <3>2 DEF Current, Interval
  <2> QED
    BY <2>1, <2>2
<1> QED
  BY <1>3, <1>5, <1>6 DEF EvidenceFirst, EndedBy, IsOpen, Open

(* A second resolution in one envelope stays one, so that what holds of    *)
(* observations resolved once holds before the step if it is asked after.  *)
LEMMA TwiceStays ==
    ASSUME HistoryKept, NEW o, Twice(o)
    PROVE  Twice(o)'
BY DEF HistoryKept, Twice, Resolves, IsResolution

(* The records of an observation that is resolved once in the envelope     *)
(* under way began before this commit.                                     *)
LEMMA EarlierRecords ==
    ASSUME LedgerInv, LogConsistent, LineageRecorded, CommitResolution,
           NEW o, o = command.inference.observation, ~Twice(o)'
    PROVE  /\ \A x \in InferencesOf(o) : inferences[x].validity.begin < next_version
           /\ \A d \in DecisionsOf(o) : decisions[d].validity.begin < next_version
<1>1. /\ HistoryKept /\ Versions' = Versions /\ next_version \in Versions
      /\ cursor \notin DoneAt(next_version)
      /\ \A n, i : n = next_version /\ i = cursor =>
             i \in DoneAt(n)' /\ CommandAt(n, i)' = command
  BY AdvanceHistory DEF Advances
<1>2. command.kind = "CommitResolution"
  BY ResolutionEffect
<1>3. ASSUME NEW n \in Versions, NEW i \in DoneAt(n), Resolves(n, i, o)
      PROVE  n < next_version
  <2>1. ASSUME n = next_version PROVE FALSE
    <3>1. i # cursor /\ n \in Versions'
      BY <1>1, <2>1
    <3>2. i \in DoneAt(n)' /\ Resolves(n, i, o)'
      BY <1>1, <1>3 DEF HistoryKept, Resolves, IsResolution
    <3>3. \A j : j = cursor => j \in DoneAt(n)' /\ Resolves(n, j, o)'
      BY <1>1, <1>2, <2>1 DEF Resolves, IsResolution
    <3> QED
      BY <3>1, <3>2, <3>3 DEF Twice
  <2> QED
    BY <2>1, Places, VersionsOfLog
<1> QED
  BY <1>3, RecordOrigin DEF InferencesOf, DecisionsOf

(* The records of an observation are those there were, and the new ones of *)
(* a resolution.                                                           *)
LEMMA RecordsOf ==
    ASSUME LedgerInv, LogConsistent, CurrentInv, TableStep, NEW o
    PROVE  /\ InferencesOf(o) \subseteq InferencesOf(o)'
           /\ \A x \in InferencesOf(o)' :
                  \/ x \in InferencesOf(o)
                  \/ CommitResolution /\ o = command.inference.observation
                     /\ x = command.inference.id
           /\ \A d \in DecisionsOf(o)' :
                  \/ d \in DecisionsOf(o)
                  \/ CommitResolution /\ o = command.inference.observation
                     /\ d = command.decision.id
<1>1. \A x \in DOMAIN inferences : InferenceFrozen(x)
  BY InferencesFrozen DEF CurrentInv
<1>2. ASSUME NEW x \in DOMAIN inferences', x \notin DOMAIN inferences
      PROVE  /\ CommitResolution /\ x = command.inference.id
             /\ inferences'[x].observation = command.inference.observation
  <2>1. CommitResolution
    BY <1>2, ResolutionSteps DEF lineage, Deactivate, CloseCurrent
  <2> QED
    BY <1>2, <2>1, ResolutionEffect
<1>3. ASSUME NEW d \in DOMAIN decisions', d \notin DOMAIN decisions
      PROVE  /\ CommitResolution /\ d = command.decision.id
             /\ decisions'[d].inference = command.inference.id
             /\ inferences'[command.inference.id].observation = command.inference.observation
  <2>1. CommitResolution
    BY <1>3, ResolutionSteps DEF lineage, Deactivate, CloseCurrent, EndDecisions
  <2> QED
    BY <1>3, <2>1, ResolutionEffect
<1>4. InferencesOf(o) \subseteq InferencesOf(o)'
  BY <1>1 DEF InferencesOf, InferenceFrozen
<1>5. ASSUME NEW x \in InferencesOf(o)', x \notin InferencesOf(o)
      PROVE  CommitResolution /\ o = command.inference.observation /\ x = command.inference.id
  <2>1. x \in DOMAIN inferences' /\ inferences'[x].observation = o /\ x \notin DOMAIN inferences
    BY <1>1, <1>5 DEF InferencesOf, InferenceFrozen
  <2> QED
    BY <1>2, <2>1
<1>6. ASSUME NEW d \in DecisionsOf(o)', d \notin DecisionsOf(o)
      PROVE  CommitResolution /\ o = command.inference.observation /\ d = command.decision.id
  <2>1. /\ d \in DOMAIN decisions' /\ decisions'[d].inference \in DOMAIN inferences'
        /\ inferences'[decisions'[d].inference].observation = o
    BY <1>6 DEF InferencesOf, DecisionsOf
  <2>2. ASSUME d \in DOMAIN decisions PROVE FALSE
    <3>1. decisions'[d].inference = decisions[d].inference
          /\ decisions[d].inference \in DOMAIN inferences
      BY <2>2, DecisionKept, RecordOrigin DEF CurrentInv
    <3>2. inferences[decisions[d].inference].observation = o
      BY <1>1, <2>1, <3>1 DEF InferenceFrozen
    <3> QED
      BY <1>6, <2>2, <3>1, <3>2 DEF InferencesOf, DecisionsOf
  <2> QED
    BY <1>3, <2>1, <2>2
<1> QED
  BY <1>4, <1>5, <1>6

(* No step opens a record again.                                           *)
LEMMA NotReopened ==
    ASSUME LedgerInv, LogConsistent, TableStep
    PROVE  /\ \A x \in DOMAIN inferences :
                  inferences'[x].validity.end = Open => IsOpen(inferences[x].validity)
           /\ \A d \in DOMAIN decisions :
                  decisions'[d].validity.end = Open => IsOpen(decisions[d].validity)
<1>1. ASSUME NEW v \in Validity, NEW w \in {v, EndAt(v, next_version)}, w.end = Open,
             w = v \/ next_version \in 1..MaxVersion
      PROVE  IsOpen(v)
  BY <1>1, EndAtEnds, LedgerAssumption DEF IsOpen, Open
<1> QED
  BY <1>1, ValiditySteps DEF lineage

(* Deactivating the transaction of a current interpretation closes it.     *)
LEMMA WithdrawnClosed ==
    ASSUME LedgerInv, LogConsistent, CurrentInv, NEW t \in targets, Deactivate(t),
           NEW o \in Withdrawn(t)
    PROVE  /\ o \in DOMAIN current_inference
           /\ inferences'[current_inference[o]].validity.end # Open
           /\ decisions'[current_decision[o]].validity.end # Open
<1> DEFINE v == transaction_indexes[t]
           x == current_inference[o]
           d == current_decision[o]
           c == CloseCurrent(decisions, current_decision, Withdrawn(t))
<1>1. /\ t \in DOMAIN transaction_indexes /\ v \in 1..version /\ next_version \in 1..MaxVersion
  BY HistoryDeactivated
<1>2. o \in DOMAIN current_inference
  BY DEF Withdrawn
<1>3. PICK n \in Versions : \E i \in DoneAt(n) :
          PointsTo(o, n, i) /\ ResolutionRecorded(n, i) /\ Resolves(n, i, o)
  BY <1>2, CurrentOrigin
<1>4. PICK j \in DoneAt(v) : IsResolution(v, j) /\ CommandAt(v, j).inference.id = x
  BY <1>1, CommandsOf DEF Withdrawn, IsResolution
<1>5. ResolutionRecorded(v, j)
  BY <1>1, <1>4, CommandsOf DEF CurrentInv, LineageRecorded, ResolutionsRecorded
<1>6. n = v /\ v < next_version
  BY <1>1, <1>3, <1>4, <1>5, VersionsOfLog DEF ResolutionRecorded, PointsTo
<1>7. /\ x \in DOMAIN inferences /\ inferences[x].validity.begin = v
      /\ d \in DOMAIN decisions /\ decisions[d].validity.begin = v
  BY <1>3, <1>6 DEF ResolutionRecorded, PointsTo
<1>8. /\ inferences[x].validity \in Validity /\ decisions[d].validity \in Validity
      /\ inferences[x] \in [observation: Observation, validity: Validity]
      /\ decisions[d] \in [inference: Inference, validity: Validity]
      /\ DOMAIN current_decision = DOMAIN current_inference
  BY <1>7 DEF LedgerInv, TypeOK, LineageTypeOK
<1>9. inferences'[x] = [inferences[x] EXCEPT !.validity = EndAt(@, next_version)]
  BY <1>2, <1>7 DEF Deactivate, CloseCurrent
<1>10. c[d] = [decisions[d] EXCEPT !.validity = EndAt(@, next_version)]
  BY <1>2, <1>7, <1>8 DEF CloseCurrent
<1>11. decisions'[d] \in {c[d], [c[d] EXCEPT !.validity = EndAt(@, next_version)]}
  BY <1>7 DEF Deactivate, EndDecisions, CloseCurrent
<1>12. /\ ~IsOpen(EndAt(inferences[x].validity, next_version))
       /\ ~IsOpen(EndAt(decisions[d].validity, next_version))
       /\ EndAt(EndAt(decisions[d].validity, next_version), next_version) =
              EndAt(decisions[d].validity, next_version)
  BY <1>1, <1>6, <1>7, <1>8, EndAtEnds
<1>13. c[d].validity = EndAt(decisions[d].validity, next_version)
       /\ [c[d] EXCEPT !.validity = EndAt(@, next_version)].validity =
              EndAt(c[d].validity, next_version)
  BY <1>8, <1>10
<1>14. decisions'[d].validity = EndAt(decisions[d].validity, next_version)
  BY <1>11, <1>12, <1>13
<1> QED
  BY <1>2, <1>8, <1>9, <1>12, <1>14 DEF IsOpen

(* A resolution closes the current records of its observation.             *)
LEMMA ResolvedClosed ==
    ASSUME LedgerInv, LogConsistent, CurrentInv, CommitResolution,
           NEW o \in DOMAIN current_inference, o = command.inference.observation,
           ~Twice(o)'
    PROVE  /\ inferences'[current_inference[o]].validity.end = next_version
           /\ decisions'[current_decision[o]].validity.end = next_version
           /\ next_version # Open
<1> DEFINE x == current_inference[o]
           d == current_decision[o]
<1>1. next_version \in 1..MaxVersion
  BY InFlight DEF CommitResolution, Applying, LedgerInv
<1>2. /\ x \in DOMAIN inferences /\ inferences[x].observation = o
      /\ d \in DOMAIN decisions /\ decisions[d].inference = x
  BY CurrentPair
<1>3. inferences[x].validity.begin < next_version /\ decisions[d].validity.begin < next_version
  BY <1>2, EarlierRecords DEF CurrentInv, InferencesOf, DecisionsOf
<1>4. /\ inferences[x].validity \in Validity /\ decisions[d].validity \in Validity
      /\ inferences[x] \in [observation: Observation, validity: Validity]
      /\ decisions[d] \in [inference: Inference, validity: Validity]
      /\ DOMAIN current_decision = DOMAIN current_inference
  BY <1>2 DEF LedgerInv, TypeOK, LineageTypeOK
<1>5. /\ inferences'[x] = [inferences[x] EXCEPT !.validity = EndAt(@, next_version)]
      /\ decisions'[d] = [decisions[d] EXCEPT !.validity = EndAt(@, next_version)]
  BY <1>2, <1>4, ResolutionEffect DEF CloseCurrent
<1> QED
  BY <1>1, <1>3, <1>4, <1>5, EndAtEnds, LedgerAssumption DEF Open

(* The pointers of an observation that is neither resolved nor withdrawn.  *)
LEMMA PointersKept ==
    ASSUME LedgerInv, LogConsistent, TableStep, NEW o,
           ~(CommitResolution /\ o = command.inference.observation),
           ~\E t \in targets : Deactivate(t) /\ o \in Withdrawn(t)
    PROVE  /\ (o \in DOMAIN current_inference') <=> (o \in DOMAIN current_inference)
           /\ o \in DOMAIN current_inference =>
                  /\ current_inference'[o] = current_inference[o]
                  /\ current_decision'[o] = current_decision[o]
<1>1. DOMAIN current_decision = DOMAIN current_inference
  BY DEF LedgerInv, TypeOK, LineageTypeOK
<1>2. CASE CommitResolution
  BY <1>1, <1>2, ResolutionEffect DEF Insert
<1>3. ASSUME NEW t \in targets, Deactivate(t)
      PROVE  /\ (o \in DOMAIN current_inference') <=> (o \in DOMAIN current_inference)
             /\ o \in DOMAIN current_inference =>
                    /\ current_inference'[o] = current_inference[o]
                    /\ current_decision'[o] = current_decision[o]
  BY <1>1, <1>3 DEF Deactivate, Remove
<1> QED
  BY <1>2, <1>3, ResolutionSteps DEF lineage

(* Every step leaves only current records open.                            *)
LEMMA OnlyCurrentOpenStep ==
    LedgerInv /\ LogConsistent /\ CurrentInv /\ OnlyCurrentOpen /\ TableStep
        => OnlyCurrentOpen'
<1> SUFFICES ASSUME LedgerInv, LogConsistent, CurrentInv, OnlyCurrentOpen, TableStep,
                    NEW o \in Observation, ~Twice(o)'
             PROVE  /\ \A x \in InferencesOf(o)' : inferences'[x].validity.end = Open =>
                           o \in DOMAIN current_inference' /\ current_inference'[o] = x
                    /\ \A d \in DecisionsOf(o)' : decisions'[d].validity.end = Open =>
                           o \in DOMAIN current_inference' /\ current_decision'[o] = d
  BY DEF OnlyCurrentOpen, IsOpen, Open
<1>1. ~Twice(o)
  BY TwiceStays, ResolutionSteps
<1>2. ASSUME NEW x \in InferencesOf(o), inferences'[x].validity.end = Open
      PROVE  o \in DOMAIN current_inference /\ current_inference[o] = x
  BY <1>1, <1>2, NotReopened DEF OnlyCurrentOpen, InferencesOf
<1>3. ASSUME NEW d \in DecisionsOf(o), decisions'[d].validity.end = Open
      PROVE  o \in DOMAIN current_inference /\ current_decision[o] = d
  BY <1>1, <1>3, NotReopened DEF OnlyCurrentOpen, DecisionsOf
<1>4. CASE CommitResolution /\ o = command.inference.observation
  <2>1. /\ current_inference' = Insert(current_inference, o, command.inference.id)
        /\ current_decision' = Insert(current_decision, o, command.decision.id)
    BY <1>4, ResolutionEffect
  <2>2. /\ o \in DOMAIN current_inference'
        /\ current_inference'[o] = command.inference.id
        /\ current_decision'[o] = command.decision.id
    BY <2>1 DEF Insert
  <2>3. o \in DOMAIN current_inference =>
            /\ inferences'[current_inference[o]].validity.end # Open
            /\ decisions'[current_decision[o]].validity.end # Open
    BY <1>4, ResolvedClosed
  <2> QED
    BY <1>2, <1>3, <2>2, <2>3, RecordsOf
<1>5. ASSUME NEW t \in targets, Deactivate(t), o \in Withdrawn(t)
      PROVE  /\ \A x \in InferencesOf(o)' : inferences'[x].validity.end # Open
             /\ \A d \in DecisionsOf(o)' : decisions'[d].validity.end # Open
  <2>1. ~CommitResolution
    BY <1>5, HistoryDeactivated, ResolutionEffect
  <2>2. /\ inferences'[current_inference[o]].validity.end # Open
        /\ decisions'[current_decision[o]].validity.end # Open
    BY <1>5, WithdrawnClosed
  <2> QED
    BY <1>2, <1>3, <2>1, <2>2, RecordsOf
<1>6. CASE ~(CommitResolution /\ o = command.inference.observation)
           /\ ~\E t \in targets : Deactivate(t) /\ o \in Withdrawn(t)
  BY <1>2, <1>3, <1>6, PointersKept, RecordsOf
<1> QED
  BY <1>4, <1>5, <1>6

(* Every step leaves the current decisions open.                           *)
LEMMA DecisionOpenStep ==
    LedgerInv /\ LogConsistent /\ CurrentInv /\ DecisionOpen /\ TableStep => DecisionOpen'
<1> SUFFICES ASSUME LedgerInv, LogConsistent, CurrentInv, DecisionOpen, TableStep,
                    NEW o \in DOMAIN current_inference'
             PROVE  decisions'[current_decision'[o]].validity.end = Open
  BY DEF DecisionOpen, IsOpen, Open
<1> DEFINE d == current_decision[o]
<1>1. CASE CommitResolution /\ o = command.inference.observation
  BY <1>1, ResolutionEffect DEF Insert, Current, Interval
<1>2. ~\E t \in targets : Deactivate(t) /\ o \in Withdrawn(t)
  BY DEF Deactivate, Remove
<1>3. ASSUME ~(CommitResolution /\ o = command.inference.observation)
      PROVE  decisions'[current_decision'[o]].validity.end = Open
  <2>1. o \in DOMAIN current_inference /\ current_decision'[o] = d
    BY <1>2, <1>3, PointersKept
  <2>2. /\ decisions[d].validity.end = Open /\ d \in DOMAIN decisions
        /\ decisions[d].inference = current_inference[o]
        /\ inferences[current_inference[o]].observation = o
    BY <2>1, CurrentPair DEF DecisionOpen, IsOpen
  <2>3. ASSUME NEW p \in DOMAIN current_inference, current_decision[p] = d PROVE p = o
    BY <2>1, <2>2, <2>3, CurrentPair
  <2>4. DOMAIN current_decision = DOMAIN current_inference
    BY DEF LedgerInv, TypeOK, LineageTypeOK
  <2>5. ASSUME NEW S, o \notin S
        PROVE  CloseCurrent(decisions, current_decision, S)[d] = decisions[d]
    BY <2>2, <2>3, <2>4, <2>5 DEF CloseCurrent
  <2>6. CASE CommitResolution
    <3>1. decisions'[d] =
              CloseCurrent(decisions, current_decision, {command.inference.observation})[d]
          /\ o \notin {command.inference.observation}
      BY <1>3, <2>2, <2>6, ResolutionEffect
    <3> QED
      BY <2>1, <2>2, <2>5, <3>1
  <2>7. ASSUME NEW t \in targets, Deactivate(t)
        PROVE  decisions'[d].validity.end = Open
    <3> DEFINE v == transaction_indexes[t]
    <3>1. o \notin Withdrawn(t) /\ t \in DOMAIN transaction_indexes
      BY <1>2, <2>7, HistoryDeactivated
    <3>2. ASSUME d \in Decided(t) PROVE FALSE
      <4>1. PICK j \in DoneAt(v) : IsResolution(v, j) /\ CommandAt(v, j).decision.id = d
        BY <3>1, <3>2, CommandsOf DEF Decided, IsResolution
      <4>2. ResolutionRecorded(v, j) /\ CommandAt(v, j) \in Commands(t, "CommitResolution")
        BY <3>1, <4>1, CommandsOf DEF CurrentInv, LineageRecorded, ResolutionsRecorded,
           IsResolution
      <4>3. /\ CommandAt(v, j).inference.id = current_inference[o]
            /\ CommandAt(v, j).inference.observation = o
        BY <2>2, <4>1, <4>2 DEF ResolutionRecorded
      <4> QED
        BY <2>1, <3>1, <4>2, <4>3 DEF Withdrawn
    <3>3. decisions'[d] = CloseCurrent(decisions, current_decision, Withdrawn(t))[d]
      BY <2>2, <2>7, <3>2 DEF Deactivate, EndDecisions, CloseCurrent
    <3> QED
      BY <2>2, <2>5, <3>1, <3>3
  <2> QED
    BY <2>1, <2>2, <2>6, <2>7, ResolutionSteps DEF lineage
<1> QED
  BY <1>1, <1>3

(* Every step keeps the inferences of an observation apart: a new one      *)
(* begins where the current one ends, and ends only move forward in time   *)
(* from "open".                                                            *)
LEMMA InferencesDisjointStep ==
    LedgerInv /\ LogConsistent /\ CurrentInv /\ EvidenceFirst /\ OnlyCurrentOpen
        /\ InferencesDisjoint /\ TableStep => InferencesDisjoint'
<1> SUFFICES ASSUME LedgerInv, LogConsistent, CurrentInv, EvidenceFirst, OnlyCurrentOpen,
                    InferencesDisjoint, TableStep, NEW o \in Observation, ~Twice(o)',
                    NEW x \in InferencesOf(o)', NEW y \in InferencesOf(o)', x # y
             PROVE  ~(/\ inferences'[x].validity.begin < inferences'[y].validity.end
                      /\ inferences'[y].validity.begin < inferences'[x].validity.end)
  BY DEF InferencesDisjoint, Overlap
<1>1. ~Twice(o) /\ MaxVersion \in Nat
  BY TwiceStays, ResolutionSteps, LedgerAssumption
<1>2. ASSUME NEW z \in InferencesOf(o)
      PROVE  /\ inferences'[z].validity.begin = inferences[z].validity.begin
             /\ inferences'[z].validity.end <= inferences[z].validity.end
             /\ inferences[z].validity.begin \in Nat /\ inferences[z].validity.end \in Nat
             /\ inferences'[z].validity.end \in Nat
             /\ ~IsOpen(inferences[z].validity) =>
                    inferences'[z].validity.end = inferences[z].validity.end
  <2> DEFINE v == inferences[z].validity
             w == inferences'[z].validity
  <2>1. z \in DOMAIN inferences /\ InferenceFrozen(z)
    BY InferencesFrozen DEF InferencesOf, CurrentInv
  <2>2. v \in Validity /\ w \in {v, EndAt(v, next_version)}
        /\ (w = v \/ next_version \in 1..MaxVersion)
    BY <2>1, ValiditySteps DEF lineage
  <2>3. w \in Validity /\ w.begin = v.begin /\ (IsOpen(v) => w.end <= v.end)
    <3>1. CASE w = v
      BY <1>1, <2>2, <3>1 DEF Validity, Open
    <3>2. CASE w # v
      BY <2>2, <3>2, EndAtEnds
    <3> QED
      BY <3>1, <3>2
  <2>4. v.begin \in Nat /\ v.end \in Nat /\ w.end \in Nat
    BY <1>1, <2>2, <2>3 DEF Validity, Open
  <2>5. ~IsOpen(v) => w = v
    BY <2>1 DEF InferenceFrozen
  <2> QED
    BY <2>3, <2>4, <2>5
<1>3. CASE x \in InferencesOf(o) /\ y \in InferencesOf(o)
  <2>1. ~(/\ inferences[x].validity.begin < inferences[y].validity.end
          /\ inferences[y].validity.begin < inferences[x].validity.end)
    BY <1>1, <1>3 DEF InferencesDisjoint, Overlap
  <2> QED
    BY <1>2, <1>3, <2>1
<1>4. ASSUME NEW z \in InferencesOf(o)', z \notin InferencesOf(o), NEW y0 \in InferencesOf(o)
      PROVE  ~(inferences'[z].validity.begin < inferences'[y0].validity.end)
  <2>1. CommitResolution /\ o = command.inference.observation /\ z = command.inference.id
    BY <1>4, RecordsOf
  <2>2. inferences'[z].validity.begin = next_version
    BY <2>1, ResolutionEffect DEF Current, Interval
  <2>3. CASE IsOpen(inferences[y0].validity)
    <3>1. o \in DOMAIN current_inference /\ current_inference[o] = y0
      BY <1>1, <2>3 DEF OnlyCurrentOpen
    <3>2. inferences'[y0].validity.end = next_version
      BY <2>1, <3>1, ResolvedClosed
    <3> QED
      BY <2>2, <3>2, VersionsOfLog
  <2>4. CASE ~IsOpen(inferences[y0].validity)
    <3>1. inferences[y0].validity.end <= Now
      BY <2>4 DEF EvidenceFirst, EndedBy, InferencesOf
    <3>2. Now = next_version
      BY <2>1, NowMoves DEF CommitResolution, Applying, Advance, log
    <3> QED
      BY <1>2, <2>2, <2>4, <3>1, <3>2, VersionsOfLog
  <2> QED
    BY <2>3, <2>4
<1>5. x \in InferencesOf(o) \/ y \in InferencesOf(o)
  BY RecordsOf
<1> QED
  BY <1>3, <1>4, <1>5

(* The invariant of the timeline.                                          *)
TimelineInv == CurrentInv /\ EvidenceFirst /\ OnlyCurrentOpen /\ DecisionOpen /\ InferencesDisjoint

(* Between commits the queries tell one story about an observation that is *)
(* resolved at most once per envelope: its only open inference and the     *)
(* decision for the last version are the current ones, its inferences      *)
(* follow one another, and each begins when its evidence is there.         *)
THEOREM TimelineIsConsistent == Spec => []TimelineConsistent
<1>1. Init => TimelineInv
  <2> SUFFICES ASSUME Init PROVE TimelineInv
    OBVIOUS
  <2>1. /\ observations = EmptyMap /\ inferences = EmptyMap /\ decisions = EmptyMap
        /\ current_inference = EmptyMap
    BY DEF Init, Empty
  <2> QED
    BY <2>1, InitCurrent DEF TimelineInv, EvidenceFirst, OnlyCurrentOpen, DecisionOpen,
       InferencesDisjoint, InferencesOf, DecisionsOf, EmptyMap
<1>2. LedgerInv /\ LogConsistent /\ TimelineInv /\ TableStep => TimelineInv'
  BY CurrentInvStep, EvidenceFirstStep, OnlyCurrentOpenStep, DecisionOpenStep,
     InferencesDisjointStep DEF TimelineInv
<1>3. LedgerInv /\ LogConsistent /\ TimelineInv => TimelineConsistent
  <2> SUFFICES ASSUME LedgerInv, LogConsistent, TimelineInv, inflight = None,
                      NEW o \in Observation, ~ResolvedTwice(o)
               PROVE  /\ {i \in InferencesOf(o) : IsOpen(inferences[i].validity)} =
                             {current_inference[p] : p \in DOMAIN current_inference \cap {o}}
                      /\ DecisionAsOf(o, version) = CurrentDecision(o)
                      /\ \A i, j \in InferencesOf(o) : i # j =>
                             ~Overlap(inferences[i].validity, inferences[j].validity)
                      /\ \A i \in InferencesOf(o) :
                             o \in ObservationsAsOf(inferences[i].validity.begin)
    BY DEF TimelineConsistent, Settled
  <2>1. CurrentInv /\ EvidenceFirst /\ OnlyCurrentOpen /\ DecisionOpen /\ InferencesDisjoint
    BY DEF TimelineInv
  <2>2. /\ DOMAIN transactions = 1..version /\ version \in Nat
        /\ \A n \in 1..version :
               /\ DoneAt(n) = DOMAIN transactions[n].envelope.commands
               /\ EnvelopeAt(n) = transactions[n].envelope
        /\ \A n \in Versions : DoneAt(n) # {} => n \in 1..version
    BY SettledHistory
  <2>3. ~Twice(o)
    <3> SUFFICES ASSUME NEW n \in Versions, NEW i \in DoneAt(n), NEW j \in DoneAt(n), i # j,
                        Resolves(n, i, o), Resolves(n, j, o)
                 PROVE  FALSE
      BY DEF Twice
    <3>1. n \in 1..version /\ n \in DOMAIN transactions
          /\ i \in DOMAIN transactions[n].envelope.commands
          /\ j \in DOMAIN transactions[n].envelope.commands
      BY <2>2
    <3>2. \A k \in {i, j} :
              /\ transactions[n].envelope.commands[k].kind = "CommitResolution"
              /\ transactions[n].envelope.commands[k].inference.observation = o
      BY <2>2, <3>1 DEF Resolves, IsResolution, CommandAt
    <3>3. <<n, i>> \in Resolutions(o) /\ <<n, j>> \in Resolutions(o)
      BY <3>1, <3>2 DEF Resolutions
    <3> QED
      BY <3>3 DEF ResolvedTwice
  <2>4. \A p \in DOMAIN current_inference :
            /\ current_inference[p] \in InferencesOf(p)
            /\ IsOpen(inferences[current_inference[p]].validity)
            /\ current_decision[p] \in DecisionsOf(p)
    BY <2>1, CurrentPair DEF CurrentInv, CurrentOpen, InferencesOf, DecisionsOf
  <2>5. {i \in InferencesOf(o) : IsOpen(inferences[i].validity)} =
            {current_inference[p] : p \in DOMAIN current_inference \cap {o}}
    BY <2>1, <2>3, <2>4 DEF OnlyCurrentOpen
  <2>6. ASSUME NEW d \in DecisionsOf(o)
        PROVE  Contains(decisions[d].validity, version) <=> IsOpen(decisions[d].validity)
    <3>1. d \in DOMAIN decisions /\ EndedBy(decisions[d].validity)
          /\ decisions[d].validity \in Validity
      BY <2>1, ValiditySteps DEF DecisionsOf, EvidenceFirst, LedgerInv, TypeOK, LineageTypeOK
    <3>2. decisions[d].validity.begin <= version
      BY <2>1, <2>2, <3>1, RecordOrigin DEF CurrentInv
    <3>3. version \in 0..MaxVersion /\ MaxVersion \in Nat /\ Now = version
      BY LedgerAssumption DEF LedgerInv, TypeOK, LogTypeOK, Now
    <3> QED
      BY <3>1, <3>2, <3>3 DEF Contains, EndedBy, IsOpen, Open, Validity
  <2>7. DecisionAsOf(o, version) = CurrentDecision(o)
    <3>1. DecisionAsOf(o, version) = {d \in DecisionsOf(o) : IsOpen(decisions[d].validity)}
      BY <2>6 DEF DecisionAsOf
    <3>2. DOMAIN current_decision = DOMAIN current_inference
      BY DEF LedgerInv, TypeOK, LineageTypeOK
    <3>3. CurrentDecision(o) = {current_decision[p] : p \in DOMAIN current_inference \cap {o}}
      BY <2>4, <3>2 DEF CurrentDecision, DecisionsOf
    <3>4. \A d \in DecisionsOf(o) : IsOpen(decisions[d].validity) =>
              o \in DOMAIN current_inference /\ current_decision[o] = d
      BY <2>1, <2>3 DEF OnlyCurrentOpen
    <3> QED
      BY <2>1, <2>4, <3>1, <3>3, <3>4 DEF DecisionOpen
  <2>8. \A i \in InferencesOf(o) : o \in ObservationsAsOf(inferences[i].validity.begin)
    BY <2>1 DEF EvidenceFirst, InferencesOf, ObservationsAsOf
  <2> QED
    BY <2>1, <2>3, <2>5, <2>7, <2>8 DEF InferencesDisjoint
<1> QED
  BY <1>1, <1>2, <1>3, InitCurrent, InitInv, StepInv, NextIsStep, LogStep, PTL DEF Spec

-----------------------------------------------------------------------------
(***************************************************************************)
(* What stands in the outbox.                                              *)
(***************************************************************************)
EnqueuedAt(m, d, n) ==
    \E i \in DoneAt(n) :
        /\ CommandAt(n, i).kind = "EnqueueMaterialization"
        /\ CommandAt(n, i).materialization = m /\ CommandAt(n, i).decision = d

(* The decision, of a resolution or of a merge, was recorded by version n. *)
DecidedBy(d, n) ==
    \/ d \in DOMAIN decisions /\ decisions[d].validity.begin <= n
    \/ d \in DOMAIN merges /\ merges[d].validity.begin <= n

(* An entry stands for the command of an active version.                   *)
EntryFrom(m, d, n) ==
    /\ outbox[m].commit = n /\ outbox[m].decision = d
    /\ ActiveAt(n) /\ EnqueuedAt(m, d, n) /\ DecidedBy(d, n)

OutboxRecorded ==
    \A m \in DOMAIN outbox : \E n \in Versions : \E d \in Decision : EntryFrom(m, d, n)

(* What validation found of the EnqueueMaterialization commands left: the  *)
(* decision of each is there, or comes before it.                          *)
EnqueueHolds(i) ==
    inflight.commands[i].kind = "EnqueueMaterialization" =>
        inflight.commands[i].decision \in
            DOMAIN decisions \cup DOMAIN merges
                \cup {b.decision.id : b \in {b \in Left(i) : b.kind = "CommitResolution"}}
                \cup {b.decision : b \in {b \in Left(i) : b.kind = "Merge"}}

EnqueuesLater ==
    inflight # None => \A i \in cursor..Len(inflight.commands) : EnqueueHolds(i)

(* The receipts for the entry of m that is in the outbox.                  *)
Answers(n, m) ==
    /\ m \in DOMAIN outbox /\ receipts[n].materialization = m
    /\ receipts[n].commit > outbox[m].commit

(* An entry is completed by the receipts for it, all of one commit, and a  *)
(* receipt is for a command of the log.                                    *)
ReceiptsRecorded ==
    /\ \A m \in DOMAIN outbox : outbox[m].completed <=> \E n \in DOMAIN receipts : Answers(n, m)
    /\ \A n \in DOMAIN receipts :
           /\ receipts[n].commit <= Now
           /\ \E k \in DOMAIN transactions :
                  /\ k < receipts[n].commit
                  /\ Enqueues(transactions[k].envelope, receipts[n].materialization,
                              receipts[n].decision)
    /\ \A n1, n2 \in DOMAIN receipts : \A m \in DOMAIN outbox :
           Answers(n1, m) /\ Answers(n2, m) => receipts[n1].commit = receipts[n2].commit

(* What validation found of the Materialized commands left: they are for   *)
(* an earlier entry, and no command of the envelope replaces it.           *)
Awaits(i, m, d) ==
    /\ inflight.commands[i].kind = "Materialized"
    /\ inflight.commands[i].materialization = m /\ inflight.commands[i].decision = d

Receivable(m, d) ==
    /\ \E k \in DOMAIN transactions : Enqueues(transactions[k].envelope, m, d)
    /\ m \in DOMAIN outbox => outbox[m].commit < next_version
    /\ \A n \in DOMAIN receipts : Answers(n, m) => receipts[n].commit = next_version
    /\ \A j \in cursor..Len(inflight.commands) :
           inflight.commands[j].kind = "EnqueueMaterialization" =>
               inflight.commands[j].materialization # m

ReceiptsLater ==
    inflight # None =>
        \A i \in cursor..Len(inflight.commands) :
            \A m \in Materialization, d \in Decision : Awaits(i, m, d) => Receivable(m, d)

(* Which steps write the outbox and the receipts.                          *)
LEMMA DeliverySteps ==
    ASSUME LedgerInv, LogConsistent, TableStep
    PROVE  \/ (EnqueueMaterialization \/ Materialized)
              /\ HistoryGrows /\ ActivityStays /\ next_version' = next_version
              /\ inflight # None /\ inflight' = inflight /\ cursor \in DOMAIN inflight.commands
           \/ \E t \in targets : Deactivate(t)
           \/ ActivityStays /\ UNCHANGED delivery
<1>1. CASE EnqueueMaterialization \/ Materialized
  BY <1>1, AdvanceHistory DEF Advances, EnqueueMaterialization, Materialized, Advance
<1>2. CASE Advances /\ ~(EnqueueMaterialization \/ Materialized)
  <2>1. UNCHANGED delivery
    BY <1>2 DEF Advances, PersistObservation, CommitResolution, CreateIdentity, Promote,
       ChangeStatus, Merge, Split, Revert, state
  <2> QED
    BY <1>2, <2>1, AdvanceHistory
<1> QED
  BY <1>1, <1>2, HistorySteps

(* What an entry stands for goes on being there.                           *)
LEMMA EnqueuedStays ==
    ASSUME LedgerInv, LogConsistent, TableStep, NEW m, NEW d, NEW n \in Versions
    PROVE  /\ EnqueuedAt(m, d, n) => EnqueuedAt(m, d, n)'
           /\ DecidedBy(d, n) => DecidedBy(d, n)'
<1>1. HistoryKept
  BY HistorySteps
<1>2. EnqueuedAt(m, d, n) => EnqueuedAt(m, d, n)'
  BY <1>1 DEF HistoryKept, EnqueuedAt
<1>3. DecidedBy(d, n) => DecidedBy(d, n)'
  BY DecisionKept, MergeBeginsKept DEF DecidedBy
<1> QED
  BY <1>2, <1>3

(* Every step keeps the entries of the outbox on commands of active        *)
(* versions.                                                               *)
LEMMA OutboxRecordedStep ==
    LedgerInv /\ LogConsistent /\ LineageRecorded /\ MergesRecorded /\ OutboxRecorded
        /\ EnqueuesLater /\ TableStep => OutboxRecorded'
<1> SUFFICES ASSUME LedgerInv, LogConsistent, LineageRecorded, MergesRecorded, OutboxRecorded,
                    EnqueuesLater, TableStep, NEW m \in DOMAIN outbox'
             PROVE  \E n \in Versions' : \E d \in Decision : EntryFrom(m, d, n)'
  BY DEF OutboxRecorded
<1>1. HistoryKept /\ Versions \subseteq Versions'
  BY HistorySteps
<1>2. ASSUME m \in DOMAIN outbox, outbox'[m].decision = outbox[m].decision,
             outbox'[m].commit = outbox[m].commit,
             \A n \in Versions : EnqueuedAt(m, outbox[m].decision, n) /\ ActiveAt(n) => ActiveAt(n)'
      PROVE  \E n \in Versions' : \E d \in Decision : EntryFrom(m, d, n)'
  <2>1. PICK n \in Versions : \E d \in Decision : EntryFrom(m, d, n)
    BY <1>2 DEF OutboxRecorded
  <2>2. PICK d \in Decision : EntryFrom(m, d, n)
    BY <2>1
  <2> QED
    BY <1>1, <1>2, <2>2, EnqueuedStays DEF EntryFrom
<1>3. ASSUME ActivityStays, NEW n \in Versions, NEW d, EnqueuedAt(m, d, n), ActiveAt(n)
      PROVE  ActiveAt(n)'
  BY <1>3 DEF ActivityStays, EnqueuedAt
<1>4. CASE ActivityStays /\ UNCHANGED delivery
  BY <1>2, <1>3, <1>4 DEF delivery
<1>5. CASE Materialized /\ ActivityStays
  <2>1. m \in DOMAIN outbox
        /\ outbox'[m] = [outbox[m] EXCEPT !.completed = @ \/ m = command.materialization]
    BY <1>5 DEF Materialized, Complete
  <2>2. outbox[m] \in [decision: Decision, relation: Relation, commit: 1..MaxVersion,
                       completed: BOOLEAN]
    BY <2>1 DEF LedgerInv, TypeOK, DeliveryTypeOK
  <2> QED
    BY <1>2, <1>3, <1>5, <2>1, <2>2
<1>6. CASE EnqueueMaterialization
  <2> DEFINE r == [decision |-> command.decision, relation |-> command.relation,
                   commit |-> next_version, completed |-> FALSE]
  <2>1. /\ outbox' = Insert(outbox, command.materialization, r)
        /\ command.kind = "EnqueueMaterialization"
    BY <1>6 DEF EnqueueMaterialization, Applying
  <2>2. /\ HistoryGrows /\ ActivityStays /\ Versions' = Versions /\ next_version \in Versions
        /\ inflight # None /\ cursor \in DOMAIN inflight.commands /\ command \in Command
        /\ \A n, i : n = next_version /\ i = cursor =>
               i \in DoneAt(n)' /\ ActiveAt(n)' /\ CommandAt(n, i)' = command
    BY <1>6, AdvanceHistory DEF Advances
  <2>3. CASE m # command.materialization
    <3>1. m \in DOMAIN outbox /\ outbox'[m] = outbox[m]
      BY <2>1, <2>3 DEF Insert
    <3> QED
      BY <1>2, <1>3, <2>2, <3>1
  <2>4. CASE m = command.materialization
    <3>1. outbox'[m] = r /\ command.decision \in Decision
      BY <2>1, <2>2, <2>4, CommandFields DEF Insert
    <3>2. command.decision \in DOMAIN decisions \cup DOMAIN merges
      <4>1. EnqueueHolds(cursor) /\ Left(cursor) = {}
        BY <2>2, InFlight, EnvelopeFields DEF EnqueuesLater, LedgerInv
      <4> QED
        BY <2>1, <4>1 DEF EnqueueHolds, command
    <3>3. \A n : n = next_version => DecidedBy(command.decision, n)
      <4>1. command.decision \in DOMAIN decisions =>
                decisions[command.decision].validity.begin <= next_version
        BY RecordOrigin, Places
      <4>2. command.decision \in DOMAIN merges =>
                merges[command.decision].validity.begin <= next_version
        BY Places DEF MergesRecorded, MergeFrom
      <4> QED
        BY <3>2, <4>1, <4>2 DEF DecidedBy
    <3>4. ASSUME NEW n, n = next_version, NEW d, d = command.decision
          PROVE  n \in Versions' /\ EntryFrom(m, d, n)'
      <4>1. EnqueuedAt(m, d, n)'
        BY <2>1, <2>2, <2>4, <3>4 DEF EnqueuedAt
      <4>2. DecidedBy(d, n)'
        BY <2>2, <3>3, <3>4, EnqueuedStays
      <4> QED
        BY <2>2, <3>1, <3>4, <4>1, <4>2 DEF EntryFrom
    <3> QED
      BY <3>1, <3>4
  <2> QED
    BY <2>3, <2>4
<1>7. ASSUME NEW t \in targets, Deactivate(t)
      PROVE  \E n \in Versions' : \E d \in Decision : EntryFrom(m, d, n)'
  <2> DEFINE v == transaction_indexes[t]
  <2>1. /\ t \in DOMAIN transaction_indexes
        /\ \A n \in Versions : ActiveAt(n)' <=> ActiveAt(n) /\ n # v
    BY <1>7, HistoryDeactivated
  <2>2. m \in DOMAIN outbox /\ m \notin Enqueued(t) /\ outbox'[m] = outbox[m]
    BY <1>7 DEF Deactivate, Remove
  <2>3. ASSUME NEW d, EnqueuedAt(m, d, v) PROVE FALSE
    BY <2>1, <2>2, <2>3, CommandsOf DEF EnqueuedAt, Enqueued
  <2> QED
    BY <1>2, <2>1, <2>2, <2>3
<1> QED
  BY <1>4, <1>5, <1>6, <1>7, DeliverySteps

(* The cursor passes a command only when the action of its kind is taken.  *)
LEMMA CursorPasses ==
    ASSUME LedgerInv, LogConsistent, TableStep, inflight # None, inflight' = inflight,
           cursor' = cursor + 1
    PROVE  /\ command.kind = "CommitResolution" => CommitResolution
           /\ command.kind = "Merge" => Merge
<1>1. cursor' # cursor
  BY DEF LedgerInv, TypeOK, ControlTypeOK
<1>2. Advances \/ \E t \in targets : Deactivate(t)
  BY <1>1 DEF TableStep, Quiet, Start, Apply, Record, Advances
<1>3. (\E t \in targets : Deactivate(t)) => command.kind = "Revert"
  BY HistoryDeactivated
<1> QED
  BY <1>2, <1>3 DEF Advances, PersistObservation, CommitResolution, CreateIdentity, Promote,
     ChangeStatus, Merge, Split, Revert, EnqueueMaterialization, Materialized, Applying

(* Every step leaves the decisions there, or still to come, that the       *)
(* EnqueueMaterialization commands left are for.                           *)
LEMMA EnqueuesLaterStep ==
    LedgerInv /\ LogConsistent /\ EnqueuesLater /\ TableStep => EnqueuesLater'
<1> SUFFICES ASSUME LedgerInv, LogConsistent, EnqueuesLater, TableStep PROVE EnqueuesLater'
  OBVIOUS
<1> DEFINE DecisionsIn(S) == {b.decision.id : b \in {b \in S : b.kind = "CommitResolution"}}
           MergesIn(S) == {b.decision : b \in {b \in S : b.kind = "Merge"}}
<1>1. CASE inflight' = None
  BY <1>1 DEF EnqueuesLater
<1>2. ASSUME NEW e \in CommandEnvelope, Start(e) PROVE EnqueuesLater'
  <2>1. /\ inflight' = e /\ cursor' = 1 /\ decisions' = decisions /\ merges' = merges
        /\ Valid(e)
    BY <1>2 DEF Start, state, lineage, identity_index
  <2>2. ASSUME NEW i \in 1..Len(e.commands) PROVE EnqueueHolds(i)'
    <3>1. e.commands[i].kind = "EnqueueMaterialization" =>
              e.commands[i].decision \in DOMAIN decisions \cup PendingDecisions(e, i)
      <4>1. ValidCommand(e, i)
        BY <2>1, EnvelopeFields DEF Valid, CommandsValid
      <4> QED
        BY <4>1 DEF ValidCommand, ValidEnqueue, KnownDecision
    <3>2. Left(i)' = {e.commands[j] : j \in 1..(i - 1)}
      BY <2>1 DEF Left
    <3> QED
      BY <2>1, <3>1, <3>2 DEF EnqueueHolds, PendingDecisions, Earlier
  <2> QED
    BY <2>1, <2>2 DEF EnqueuesLater
<1>3. ASSUME inflight # None, inflight' = inflight, cursor' \in {cursor, cursor + 1},
             Len(inflight.commands) \in Nat, cursor \in 1..(Len(inflight.commands) + 1),
             \A i \in cursor'..Len(inflight.commands) : i \in cursor..Len(inflight.commands)
      PROVE  EnqueuesLater'
  <2>1. DOMAIN decisions \subseteq DOMAIN decisions' /\ DOMAIN merges \subseteq DOMAIN merges'
    BY DecisionKept, MergeBeginsKept
  <2>2. ASSUME NEW i \in cursor'..Len(inflight.commands) PROVE EnqueueHolds(i)'
    <3>1. EnqueueHolds(i)
      BY <1>3, <2>2 DEF EnqueuesLater
    <3>2. CASE cursor' = cursor
      <4>1. Left(i)' = Left(i)
        BY <1>3, <3>2 DEF Left
      <4> QED
        BY <1>3, <2>1, <3>1, <4>1 DEF EnqueueHolds
    <3>3. CASE cursor' = cursor + 1
      <4>1. Left(i) = Left(i)' \cup {command}
        BY <1>3, <2>2, <3>3 DEF Left, command
      <4>2. /\ DecisionsIn(Left(i)) \subseteq DecisionsIn(Left(i)') \cup DOMAIN decisions'
            /\ MergesIn(Left(i)) \subseteq MergesIn(Left(i)') \cup DOMAIN merges'
        <5>1. command.kind = "CommitResolution" => command.decision.id \in DOMAIN decisions'
          BY <1>3, <3>3, CursorPasses, ResolutionEffect
        <5>2. command.kind = "Merge" => command.decision \in DOMAIN merges'
          BY <1>3, <3>3, CursorPasses DEF Merge, Insert
        <5> HIDE DEF command
        <5> QED
          BY <4>1, <5>1, <5>2
      <4> QED
        BY <1>3, <2>1, <3>1, <4>2 DEF EnqueueHolds
    <3> QED
      BY <1>3, <3>2, <3>3
  <2> QED
    BY <1>3, <2>2 DEF EnqueuesLater
<1> QED
  BY <1>1, <1>2, <1>3, LeftSteps

(* The invariant of the outbox.                                            *)
OutboxInv == CurrentInv /\ MergeView /\ OutboxRecorded /\ EnqueuesLater

(* An empty ledger has no merges and no entries.                           *)
LEMMA InitOutbox == Init => OutboxInv
<1> SUFFICES ASSUME Init PROVE OutboxInv
  OBVIOUS
<1>1. merges = EmptyMap /\ outbox = EmptyMap /\ transactions = <<>> /\ inflight = None
  BY DEF Init, Empty
<1>2. \A n : DoneAt(n) = {}
  BY <1>1 DEF DoneAt
<1>3. MergeView
  BY <1>1, <1>2 DEF MergeView, MergesRecorded, SplitsKnown, SplitsLater, MergesOpen, EmptyMap
<1>4. OutboxRecorded /\ EnqueuesLater
  BY <1>1 DEF OutboxRecorded, EnqueuesLater, EmptyMap
<1> QED
  BY <1>3, <1>4, InitCurrent DEF OutboxInv

(* Every step of the ledger keeps the invariant of the outbox.             *)
LEMMA OutboxInvStep == LedgerInv /\ LogConsistent /\ OutboxInv /\ TableStep => OutboxInv'
BY CurrentInvStep, MergesRecordedStep, SplitsStep, MergesOpenStep, OutboxRecordedStep,
   EnqueuesLaterStep DEF OutboxInv, MergeView, CurrentInv

(* When nothing is in flight, the command of an entry is one of the log.   *)
LEMMA OutboxFromLog == LedgerInv /\ LogConsistent /\ OutboxInv => OutboxJustified
<1> SUFFICES ASSUME LedgerInv, LogConsistent, OutboxInv, inflight = None,
                    NEW m \in DOMAIN outbox
             PROVE  LET d == outbox[m].decision
                    IN  /\ outbox[m].commit \in DOMAIN transactions
                        /\ transactions[outbox[m].commit].active
                        /\ Enqueues(transactions[outbox[m].commit].envelope, m, d)
                        /\ \/ d \in DOMAIN decisions
                              /\ decisions[d].validity.begin <= outbox[m].commit
                           \/ d \in DOMAIN merges
                              /\ merges[d].validity.begin <= outbox[m].commit
  BY DEF OutboxJustified, Settled
<1>1. PICK n \in Versions : \E d \in Decision : EntryFrom(m, d, n)
  BY DEF OutboxInv, OutboxRecorded
<1>2. PICK d \in Decision : EntryFrom(m, d, n)
  BY <1>1
<1>3. n \in 1..version /\ DOMAIN transactions = 1..version
  BY <1>2, SettledHistory DEF EntryFrom, EnqueuedAt
<1>4. /\ DoneAt(n) = DOMAIN transactions[n].envelope.commands
      /\ EnvelopeAt(n) = transactions[n].envelope
      /\ ActiveAt(n) <=> transactions[n].active
  BY <1>3, SettledHistory
<1>5. Enqueues(transactions[n].envelope, m, d)
  BY <1>2, <1>4 DEF EntryFrom, EnqueuedAt, Enqueues, CommandAt
<1> QED
  BY <1>2, <1>3, <1>4, <1>5 DEF EntryFrom, DecidedBy

(* Between commits an outbox entry stands for the command of the active    *)
(* transaction that was committed at the entry's version, and its decision *)
(* was there by then.                                                      *)
THEOREM OutboxIsJustified == Spec => []OutboxJustified
BY OutboxFromLog, InitCurrent, InitOutbox, OutboxInvStep, InitInv, StepInv, NextIsStep, LogStep, PTL
   DEF Spec

-----------------------------------------------------------------------------
(***************************************************************************)
(* Which receipts there are.                                               *)
(***************************************************************************)

(* What a Materialized command finds and leaves.                           *)
LEMMA MaterializedEffect ==
    ASSUME LedgerInv, LogConsistent, ReceiptsLater, Materialized
    PROVE  LET m == command.materialization
               r == [materialization |-> m, decision |-> command.decision,
                     commit |-> next_version]
               last == Len(receipts) + 1
           IN  /\ m \in Materialization /\ command.decision \in Decision
               /\ Receivable(m, command.decision)
               /\ Len(receipts) \in Nat /\ DOMAIN receipts = 1..Len(receipts)
               /\ DOMAIN receipts' = 1..last /\ receipts'[last] = r
               /\ \A n \in DOMAIN receipts : receipts'[n] = receipts[n]
               /\ DOMAIN outbox' = DOMAIN outbox
               /\ \A k \in DOMAIN outbox :
                      /\ outbox'[k].commit = outbox[k].commit
                      /\ outbox'[k].decision = outbox[k].decision
                      /\ outbox'[k].completed <=> outbox[k].completed \/ k = m
<1> DEFINE m == command.materialization
           O == [decision: Decision, relation: Relation, commit: 1..MaxVersion,
                 completed: BOOLEAN]
           R == [materialization: Materialization, decision: Decision, commit: 1..MaxVersion]
           r == [materialization |-> m, decision |-> command.decision, commit |-> next_version]
<1>1. inflight # None /\ cursor \in DOMAIN inflight.commands /\ command.kind = "Materialized"
  BY DEF Materialized, Applying
<1>2. /\ m \in Materialization /\ command.decision \in Decision
      /\ cursor \in cursor..Len(inflight.commands)
  BY <1>1, InFlight, CommandFields, EnvelopeFields DEF LedgerInv
<1>3. Receivable(m, command.decision)
  <2>1. Awaits(cursor, m, command.decision)
    BY <1>1 DEF Awaits, command
  <2> QED
    BY <1>1, <1>2, <2>1 DEF ReceiptsLater
<1>4. receipts \in Seq(R) /\ receipts' = Append(receipts, r)
  BY DEF LedgerInv, TypeOK, DeliveryTypeOK, Materialized
<1>5. /\ Len(receipts) \in Nat /\ DOMAIN receipts = 1..Len(receipts)
      /\ DOMAIN receipts' = 1..(Len(receipts) + 1) /\ receipts'[Len(receipts) + 1] = r
      /\ \A n \in DOMAIN receipts : receipts'[n] = receipts[n]
  <2> HIDE DEF R, r
  <2> QED
    BY <1>4
<1>6. ASSUME NEW k \in DOMAIN outbox
      PROVE  /\ outbox'[k].commit = outbox[k].commit /\ outbox'[k].decision = outbox[k].decision
             /\ outbox'[k].completed <=> outbox[k].completed \/ k = m
  <2>1. outbox[k] \in O /\ outbox'[k] = [outbox[k] EXCEPT !.completed = @ \/ k = m]
    BY DEF LedgerInv, TypeOK, DeliveryTypeOK, Materialized, Complete
  <2> QED
    BY <2>1
<1>7. DOMAIN outbox' = DOMAIN outbox
  BY DEF Materialized, Complete
<1> QED
  BY <1>2, <1>3, <1>5, <1>6, <1>7

(* What an EnqueueMaterialization command leaves.                          *)
LEMMA EnqueueEffect ==
    ASSUME EnqueueMaterialization
    PROVE  LET m == command.materialization
           IN  /\ command.kind = "EnqueueMaterialization"
               /\ m \in DOMAIN outbox' /\ outbox'[m].commit = next_version
               /\ ~outbox'[m].completed /\ receipts' = receipts
               /\ \A k : k # m => /\ (k \in DOMAIN outbox') <=> (k \in DOMAIN outbox)
                                  /\ k \in DOMAIN outbox => outbox'[k] = outbox[k]
BY DEF EnqueueMaterialization, Applying, Insert

(* Every step keeps completion and receipts together.                      *)
LEMMA ReceiptsRecordedStep ==
    LedgerInv /\ LogConsistent /\ OutboxRecorded /\ ReceiptsRecorded /\ ReceiptsLater
        /\ TableStep => ReceiptsRecorded'
<1> SUFFICES ASSUME LedgerInv, LogConsistent, OutboxRecorded, ReceiptsRecorded, ReceiptsLater,
                    TableStep
             PROVE  ReceiptsRecorded'
  OBVIOUS
<1>1. /\ Now \in Nat /\ Now' \in Nat /\ Now <= Now'
      /\ inflight # None /\ inflight' = inflight /\ version' = version =>
             Now = next_version /\ Now' = next_version
  BY NowMoves
<1>2. /\ version \in Nat /\ next_version = version + 1 /\ DOMAIN transactions = 1..version
  BY VersionsOfLog
<1>3. /\ \A m \in DOMAIN outbox : outbox[m].commit \in Nat /\ outbox[m].completed \in BOOLEAN
      /\ \A n \in DOMAIN receipts : receipts[n].commit \in Nat
  <2> DEFINE R == [materialization: Materialization, decision: Decision, commit: 1..MaxVersion]
  <2> HIDE DEF R
  <2>1. receipts \in Seq(R)
    BY DEF LedgerInv, TypeOK, DeliveryTypeOK, R
  <2>2. \A n \in DOMAIN receipts : receipts[n] \in R
    BY <2>1
  <2> QED
    BY <2>2 DEF LedgerInv, TypeOK, DeliveryTypeOK, R
<1>4. ASSUME DOMAIN outbox' \subseteq DOMAIN outbox, receipts' = receipts,
             \A m \in DOMAIN outbox' : outbox'[m] = outbox[m]
      PROVE  ReceiptsRecorded'
  <2>1. \A n : \A m \in DOMAIN outbox' : Answers(n, m)' <=> Answers(n, m)
    BY <1>4 DEF Answers
  <2>2. \A m \in DOMAIN outbox' :
            outbox'[m].completed <=> \E n \in DOMAIN receipts' : Answers(n, m)'
    BY <1>4, <2>1 DEF ReceiptsRecorded
  <2>3. \A n \in DOMAIN receipts' :
            /\ receipts'[n].commit <= Now'
            /\ \E k \in DOMAIN transactions' :
                   /\ k < receipts'[n].commit
                   /\ Enqueues(transactions'[k].envelope, receipts'[n].materialization,
                               receipts'[n].decision)
    BY <1>1, <1>3, <1>4, RecordsKept DEF ReceiptsRecorded
  <2>4. \A n1, n2 \in DOMAIN receipts' : \A m \in DOMAIN outbox' :
            Answers(n1, m)' /\ Answers(n2, m)' => receipts'[n1].commit = receipts'[n2].commit
    BY <1>4, <2>1 DEF ReceiptsRecorded
  <2> QED
    BY <2>2, <2>3, <2>4 DEF ReceiptsRecorded, Enqueues
<1>5. CASE UNCHANGED delivery
  BY <1>4, <1>5 DEF delivery
<1>6. ASSUME NEW t \in targets, Deactivate(t) PROVE ReceiptsRecorded'
  BY <1>4, <1>6 DEF Deactivate, Remove
<1>7. CASE EnqueueMaterialization
  <2> PICK e : e = command.materialization
    OBVIOUS
  <2>1. inflight # None /\ inflight' = inflight /\ version' = version
        /\ transactions' = transactions
    BY <1>7 DEF EnqueueMaterialization, Applying, Advance, log
  <2>2. /\ e \in DOMAIN outbox' /\ outbox'[e].commit = next_version
        /\ ~outbox'[e].completed /\ receipts' = receipts
        /\ \A k : k # e => /\ (k \in DOMAIN outbox') <=> (k \in DOMAIN outbox)
                           /\ k \in DOMAIN outbox => outbox'[k] = outbox[k]
    BY <1>7, EnqueueEffect
  <2>3. \A n \in DOMAIN receipts : \A m : m # e => (Answers(n, m)' <=> Answers(n, m))
    BY <2>2 DEF Answers
  <2>4. \A n \in DOMAIN receipts : ~Answers(n, e)'
    <3>1. \A n \in DOMAIN receipts : receipts[n].commit <= next_version
      BY <1>1, <2>1 DEF ReceiptsRecorded
    <3> QED
      BY <1>2, <1>3, <2>2, <3>1 DEF Answers
  <2>5. \A m \in DOMAIN outbox' :
            outbox'[m].completed <=> \E n \in DOMAIN receipts' : Answers(n, m)'
    BY <2>2, <2>3, <2>4 DEF ReceiptsRecorded
  <2>6. \A n1, n2 \in DOMAIN receipts' : \A m \in DOMAIN outbox' :
            Answers(n1, m)' /\ Answers(n2, m)' => receipts'[n1].commit = receipts'[n2].commit
    BY <2>2, <2>3, <2>4 DEF ReceiptsRecorded
  <2>7. \A n \in DOMAIN receipts' :
            /\ receipts'[n].commit <= Now'
            /\ \E k \in DOMAIN transactions' :
                   /\ k < receipts'[n].commit
                   /\ Enqueues(transactions'[k].envelope, receipts'[n].materialization,
                               receipts'[n].decision)
    BY <1>1, <1>3, <2>1, <2>2 DEF ReceiptsRecorded
  <2> QED
    BY <2>5, <2>6, <2>7 DEF ReceiptsRecorded, Enqueues
<1>8. CASE Materialized
  <2> PICK e, last : e = command.materialization /\ last = Len(receipts) + 1
    OBVIOUS
  <2> DEFINE r == [materialization |-> e, decision |-> command.decision,
                    commit |-> next_version]
  <2>1. inflight # None /\ inflight' = inflight /\ version' = version
        /\ transactions' = transactions
    BY <1>8 DEF Materialized, Applying, Advance, log
  <2>2. /\ Receivable(e, command.decision)
        /\ Len(receipts) \in Nat /\ DOMAIN receipts = 1..Len(receipts)
        /\ DOMAIN receipts' = 1..last /\ receipts'[last] = r
        /\ \A n \in DOMAIN receipts : receipts'[n] = receipts[n]
        /\ DOMAIN outbox' = DOMAIN outbox
        /\ \A k \in DOMAIN outbox :
               /\ outbox'[k].commit = outbox[k].commit
               /\ outbox'[k].completed <=> outbox[k].completed \/ k = e
    BY <1>8, MaterializedEffect
  <2>3. \A n \in DOMAIN receipts' : n \in DOMAIN receipts \/ n = last
    BY <2>2
  <2>4. \A n \in DOMAIN receipts, m \in DOMAIN outbox :
            n \in DOMAIN receipts' /\ (Answers(n, m)' <=> Answers(n, m))
    BY <2>2 DEF Answers
  <2>5. ASSUME NEW m \in DOMAIN outbox PROVE Answers(last, m)' <=> m = e
    BY <1>2, <1>3, <2>2 DEF Answers, Receivable
  <2>6. \A m \in DOMAIN outbox' :
            outbox'[m].completed <=> \E n \in DOMAIN receipts' : Answers(n, m)'
    BY <2>2, <2>3, <2>4, <2>5 DEF ReceiptsRecorded
  <2>7. ASSUME NEW n1 \in DOMAIN receipts', NEW n2 \in DOMAIN receipts',
               NEW m \in DOMAIN outbox', Answers(n1, m)', Answers(n2, m)'
        PROVE  receipts'[n1].commit = receipts'[n2].commit
    <3>1. \A n \in DOMAIN receipts : Answers(n, e) => receipts'[n].commit = next_version
      BY <2>2 DEF Receivable
    <3>2. CASE m = e
      <4>1. receipts'[last].commit = next_version
        BY <2>2
      <4> QED
        BY <2>2, <2>3, <2>4, <2>7, <3>1, <3>2, <4>1
    <3>3. CASE m # e
      <4>1. /\ n1 \in DOMAIN receipts /\ n2 \in DOMAIN receipts
            /\ Answers(n1, m) /\ Answers(n2, m)
        BY <2>2, <2>3, <2>4, <2>5, <2>7, <3>3
      <4> QED
        BY <2>2, <2>7, <4>1 DEF ReceiptsRecorded
    <3> QED
      BY <3>2, <3>3
  <2>8. ASSUME NEW n \in DOMAIN receipts'
        PROVE  /\ receipts'[n].commit <= Now'
               /\ \E k \in DOMAIN transactions' :
                      /\ k < receipts'[n].commit
                      /\ Enqueues(transactions'[k].envelope, receipts'[n].materialization,
                                  receipts'[n].decision)
    <3>1. CASE n \in DOMAIN receipts
      BY <1>1, <1>3, <2>1, <2>2, <3>1 DEF ReceiptsRecorded
    <3>2. CASE n = last
      <4>1. PICK k \in DOMAIN transactions :
                Enqueues(transactions[k].envelope, e, command.decision)
        BY <2>2 DEF Receivable
      <4>2. k < next_version /\ receipts'[n] = r
        BY <1>2, <2>2, <3>2
      <4> QED
        BY <1>1, <1>2, <2>1, <4>1, <4>2
    <3> QED
      BY <2>3, <3>1, <3>2
  <2> QED
    BY <2>6, <2>7, <2>8 DEF ReceiptsRecorded, Enqueues
<1> QED
  BY <1>5, <1>6, <1>7, <1>8, DeliverySteps

(* Every step leaves the Materialized commands left receivable.            *)
LEMMA ReceiptsLaterStep ==
    LedgerInv /\ LogConsistent /\ OutboxRecorded /\ ReceiptsRecorded /\ ReceiptsLater
        /\ TableStep => ReceiptsLater'
<1> SUFFICES ASSUME LedgerInv, LogConsistent, OutboxRecorded, ReceiptsRecorded, ReceiptsLater,
                    TableStep
             PROVE  ReceiptsLater'
  OBVIOUS
<1>1. CASE inflight' = None
  BY <1>1 DEF ReceiptsLater
<1>2. ASSUME NEW e \in CommandEnvelope, Start(e) PROVE ReceiptsLater'
  <2>1. /\ inflight' = e /\ cursor' = 1 /\ Valid(e) /\ inflight = None
        /\ outbox' = outbox /\ receipts' = receipts /\ transactions' = transactions
        /\ next_version' = next_version
    BY <1>2 DEF Start, state, delivery, log, next_version
  <2>2. \A j \in 1..Len(e.commands) : ValidCommand(e, j)
    BY <2>1, EnvelopeFields DEF Valid, CommandsValid
  <2>3. ASSUME NEW i \in 1..Len(e.commands), NEW m \in Materialization, NEW d \in Decision,
               e.commands[i].kind = "Materialized", e.commands[i].materialization = m,
               e.commands[i].decision = d
        PROVE  Receivable(m, d)'
    <3>1. m \in DOMAIN outbox /\ ~outbox[m].completed /\ outbox[m].decision = d
      BY <2>2, <2>3 DEF ValidCommand, ValidReceipt
    <3>2. PICK n \in Versions : \E f \in Decision : EntryFrom(m, f, n)
      BY <3>1 DEF OutboxRecorded
    <3>3. EntryFrom(m, d, n)
      BY <3>1, <3>2 DEF EntryFrom
    <3>4. /\ n \in 1..version /\ n \in DOMAIN transactions /\ outbox[m].commit = n
          /\ DoneAt(n) = DOMAIN transactions[n].envelope.commands
          /\ EnvelopeAt(n) = transactions[n].envelope
      BY <2>1, <3>3, SettledHistory DEF EntryFrom, EnqueuedAt
    <3>5. Enqueues(transactions[n].envelope, m, d)
      BY <3>3, <3>4 DEF EntryFrom, EnqueuedAt, Enqueues, CommandAt
    <3>6. outbox[m].commit < next_version
      BY <3>4, VersionsOfLog
    <3>7. \A k \in DOMAIN receipts : ~Answers(k, m)
      BY <3>1 DEF ReceiptsRecorded
    <3>8. \A j \in 1..Len(e.commands) :
              e.commands[j].kind = "EnqueueMaterialization" => e.commands[j].materialization # m
      BY <2>2, <3>1 DEF ValidCommand, ValidEnqueue
    <3>9. \A k \in DOMAIN receipts : ~Answers(k, m)'
      BY <2>1, <3>7 DEF Answers
    <3> QED
      BY <2>1, <3>4, <3>5, <3>6, <3>8, <3>9 DEF Receivable, Enqueues
  <2> QED
    BY <2>1, <2>3 DEF ReceiptsLater, Awaits
<1>3. ASSUME inflight # None, inflight' = inflight, cursor' \in {cursor, cursor + 1},
             next_version' = next_version,
             Len(inflight.commands) \in Nat, cursor \in 1..(Len(inflight.commands) + 1),
             \A i \in cursor'..Len(inflight.commands) : i \in cursor..Len(inflight.commands)
      PROVE  ReceiptsLater'
  <2> SUFFICES ASSUME NEW i \in cursor'..Len(inflight.commands),
                      NEW m \in Materialization, NEW d \in Decision, Awaits(i, m, d)
               PROVE  Receivable(m, d)'
    BY <1>3 DEF ReceiptsLater, Awaits
  <2>1. Receivable(m, d)
    BY <1>3 DEF ReceiptsLater
  <2>2. \E k \in DOMAIN transactions' : Enqueues(transactions'[k].envelope, m, d)
    BY <2>1, RecordsKept DEF Receivable
  <2>3. \A j \in cursor'..Len(inflight.commands) :
            inflight.commands[j].kind = "EnqueueMaterialization" =>
                inflight.commands[j].materialization # m
    BY <1>3, <2>1 DEF Receivable
  <2>4. ASSUME m \in DOMAIN outbox' => /\ m \in DOMAIN outbox
                                       /\ outbox'[m].commit = outbox[m].commit,
               \A n \in DOMAIN receipts' :
                   \/ n \in DOMAIN receipts /\ receipts'[n] = receipts[n]
                   \/ receipts'[n].commit = next_version
        PROVE  Receivable(m, d)'
    <3>1. m \in DOMAIN outbox' => outbox'[m].commit < next_version
      BY <2>1, <2>4 DEF Receivable
    <3>2. \A n \in DOMAIN receipts' : Answers(n, m)' => receipts'[n].commit = next_version
      BY <2>1, <2>4 DEF Receivable, Answers
    <3> QED
      BY <1>3, <2>2, <2>3, <3>1, <3>2 DEF Receivable, Enqueues
  <2>5. CASE UNCHANGED delivery
    BY <2>4, <2>5 DEF delivery
  <2>6. ASSUME NEW t \in targets, Deactivate(t) PROVE Receivable(m, d)'
    BY <2>4, <2>6 DEF Deactivate, Remove
  <2>7. CASE EnqueueMaterialization
    <3>1. command.materialization # m
      <4>1. cursor \in cursor..Len(inflight.commands)
            /\ command.kind = "EnqueueMaterialization"
        BY <1>3, <2>7, InFlight DEF EnqueueMaterialization, Applying, LedgerInv
      <4> QED
        BY <2>1, <4>1 DEF Receivable, command
    <3> QED
      BY <2>4, <2>7, <3>1, EnqueueEffect
  <2>8. CASE Materialized
    <3>1. /\ DOMAIN outbox' = DOMAIN outbox
          /\ \A k \in DOMAIN outbox : outbox'[k].commit = outbox[k].commit
          /\ Len(receipts) \in Nat /\ DOMAIN receipts = 1..Len(receipts)
          /\ DOMAIN receipts' = 1..(Len(receipts) + 1)
          /\ \A n \in DOMAIN receipts : receipts'[n] = receipts[n]
          /\ receipts'[Len(receipts) + 1].commit = next_version
      BY <2>8, MaterializedEffect
    <3>2. \A n \in DOMAIN receipts' : n \in DOMAIN receipts \/ n = Len(receipts) + 1
      BY <3>1
    <3> QED
      BY <2>4, <3>1, <3>2
  <2> QED
    BY <2>5, <2>6, <2>7, <2>8, DeliverySteps
<1> QED
  BY <1>1, <1>2, <1>3, LeftSteps

(* What the records of the receipts say is what is promised of them.       *)
LEMMA ReceiptsFromLog == LogConsistent /\ ReceiptsRecorded => ReceiptsMatch
<1> SUFFICES ASSUME LogConsistent, ReceiptsRecorded PROVE ReceiptsMatch
  OBVIOUS
<1>1. \A m \in DOMAIN outbox :
          outbox[m].completed <=>
              \E n \in DOMAIN receipts : receipts[n].materialization = m
                                          /\ receipts[n].commit > outbox[m].commit
  BY DEF ReceiptsRecorded, Answers
<1>2. \A m \in DOMAIN outbox : \A n1, n2 \in DOMAIN receipts :
          /\ {receipts[n1].materialization, receipts[n2].materialization} = {m}
          /\ receipts[n1].commit > outbox[m].commit
          /\ receipts[n2].commit > outbox[m].commit
          => receipts[n1].commit = receipts[n2].commit
  BY DEF ReceiptsRecorded, Answers
<1> QED
  BY <1>1, <1>2 DEF ReceiptsMatch, ReceiptsRecorded

(* The invariant of the receipts.                                          *)
ReceiptsInv == OutboxInv /\ ReceiptsRecorded /\ ReceiptsLater

(* An empty ledger has no receipts.                                        *)
LEMMA InitReceipts == Init => ReceiptsInv
<1>1. Init => ReceiptsRecorded /\ ReceiptsLater
  BY DEF Init, Empty, EmptyMap, ReceiptsRecorded, ReceiptsLater
<1> QED
  BY <1>1, InitOutbox DEF ReceiptsInv

(* Every step of the ledger keeps the invariant of the receipts.           *)
LEMMA ReceiptsInvStep == LedgerInv /\ LogConsistent /\ ReceiptsInv /\ TableStep => ReceiptsInv'
BY OutboxInvStep, ReceiptsRecordedStep, ReceiptsLaterStep DEF ReceiptsInv, OutboxInv

(* Between commits an entry is completed exactly when a receipt came after *)
(* it was enqueued, every receipt is for what an earlier transaction       *)
(* enqueued, and two receipts for one entry came in one envelope.          *)
THEOREM ReceiptsAreMatched == Spec => []ReceiptsMatch
BY ReceiptsFromLog, InitCurrent, InitReceipts, ReceiptsInvStep, InitInv, StepInv, NextIsStep,
   LogStep, PTL DEF Spec, ReceiptsInv
=============================================================================
