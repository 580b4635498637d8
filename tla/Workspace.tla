------------------------------ MODULE Workspace ------------------------------
(***************************************************************************)
(* HotWorkspace of li-workspace: the identities that are active, each with *)
(* a bounded history of the observations associated with it, kept by one   *)
(* owner beside the ledger that holds all of them.                         *)
(*                                                                         *)
(* The owner delivers the committed associations in the order of the       *)
(* ledger, and some of them again when it resumes from an earlier place;   *)
(* it evicts idle identities and inserts new entries and any entry it once *)
(* got, also over the one that is there.  The ledger's part, the owner's   *)
(* resuming and what it inserts are outside li-workspace.                  *)
(***************************************************************************)
EXTENDS Indexes, Sequences

CONSTANTS
    Identity, Time,
    Provider,         \* provider and schema of a summary
    HistoryCapacity,  \* the observations an entry remembers
    MaxAssociations,  \* bound: the associations that are committed
    MaxTurns          \* bound: how often the owner resumes, clones or inserts a copy

ASSUME WorkspaceAssumption ==
    /\ Time \subseteq Nat
    /\ HistoryCapacity \in Nat /\ MaxAssociations \in Nat /\ MaxTurns \in Nat

VARIABLES
    associations,  \* the committed associations, by observation
    next,          \* the observation whose association is delivered next
    entries,       \* IndexMap: identity -> HotIdentity
    held,          \* identity -> entries of it that the owner got, or clones
    cutoff,        \* of the last eviction
    answer,        \* of the last apply_committed
    turns,
    newest,        \* history variable: the newest version applied to an identity
    lost           \* history variable: what an inserted entry had not applied of it

vars == <<associations, next, entries, held, cutoff, answer, turns, newest, lost>>

Init ==
    /\ associations = <<>> /\ next = 1
    /\ entries = EmptyMap /\ held = [id \in Identity |-> {}]
    /\ cutoff = 0 /\ answer = "None" /\ turns = 0
    /\ newest = [id \in Identity |-> 0] /\ lost = [id \in Identity |-> {}]

-----------------------------------------------------------------------------
(* The ledger commits an association: in the version of the one before,    *)
(* when a batch resolves several observations, or in a later one.          *)
LastVersion == IF associations = <<>> THEN 0 ELSE associations[Len(associations)].version

Commit(id, v, t) ==
    /\ Len(associations) < MaxAssociations
    /\ v \in {LastVersion, LastVersion + 1} /\ v > 0
    /\ associations' = Append(associations, [identity |-> id, version |-> v, event_time |-> t])
    /\ UNCHANGED <<next, entries, held, cutoff, answer, turns, newest, lost>>

(* HotIdentity::new *)
NewEntry(activation, applied) ==
    [summaries |-> <<>>, history |-> <<>>, last_activation |-> activation, applied |-> applied]

(* upsert_summary: the first summary of the provider and schema gives way, *)
(* or there is none and it is appended.                                    *)
Upsert(summaries, s) ==
    LET same == {n \in DOMAIN summaries : summaries[n].provider = s.provider}
    IN  IF same = {} THEN Append(summaries, s)
        ELSE [summaries EXCEPT ![Least(same)] = s]

(* The entry its owner holds may get a summary before it is inserted. *)
Prepared(entry) ==
    {entry} \cup
    {[entry EXCEPT !.summaries = Upsert(@, [provider |-> p, version |-> entry.applied])] :
        p \in Provider}

(* BoundedHistory::push *)
Push(history, o) ==
    IF HistoryCapacity = 0 THEN <<>>
    ELSE IF Len(history) < HistoryCapacity THEN Append(history, o)
    ELSE Append(Tail(history), o)

(* Fault: an association at the version applied is applied again. *)
NotOlder(a, entry) == a.version >= entry.applied

Advances(a, entry) == a.version > entry.applied

Later(last_activation, event_time) ==
    IF event_time > last_activation THEN event_time ELSE last_activation

Applied(entry, a, o) ==
    [entry EXCEPT !.applied = a.version,
                  !.last_activation = Later(@, a.event_time),
                  !.history = Push(@, o)]

Due == next \in DOMAIN associations
Delivered == associations[next]

(* The owner finds no entry and inserts a new one, at version zero. *)
Reconstruct ==
    /\ Due /\ Delivered.identity \notin DOMAIN entries
    /\ entries' = Insert(entries, Delivered.identity, NewEntry(Delivered.event_time, 0))
    /\ UNCHANGED <<associations, next, held, cutoff, answer, turns, newest, lost>>

(* apply_committed *)
MissingIdentity ==
    /\ Due /\ Delivered.identity \notin DOMAIN entries
    /\ answer' = "MissingIdentity"
    /\ UNCHANGED <<associations, next, entries, held, cutoff, turns, newest, lost>>

StaleCommit ==
    /\ Due /\ Delivered.identity \in DOMAIN entries
    /\ ~Advances(Delivered, entries[Delivered.identity])
    /\ answer' = "StaleCommit" /\ next' = next + 1
    /\ UNCHANGED <<associations, entries, held, cutoff, turns, newest, lost>>

ApplyCommitted ==
    /\ Due /\ Delivered.identity \in DOMAIN entries
    /\ Advances(Delivered, entries[Delivered.identity])
    /\ entries' = [entries EXCEPT ![Delivered.identity] = Applied(@, Delivered, next)]
    /\ answer' = "Ok" /\ next' = next + 1
    /\ newest' = [newest EXCEPT ![Delivered.identity] = Later(@, Delivered.version)]
    /\ UNCHANGED <<associations, held, cutoff, turns, lost>>

Resume(n) ==
    /\ turns < MaxTurns /\ n < next
    /\ next' = n /\ turns' = turns + 1
    /\ UNCHANGED <<associations, entries, held, cutoff, answer, newest, lost>>

(* Fault: an entry whose last activation is at the cutoff is idle, too. *)
NotAfter(entry, time) == entry.last_activation <= time

IdleAt(entry, time) == entry.last_activation < time

(* What the owner holds with the entries of some identities: output and     *)
(* Option<HotIdentity> own them, and they can be cloned.                    *)
Handed(ids) ==
    [id \in Identity |-> IF id \in ids THEN held[id] \cup {entries[id]} ELSE held[id]]

EvictBefore(time) ==
    LET idle == {id \in DOMAIN entries : IdleAt(entries[id], time)}
    IN  /\ held' = Handed(idle)
        /\ entries' = Remove(entries, idle)
        /\ cutoff' = time
        /\ UNCHANGED <<associations, next, answer, turns, newest, lost>>

(* The owner gets an entry and keeps a clone of it. *)
Get(id) ==
    /\ id \in DOMAIN entries /\ turns < MaxTurns
    /\ held' = Handed({id}) /\ turns' = turns + 1
    /\ UNCHANGED <<associations, next, entries, cutoff, answer, newest, lost>>

(* insert, of a copy the owner holds or of a new entry: an entry that is   *)
(* there gives way, however much newer it is, and the owner gets it.       *)
InsertEntry(id, copy) ==
    /\ turns < MaxTurns /\ turns' = turns + 1
    /\ \E entry \in Prepared(copy) : entries' = Insert(entries, id, entry)
    /\ held' = Handed({id} \cap DOMAIN entries)
    /\ lost' = [lost EXCEPT ![id] = @ \cup (copy.applied + 1)..newest[id]]
    /\ UNCHANGED <<associations, next, cutoff, answer, newest>>

Next ==
    \/ \E id \in Identity, v \in 1..MaxAssociations, t \in Time : Commit(id, v, t)
    \/ Reconstruct \/ MissingIdentity \/ StaleCommit \/ ApplyCommitted
    \/ \E n \in 1..MaxAssociations : Resume(n)
    \/ \E time \in Time : EvictBefore(time)
    \/ \E id \in Identity :
          \/ Get(id)
          \/ \E copy \in held[id] \cup {NewEntry(t, 0) : t \in Time} : InsertEntry(id, copy)

Spec == Init /\ [][Next]_vars

-----------------------------------------------------------------------------
Remembered(entry) == {entry.history[k] : k \in DOMAIN entry.history}

FollowsLog(id, entry) ==
    LET Version(k) == associations[entry.history[k]].version
    IN  /\ Len(entry.history) <= HistoryCapacity
        /\ \A o \in Remembered(entry) :
               /\ associations[o].identity = id
               /\ associations[o].event_time <= entry.last_activation
        /\ \A k \in 2..Len(entry.history) :
               /\ Version(k - 1) < Version(k)
               /\ \A o \in DOMAIN associations :
                      associations[o].identity = id =>
                          associations[o].version \notin
                              ((Version(k - 1) + 1)..(Version(k) - 1)) \ lost[id]
        /\ entry.history # <<>> => entry.applied = Version(Len(entry.history))

OnePerProvider(entry) ==
    \A m, n \in DOMAIN entry.summaries :
        entry.summaries[m].provider = entry.summaries[n].provider => m = n

(* The cache is a view of the ledger, whatever is delivered again, evicted, *)
(* inserted or begun anew: what an entry remembers are associations of its *)
(* identity, in the order of their versions, each version once.  None is   *)
(* left out between the first and the version applied, but versions that   *)
(* an entry had applied over which the owner inserted one that had not:    *)
(* insert does not compare the two, and apply_committed then takes any     *)
(* later version.                                                          *)
HistoryFollowsLog ==
    /\ \A id \in DOMAIN entries : FollowsLog(id, entries[id]) /\ OnePerProvider(entries[id])
    /\ \A id \in Identity : \A copy \in held[id] : FollowsLog(id, copy) /\ OnePerProvider(copy)

(* The later entry is not behind and remembers all but the oldest. *)
Continues(entry, after) ==
    /\ after.applied >= entry.applied
    /\ \A k \in 2..Len(entry.history) : entry.history[k] \in Remembered(after)

Kept ==
    \A id \in DOMAIN entries :
        \/ id \in DOMAIN entries' /\ Continues(entries[id], entries'[id])
        \/ /\ entries[id] \in held'[id]
           /\ \/ id \in DOMAIN entries'
              \/ \A o \in Remembered(entries[id]) : associations[o].event_time < cutoff'

(* A step either continues an entry, so that it never goes back to an      *)
(* earlier version and forgets at most its oldest observation, or hands it *)
(* to the owner as it was: when another is inserted in its place, or when  *)
(* it is evicted and all that it remembers happened before the cutoff.     *)
NothingLost == [][Kept]_vars
=============================================================================
