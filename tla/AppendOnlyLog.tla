--------------------------- MODULE AppendOnlyLog ---------------------------
(***************************************************************************)
(* What a ledger promises its clients, with none of the indexes: a log     *)
(* that only grows, entry n computed from a log of n - 1 entries, no key   *)
(* and no transaction identifier used twice, dependencies on entries that  *)
(* are there, and answers that tell the truth about the log.               *)
(***************************************************************************)
EXTENDS Naturals, Sequences

CONSTANTS Envelope, MaxVersion, None

VARIABLES
    entries,  \* the envelopes in commit order
    reply     \* the answer to the last submission

logvars == <<entries, reply>>

Granted == {"Committed", "Replayed"}
Reply(result, v, e) == [result |-> result, version |-> v, envelope |-> e]

Init ==
    /\ entries = <<>>
    /\ reply = Reply("None", 0, None)

\* The entry is added; the caller learns of it now, or later, or never.
Add(e) ==
    /\ Len(entries) < MaxVersion
    /\ e.expected_version = Len(entries)
    /\ \A n \in DOMAIN entries :
          entries[n].idempotency # e.idempotency /\ entries[n].transaction # e.transaction
    /\ \A t \in e.depends_on : \E n \in DOMAIN entries : entries[n].transaction = t
    /\ entries' = Append(entries, e)
    /\ reply' \in {reply, Reply("Committed", Len(entries) + 1, e)}

\* A grant names an entry and the version it was added at.
Grant(n) ==
    /\ \E result \in Granted : reply' = Reply(result, n, entries[n])
    /\ UNCHANGED entries

\* An error, a call that is under way, or one whose answer is lost.
NoGrant ==
    /\ reply'.result \notin Granted
    /\ UNCHANGED entries

Next ==
    \/ NoGrant
    \/ \E n \in DOMAIN entries : Grant(n)
    \/ \E e \in Envelope : Add(e)

Spec == Init /\ [][Next]_logvars
============================================================================
