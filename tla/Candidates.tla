----------------------------- MODULE Candidates -----------------------------
(***************************************************************************)
(* The buffers of li-factors that providers write to: CandidateBuffer, one *)
(* range of candidates per observation, and FactorTable.  Observations are *)
(* numbered from 1, candidates are numbers in the order of their type.     *)
(***************************************************************************)
EXTENDS Indexes, Sequences, FiniteSets

CONSTANTS
    MaxCandidates,  \* the last offset (u32::MAX)
    MaxTable        \* the longest table (usize::MAX)

ASSUME BufferAssumption == MaxCandidates \in Nat /\ MaxTable \in Nat

LOCAL Ext == INSTANCE SequencesExt

(* next_observation is the number of offsets: both grow together. *)
EmptyBuffer == [offsets |-> <<0>>, candidates |-> <<>>]

Complete(buffer, batch) == Len(buffer.offsets) = batch + 1

(* sort_unstable and the loop that drops duplicates *)
Canonical(group) ==
    LET members == {group[k] : k \in DOMAIN group}
    IN  CHOOSE sorted \in [1..Cardinality(members) -> members] :
            \A a, b \in DOMAIN sorted : a < b => sorted[a] < sorted[b]

(* push_observation for the next observation in turn *)
Fits(buffer, group) == Len(buffer.candidates \o Canonical(group)) <= MaxCandidates

Pushed(buffer, group) ==
    LET extended == buffer.candidates \o Canonical(group)
    IN  [offsets |-> Append(buffer.offsets, Len(extended)), candidates |-> extended]

(* CandidateBuffer::get *)
Group(buffer, i) == SubSeq(buffer.candidates, buffer.offsets[i] + 1, buffer.offsets[i + 1])

Product(numbers) == Ext!FoldSeq(LAMBDA a, b : a * b, 1, numbers)

(* Fault: a variable may occur twice in a scope. *)
TableAcceptedTwice(table) ==
    /\ table.variables # <<>> /\ Len(table.variables) = Len(table.cardinalities)
    /\ Product(table.cardinalities) \in 1..MaxTable

(* FactorTable::new, of a table whose potentials are finite and as many as *)
(* the cardinalities ask for.                                              *)
TableAccepted(table) ==
    /\ table.variables # <<>> /\ Len(table.variables) = Len(table.cardinalities)
    /\ \A p, q \in DOMAIN table.variables :
           p # q => table.variables[p] # table.variables[q]
    /\ Product(table.cardinalities) \in 1..MaxTable
=============================================================================
