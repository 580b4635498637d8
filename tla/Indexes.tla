------------------------------ MODULE Indexes ------------------------------
(***************************************************************************)
(* The containers the ledger is built from: hash maps as functions over a  *)
(* finite domain, half-open validity intervals, and what the ledger's      *)
(* worklist search and union-find compute, given by their meaning.         *)
(***************************************************************************)
EXTENDS Naturals, Sequences

\* HashMap::new.
EmptyMap == [x \in {} |-> 0]

\* HashMap::insert: adds the entry or replaces the one that was there.
Insert(f, k, v) == [x \in DOMAIN f \cup {k} |-> IF x = k THEN v ELSE f[x]]

\* HashMap::remove, for every key of a set.
Remove(f, S) == [x \in DOMAIN f \ S |-> f[x]]

\* HashMap::get with a default for None.
Lookup(f, k, default) == IF k \in DOMAIN f THEN f[k] ELSE default

(***************************************************************************)
(* VersionInterval.  An absent end (None) is the number `open', past every *)
(* version, so that `contains' is one comparison on each side.             *)
(***************************************************************************)
Interval(begin, end) == [begin |-> begin, end |-> end]

\* `if let Ok(validity) = VersionInterval::new(begin, Some(end))': an end
\* that is not after the beginning is refused and the interval stays as it is.
EndAt(validity, end) ==
    IF end <= validity.begin THEN validity ELSE [validity EXCEPT !.end = end]

Contains(validity, version) ==
    validity.begin <= version /\ version < validity.end

Least(S) == CHOOSE m \in S : \A n \in S : m <= n

Greatest(S) == CHOOSE m \in S : \A n \in S : n <= m

(***************************************************************************)
(* The nodes that can be reached from x along the edges R, a set of pairs: *)
(* the smallest set that holds x and is closed under R.                    *)
(***************************************************************************)
Reachable(x, R) ==
    LET nodes == {x} \cup {edge[2] : edge \in R}
        Closed(S) == x \in S /\ \A edge \in R : edge[1] \in S => edge[2] \in S
    IN  {y \in nodes : \A S \in SUBSET nodes : Closed(S) => y \in S}

(***************************************************************************)
(* The same nodes in the order of a breadth-first search: of the oldest    *)
(* node that has new successors the one at the least place comes next.     *)
(* There are at most n nodes.                                              *)
(***************************************************************************)
BreadthFirst(x, successors, place, n) ==
    LET New(y, found) == Lookup(successors, y, {}) \ {found[m] : m \in DOMAIN found}
        FirstOf(S) == CHOOSE y \in S : \A z \in S : place[y] <= place[z]
        Extended(found) ==
            LET open == {m \in DOMAIN found : New(found[m], found) # {}}
            IN  IF open = {} THEN found
                ELSE Append(found, FirstOf(New(found[Least(open)], found)))
        \* The bound variable has TLC compute search[k - 1] once.
        search[k \in 1..n] ==
            IF k = 1 THEN <<x>>
            ELSE CHOOSE next \in {Extended(found) : found \in {search[k - 1]}} : TRUE
    IN  search[n]
============================================================================
