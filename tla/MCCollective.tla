---------------------------- MODULE MCCollective ----------------------------
(***************************************************************************)
(* Two observations with every kind of candidate group, gated by none, one *)
(* or two providers; and four without candidates, on which the factor      *)
(* graphs are trees, forests and graphs with cycles.                       *)
(***************************************************************************)
EXTENDS CollectiveProperties

MCProposable(n) == IF n = 2 THEN {<<>>, <<2, 1>>, <<1, 1>>} ELSE {<<>>}

Over(variables, states) ==
    [variables |-> variables, cardinalities |-> [p \in DOMAIN variables |-> states]]

(* On four: two pairs that share nothing, chains of up to seven nodes, a   *)
(* square, a star of three, scopes that overlap in two variables, and a    *)
(* scope that names a variable twice.                                      *)
MCEmittable(n) ==
    IF n = 2 THEN {Over(<<1>>, 2), Over(<<1, 2>>, 3), Over(<<3>>, 2), Over(<<2, 2>>, 2)}
    ELSE {Over(s, 2) : s \in {<<1, 2>>, <<2, 3>>, <<4, 3>>, <<1, 4>>, <<3>>, <<2, 1, 4>>}}

MCLossModel ==
    {[assignment |-> 1, new |-> 1, rejection |-> 1, abstention |-> 1],
     [assignment |-> 2, new |-> 1, rejection |-> 0, abstention |-> 1]}
=============================================================================
