----------------------------- MODULE MCWorkspace -----------------------------
(***************************************************************************)
(* Two identities that nothing tells apart, with histories of two and up   *)
(* to three associations, at two times and in up to three versions; the    *)
(* owner resumes, clones and inserts twice.                                *)
(***************************************************************************)
EXTENDS Workspace, TLC

Symmetry == Permutations(Identity)
=============================================================================
