---------------------------- MODULE MCDedupStore ----------------------------
(* The refinement on a small disk. *)
EXTENDS DedupStore, TLC

Contents == Permutations(Hashes)
NeverAnLba == {NoLba}
ReadsZero == {FALSE}
=============================================================================
