----------------------------- MODULE MCNewAlloc -----------------------------
(* NewAlloc on a disk of four tracks with a buffer of two or three blocks. *)
EXTENDS NewAlloc, TLC

Contents == Permutations(Hashes)
NeverAnLba == {NoLba}
ReadsZero == {FALSE}
EitherWay == BOOLEAN
AllKinds == Kinds
=============================================================================
