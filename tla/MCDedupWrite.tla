---------------------------- MODULE MCDedupWrite ----------------------------
(* DedupWrite on small disks: four or eight tracks, a few logical blocks.  *)
EXTENDS DedupWrite, TLC

Contents == Permutations(Hashes)
AnyCell == LBAs \cup {NoLba}
NeverAnLba == {NoLba}
AnyAnswer == BOOLEAN
ReadsZero == {FALSE}
=============================================================================
