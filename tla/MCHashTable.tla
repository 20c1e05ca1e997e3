----------------------------- MODULE MCHashTable -----------------------------
(* The hash index of a small disk, with colliding hashes. *)
EXTENDS HashTable, TLC

CONSTANTS h1, h2, h3, h4

(* Two hashes start at the last cell and wrap around; the empty hash starts *)
(* at cell 0, like the sum of no characters.                                *)
Codes == (h1 :> Size - 1) @@ (h2 :> Size - 1) @@ (h3 :> 1) @@ (h4 :> 0) @@ (NoHash :> 0)
=============================================================================
