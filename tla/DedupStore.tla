------------------------------ MODULE DedupStore ------------------------------
(***************************************************************************)
(* DedupWrite implements LogicalStore for the traces it gets right.  The   *)
(* content of a logical block is read off the disk: its entry leads to a   *)
(* track, and the track holds the content.                                 *)
(***************************************************************************)
EXTENDS DedupWrite

CONSTANT InFlight   (* what a block that is being written holds: nothing certain *)

ASSUME InFlightAssumption == InFlight \notin Hashes \cup {NoHash}

(* The logical block a write in progress, or one that ran into a full      *)
(* disk, is about.                                                         *)
Writing == pc \in Running \cup Stopped

content ==
  [l \in LBAs |-> IF Writing /\ l = cur.lba THEN InFlight
                  ELSE IF ltp[l].valid THEN hash[ltp[l].pba] ELSE NoHash]

Store == INSTANCE LogicalStore WITH
  Blocks <- LBAs, Contents <- Hashes, Nothing <- NoHash, InFlight <- InFlight,
  content <- content, op <- IF Writing THEN <<cur.lba, cur.hash>> ELSE <<>>

(* Whatever moves underneath -- blocks shared, swapped between bottom and  *)
(* top tracks, taken over or trimed -- every logical block keeps its       *)
(* content until it is itself written or trimed (lba.c:614-770,            *)
(* pba.c:682-899, active_swap.c:8-122).                                    *)
KeepsContent == Store!StoreSpec
=============================================================================
