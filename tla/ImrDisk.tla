------------------------------- MODULE ImrDisk -------------------------------
(***************************************************************************)
(* The geometry of an interlaced magnetic recording disk as init_disk lays *)
(* it out.  A block fills a track, so a physical block address (pba) is a  *)
(* track number.  Even tracks are bottom tracks, odd ones top tracks.  The *)
(* allocator visits tracks in phases whose bounds init_disk computes.      *)
(*                                                                         *)
(* A definition named X_Bug is X as a plausible mistake would have it; it  *)
(* stands before X and is used only to test that the properties notice.    *)
(***************************************************************************)
EXTENDS Integers

CONSTANTS
  N,   (* report.max_track_num = report.max_block_num                      *)
  L    (* report.max_logical_block_num                                     *)

(* 512 tracks of 2 MB make a gigabyte, the unit disks are sized in, so the *)
(* number of tracks is a multiple of four.                                 *)
ASSUME TrackNumAssumption == N \in Nat \ {0} /\ N % 4 = 0
ASSUME LogicalNumAssumption == L \in Nat \ {0}

Tracks == 0 .. N - 1
LBAs == 0 .. L - 1

is_toptrack(t) == t % 2 = 1
Tops == {t \in Tracks : is_toptrack(t)}
Bottoms == {t \in Tracks : ~is_toptrack(t)}

(***************************************************************************)
(* Phase 1 walks all bottom tracks upwards, phase 2 every other top track  *)
(* downwards from the last one, phase 3 the remaining top tracks upwards,  *)
(* and phase 4 searches all top tracks.  x & ~3 is x - x % 4.              *)
(***************************************************************************)
max_track_index == N - 1
phase1_start == 0
phase1_end == IF is_toptrack(max_track_index) THEN max_track_index - 1 ELSE max_track_index
phase2_start == IF is_toptrack(max_track_index) THEN max_track_index ELSE max_track_index - 1
phase2_end_Bug == phase1_start + (phase2_start % 4) + 2
phase2_end == phase1_start + (phase2_start % 4)
phase3_start_Bug == IF phase2_end = phase1_start + 1 THEN phase1_start + 1 ELSE phase1_start + 3
phase3_start == IF phase2_end = phase1_start + 1 THEN phase1_start + 3 ELSE phase1_start + 1
phase4_start == 1
phase4_end_Bug == max_track_index - 1
phase4_end == IF is_toptrack(max_track_index) THEN max_track_index ELSE max_track_index - 1

(* phase1_total_block_num of is_in_storage and find_swapped_pba.           *)
BottomNum == IF N % 2 = 0 THEN N \div 2 ELSE N \div 2 + 1

(* The tracks a loop for (i = from; i <= to; i += 2) visits.               *)
EveryOther(from, to) == {t \in Tracks : from <= t /\ t <= to /\ (t - from) % 2 = 0}

(* The track an upward scan for a member of S stops at; none if S is empty. *)
FirstOf(S) == {t \in S : \A u \in S : t <= u}
=============================================================================
