---------------------------- MODULE ImrDiskProofs ----------------------------
(***************************************************************************)
(* Facts about the geometry of every disk of whole gigabytes, for the      *)
(* proofs about the allocators.                                            *)
(***************************************************************************)
EXTENDS ImrDisk, TLAPS

(* What the phase bounds of init_disk come to on a disk of whole gigabytes. *)
LEMMA Geometry ==
  /\ N \in Nat /\ N >= 4
  /\ max_track_index = N - 1
  /\ phase1_start = 0 /\ phase1_end = N - 2
  /\ phase2_start = N - 1 /\ phase2_end = 3
  /\ phase3_start = 1
  /\ phase4_start = 1 /\ phase4_end = N - 1
<1>1. N \in Nat /\ N >= 4 /\ N % 4 = 0
  BY TrackNumAssumption
<1>2. (N - 1) % 2 = 1 /\ (N - 1) % 4 = 3
  BY <1>1
<1>3. QED
  BY <1>1, <1>2 DEF max_track_index, phase1_start, phase1_end, phase2_start, phase2_end,
    phase3_start, phase4_start, phase4_end, is_toptrack

(* Phase 2 goes down in steps of four and stops at track 3. *)
LEMMA FourBelow == \A k \in Nat : k % 4 = 3 /\ k # 3 => k - 4 \in Nat /\ (k - 4) % 4 = 3
  OBVIOUS

LEMMA TracksNat == Tracks \subseteq Nat
  BY Geometry DEF Tracks

(* The loops over every other track visit the bottom and the top tracks. *)
LEMMA EveryOtherBottom == EveryOther(phase1_start, phase1_end) = Bottoms
<1>1. N \in Nat /\ N % 4 = 0 /\ phase1_start = 0 /\ phase1_end = N - 2
  BY TrackNumAssumption, Geometry
<1>2. \A t \in 0 .. N - 1 : t % 2 # 1 <=> t <= N - 2 /\ t % 2 = 0
  BY <1>1
<1>3. QED
  BY <1>1, <1>2 DEF EveryOther, Bottoms, Tracks, is_toptrack

LEMMA EveryOtherTop == EveryOther(phase4_start, phase4_end) = Tops
  BY Geometry DEF EveryOther, Tops, Tracks, is_toptrack

LEMMA TopOrBottom == Tracks = Tops \cup Bottoms /\ Tops \cap Bottoms = {}
  BY DEF Tops, Bottoms

(* Bottom tracks are two apart. *)
LEMMA NextBottomTrack ==
  ASSUME NEW c \in Bottoms, NEW t \in Bottoms
  PROVE  /\ c # phase1_end => c + 2 \in Bottoms
         /\ t >= c <=> t = c \/ t >= c + 2
         /\ t <= phase1_end
<1>1. N \in Nat /\ N % 4 = 0 /\ phase1_end = N - 2
  BY TrackNumAssumption, Geometry
<1>2. N % 2 = 0
  BY <1>1
<1>3. c \in 0 .. N - 1 /\ t \in 0 .. N - 1 /\ c % 2 # 1 /\ t % 2 # 1
  BY DEF Bottoms, Tracks, is_toptrack
<1>4. c % 2 = 0 /\ t % 2 = 0 /\ (c + 2) % 2 = 0
  BY <1>1, <1>3
<1>5. QED
  BY <1>1, <1>2, <1>3, <1>4 DEF Bottoms, Tracks, is_toptrack

(* So are the tracks of phases 2 and 3, four apart. *)
LEMMA NextTopTrack ==
  /\ phase2_start \in Tops /\ phase2_start % 4 = 3
  /\ \A c \in Tops : c % 4 = 3 /\ c # phase2_end => c - 4 \in Tops /\ (c - 4) % 4 = 3
  /\ phase3_start <= N + 1 /\ phase3_start % 4 = 1
  /\ \A c \in Nat : c % 4 = 1 /\ c <= N => c + 4 <= N + 1 /\ (c + 4) % 4 = 1
  /\ phase4_start \in Tops
<1>1. N \in Nat /\ N % 4 = 0 /\ N >= 4
  BY TrackNumAssumption, Geometry
<1>2. phase2_start \in Tops /\ phase2_start % 4 = 3 /\ phase4_start \in Tops
  BY <1>1, Geometry DEF Tops, Tracks, is_toptrack
<1>3. \A c \in Tops : c % 4 = 3 /\ c # phase2_end => c - 4 \in Tops /\ (c - 4) % 4 = 3
  BY <1>1, Geometry DEF Tops, Tracks, is_toptrack
<1>4. \A c \in Nat : c % 4 = 1 /\ c <= N => c + 4 <= N + 1 /\ (c + 4) % 4 = 1
  BY <1>1
<1>5. QED
  BY <1>1, <1>2, <1>3, <1>4, Geometry
=============================================================================
