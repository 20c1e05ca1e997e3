--------------------------- MODULE DedupWriteProofs ---------------------------
(***************************************************************************)
(* What holds of DedupWrite for every disk size, every set of contents and *)
(* every trace: the invariants of the allocator and of the logical table,  *)
(* by the inductive invariant IInv.  One lemma says that steps preserve    *)
(* the types, one each that they preserve the two halves of the rest.      *)
(***************************************************************************)
EXTENDS DedupWrite, ImrDiskProofs, SequenceTheorems, FiniteSetTheorems

-----------------------------------------------------------------------------
(* Types.                                                                  *)

(* The count of blocks in use stays within its bound. *)
LEMMA UseBound == UseCap \in Nat /\ UseCap > 0
  BY Geometry DEF UseCap, BottomNum

LEMMA AddUseType ==
  ASSUME current_use \in 0 .. UseCap, NEW k \in Nat, AddUse(k)
  PROVE  current_use' \in 0 .. UseCap
  BY UseBound DEF AddUse

(* What is done to a list of owners yields a list of owners, of known length. *)
LEMMA GrownType ==
  ASSUME NEW s \in Seq(Cells)
  PROVE  /\ increase_storage_lba_capacity(s) \in Seq(Cells)
         /\ Len(increase_storage_lba_capacity(s)) = 2 * Len(s)
<1>1. Len(s) \in Nat
  BY LenProperties
<1>2. [i \in 1 .. Len(s) |-> NoLba] \in Seq(Cells) /\ Len([i \in 1 .. Len(s) |-> NoLba]) = Len(s)
  BY <1>1 DEF Cells
<1>3. QED
  BY <1>1, <1>2, ConcatProperties DEF increase_storage_lba_capacity

LEMMA CellType ==
  ASSUME NEW s \in Seq(Cells), NEW i
  PROVE  Cell(s, i) \in Cells
  BY ElementOfSeq DEF Cell, Cells

LEMMA DeleteAtType ==
  ASSUME NEW s \in Seq(Cells), NEW i, NEW k
  PROVE  DeleteAt(s, i, k) \in Seq(Cells) /\ Len(DeleteAt(s, i, k)) = Len(s)
<1>1. Len(s) \in Nat
  BY LenProperties
<1>2. \A j \in 1 .. Len(s) : (IF i <= j /\ j < k THEN Cell(s, j + 1) ELSE s[j]) \in Cells
  BY CellType, ElementOfSeq
<1>3. QED
  BY <1>1, <1>2 DEF DeleteAt

LEMMA PutType ==
  ASSUME NEW s \in Seq(Cells), NEW i, NEW x \in Cells
  PROVE  [s EXCEPT ![i] = x] \in Seq(Cells) /\ Len([s EXCEPT ![i] = x]) = Len(s)
<1>1. s \in [1 .. Len(s) -> Cells] /\ Len(s) \in Nat
  BY LenProperties
<1>2. [s EXCEPT ![i] = x] \in [1 .. Len(s) -> Cells]
  BY <1>1
<1>3. QED
  BY <1>1, <1>2

LEMMA MappedType ==
  ASSUME NEW p \in Tracks, NEW h \in Hashes
  PROVE  Mapped(p, h) \in Entries
  BY DEF Mapped, Entries

LEMMA FoundType ==
  ASSUME TypeOK, NEW p \in Tracks, NEW pass \in BOOLEAN, Found(p, pass)
  PROVE  cur' \in Instructions /\ pc' \in {"idle"} \cup Running \cup Stopped
  BY DEF TypeOK, Found, Instructions, Running

LEMMA SharedTopsType == find_empty_block_swap \subseteq Tops
  BY DEF find_empty_block_swap, FirstOf, SharedTops

LEMMA HoldingType == \A h : Holding(h) \subseteq Tracks
  BY DEF Holding, Scanned, EveryOther

LEMMA FlushedType ==
  ASSUME TypeOK
  PROVE  Cardinality({t \in gbtable : status[t] # "in_use"}) \in Nat
<1>1. IsFiniteSet(Tracks)
  BY Geometry, FS_Interval DEF Tracks
<1>2. {t \in gbtable : status[t] # "in_use"} \in SUBSET Tracks
  BY DEF TypeOK
<1>3. QED
  BY <1>1, <1>2, FS_Subset, FS_CardinalityType

LEMMA InitType == Init => TypeOK
<1> SUFFICES ASSUME Init PROVE TypeOK
  OBVIOUS
<1>1. 0 \in Tracks
  BY Geometry DEF Tracks
<1>2. <<NoLba, NoLba>> \in Seq(Cells)
  BY DEF Cells
<1>3. NoInstruction \in Instructions
  BY <1>1, LogicalNumAssumption, TraceAssumption DEF NoInstruction, Instructions
<1>4. QED
  BY <1>1, <1>2, <1>3, UseBound, Geometry DEF Init, TypeOK, Statuses, Entries, Allocators

(* An update, of a block in the logical table: in a lookup, where it has   *)
(* other content, or in a flush of the phase-1 buffer.                     *)
Updating == Searching /\ ~NeverWritten(Target) /\ (UpdateInPlace \/ UpdateSwapped)

LEMMA UpdateType ==
  ASSUME TypeOK, InProgress, Updating
  PROVE  TypeOK'
<1> USE DEF TypeOK
<1>1. Target \in LBAs /\ cur.hash \in Hashes /\ ltp[Target].pba \in Tracks /\ cur.pass \in BOOLEAN
  BY DEF Updating, Searching, InProgress, Running, Entries, Instructions
<1>2. CASE UpdateInPlace
  <2>1. ltp' \in [LBAs -> Entries]
    BY <1>1, <1>2, MappedType DEF UpdateInPlace
  <2>2. QED
    BY <1>1, <1>2, <2>1, FoundType DEF UpdateInPlace, blocks
<1>3. CASE UpdateSwapped
  <2>1. PICK b \in {ltp[Target].pba}, t \in find_empty_block_swap :
          /\ \E gt \in GarbageIn(t), gb \in GarbageIn(b) :
               ltp' = [ltp_table_swap(t, b, gt, gb) EXCEPT ![Target] = Mapped(t, cur.hash)]
          /\ status' = SwapIn([status EXCEPT ![b] = "in_use"], t, b)
          /\ AddUse(IF status[b] = "in_use" THEN 0 ELSE 1)
          /\ hash' = SwapIn(hash, t, b)
          /\ refs' = SwapIn(refs, t, b)
          /\ lba_list' = SwapIn(lba_list, t, b)
          /\ Found(t, cur.pass)
    BY <1>3 DEF UpdateSwapped
  <2>2. b \in Tracks /\ t \in Tracks
    BY <1>1, SharedTopsType DEF Tops
  <2>3. \A gt, gb : ltp_table_swap(t, b, gt, gb) \in [LBAs -> Entries]
    BY <2>2 DEF ltp_table_swap, Entries
  <2>4. ltp' \in [LBAs -> Entries]
    BY <1>1, <2>1, <2>2, <2>3, MappedType
  <2>5. status' \in [Tracks -> Statuses] /\ hash' \in [Tracks -> Hashes \cup {NoHash}]
    BY <2>1, <2>2 DEF SwapIn, Statuses
  <2>6. refs' \in [Tracks -> Nat] /\ lba_list' \in [Tracks -> Seq(Cells)]
    BY <2>1, <2>2 DEF SwapIn
  <2>7. current_use' \in 0 .. UseCap
    BY <2>1, AddUseType
  <2>8. QED
    BY <1>1, <1>3, <2>1, <2>2, <2>4, <2>5, <2>6, <2>7, FoundType DEF UpdateSwapped
<1>4. QED
  BY <1>2, <1>3 DEF Updating

LEMMA SearchType ==
  ASSUME TypeOK, InProgress, Search
  PROVE  TypeOK'
<1> USE DEF TypeOK
<1>1. CASE SearchOverwriteInPlace \/ SearchOverwriteSwapped
  BY <1>1, UpdateType DEF Updating, Overwrites, SearchOverwriteInPlace, SearchOverwriteSwapped
<1>3. CASE SearchRestore
  <2>1. Target \in LBAs /\ cur.hash \in Hashes /\ ltp[Target].pba \in Tracks
    BY <1>3 DEF SearchRestore, Searching, InProgress, Running, Entries
  <2>2. ltp' \in [LBAs -> Entries]
    BY <1>3, <2>1, MappedType DEF SearchRestore
  <2>3. QED
    BY <1>3, <2>1, <2>2, FoundType DEF SearchRestore, blocks
<1>4. CASE SearchRestoreMoved
  <2>1. Target \in LBAs /\ cur.hash \in Hashes /\ ltp[Target].pba \in Tracks
    BY <1>4 DEF SearchRestoreMoved, Searching, InProgress, Running, Entries
  <2>2. PICK p \in Tracks :
          /\ refs' = IF status[p] # "trimed" THEN [refs EXCEPT ![p] = @ + 1] ELSE refs
          /\ ltp' = [ltp EXCEPT ![Target] = Mapped(p, cur.hash)]
          /\ Found(p, TRUE)
    BY <1>4, <2>1, HoldingType DEF SearchRestoreMoved, FirstOf
  <2>3. ltp' \in [LBAs -> Entries] /\ refs' \in [Tracks -> Nat]
    BY <2>1, <2>2, MappedType
  <2>4. QED
    BY <1>4, <2>2, <2>3, FoundType DEF SearchRestoreMoved
<1>5. CASE SearchSame
  <2>1. ltp[Target].pba \in Tracks
    BY <1>5 DEF SearchSame, Searching, Entries
  <2>2. QED
    BY <1>5, <2>1, FoundType DEF SearchSame, blocks
<1>6. CASE SearchShare
  <2>1. Target \in LBAs /\ cur.hash \in Hashes /\ cur.pass \in BOOLEAN
    BY <1>6 DEF SearchShare, Searching, InProgress, Running, Instructions
  <2>2. PICK p \in Tracks :
          /\ refs' = [refs EXCEPT ![p] = @ + 1]
          /\ ltp' = [ltp EXCEPT ![Target] = Mapped(p, cur.hash)]
          /\ Found(p, cur.pass)
    BY <1>6, HoldingType DEF SearchShare, FirstOf
  <2>3. ltp' \in [LBAs -> Entries] /\ refs' \in [Tracks -> Nat]
    BY <2>1, <2>2, MappedType
  <2>4. QED
    BY <1>6, <2>1, <2>2, <2>3, FoundType DEF SearchShare
<1>7. CASE SearchTakeOver
  <2>1. Target \in LBAs /\ cur.hash \in Hashes
    BY <1>7 DEF SearchTakeOver, Searching, InProgress, Running
  <2>2. PICK p \in Tracks :
          /\ status' = [status EXCEPT ![p] = "in_use"]
          /\ lba_list' = [lba_list EXCEPT ![p][1] = Target]
          /\ ltp' = [ltp EXCEPT ![Target] = Mapped(p, cur.hash)]
          /\ Found(p, TRUE)
    BY <1>7, HoldingType DEF SearchTakeOver, FirstOf
  <2>3. [lba_list[p] EXCEPT ![1] = Target] \in Seq(Cells)
    BY <2>1, PutType DEF Cells
  <2>4. lba_list' \in [Tracks -> Seq(Cells)]
    BY <2>2, <2>3
  <2>5. ltp' \in [LBAs -> Entries] /\ status' \in [Tracks -> Statuses]
    BY <2>1, <2>2, MappedType DEF Statuses
  <2>6. QED
    BY <1>7, <2>2, <2>4, <2>5, FoundType DEF SearchTakeOver
<1>8. CASE SearchNew
  BY <1>8 DEF SearchNew, Running, blocks
<1>9. CASE SearchBeyond
  BY <1>9 DEF SearchBeyond, Stopped, blocks
<1>10. QED
  BY <1>1, <1>3, <1>4, <1>5, <1>6, <1>7, <1>8, <1>9 DEF Search

(* What the allocator does to its own record. *)
LEMMA AllocatorType ==
  ASSUME zinfo \in Allocators, NEW t \in Nat
  PROVE  /\ [zinfo EXCEPT !.current_track = t] \in Allocators
         /\ [zinfo EXCEPT !.current_track = @ + 2] \in Allocators
         /\ [zinfo EXCEPT !.current_track = @ + 4] \in Allocators
         /\ zinfo.current_track - 4 \in Nat => [zinfo EXCEPT !.current_track = @ - 4] \in Allocators
         /\ [zinfo EXCEPT !.phase1_is_full = TRUE] \in Allocators
         /\ [zinfo EXCEPT !.current_track = t, !.phase1_is_full = FALSE] \in Allocators
         /\ \A phase \in 1 .. 4 : [zinfo EXCEPT !.phases = phase, !.current_track = t] \in Allocators
<1>1. zinfo.current_track + 2 \in Nat /\ zinfo.current_track + 4 \in Nat
  BY DEF Allocators
<1>2. \A k \in Nat : [zinfo EXCEPT !.current_track = k] \in Allocators
  BY DEF Allocators
<1>3. [zinfo EXCEPT !.phase1_is_full = TRUE] \in Allocators
      /\ [zinfo EXCEPT !.current_track = t, !.phase1_is_full = FALSE] \in Allocators
  BY DEF Allocators
<1>4. \A phase \in 1 .. 4 : [zinfo EXCEPT !.phases = phase, !.current_track = t] \in Allocators
  BY DEF Allocators
<1>5. QED
  BY <1>1, <1>2, <1>3, <1>4

(* What a write in progress does to its locals. *)
LEMMA InstructionType ==
  ASSUME cur \in Instructions
  PROVE  /\ cur.i + 1 < cur.n => [cur EXCEPT !.i = @ + 1, !.pba = 0] \in Instructions
         /\ NoInstruction \in Instructions
         /\ \A l \in 0 .. L, n \in 1 .. MaxBlocks, h \in Hashes :
              [NoInstruction EXCEPT !.lba = l, !.n = n, !.hash = h] \in Instructions
<1>1. NoInstruction \in Instructions
  BY Geometry, LogicalNumAssumption, TraceAssumption DEF NoInstruction, Instructions, Tracks
<1>2. cur.i + 1 < cur.n => cur.i + 1 \in 0 .. MaxBlocks - 1
  BY TraceAssumption DEF Instructions
<1>3. 0 \in Tracks
  BY Geometry DEF Tracks
<1>4. \A k \in 0 .. MaxBlocks - 1 : [cur EXCEPT !.i = k, !.pba = 0] \in Instructions
  BY <1>3 DEF Instructions
<1>5. \A l \in 0 .. L, n \in 1 .. MaxBlocks, h \in Hashes :
        [NoInstruction EXCEPT !.lba = l, !.n = n, !.hash = h] \in Instructions
  BY <1>1 DEF Instructions
<1>6. QED
  BY <1>1, <1>2, <1>4, <1>5

LEMMA BookType ==
  ASSUME TypeOK, InProgress, pc = "alloc", NEW t \in Tracks, Book(t)
  PROVE  /\ status' \in [Tracks -> Statuses] /\ ltp' \in [LBAs -> Entries]
         /\ cur' \in Instructions /\ pc' \in {"idle"} \cup Running \cup Stopped
<1>1. Target \in LBAs /\ cur.hash \in Hashes /\ cur.pass \in BOOLEAN
  BY DEF TypeOK, InProgress, Running, Instructions
<1>2. status' \in [Tracks -> Statuses] /\ ltp' \in [LBAs -> Entries]
  BY <1>1, MappedType DEF Book, TypeOK, Statuses
<1>3. QED
  BY <1>1, <1>2, FoundType DEF Book

LEMMA TryType ==
  ASSUME TypeOK, InProgress, pc = "alloc", NEW t \in Tracks, TryTrack(t) \/ TryShared(t)
  PROVE  /\ status' \in [Tracks -> Statuses] /\ ltp' \in [LBAs -> Entries]
         /\ cur' \in Instructions /\ pc' \in {"idle"} \cup Running \cup Stopped
<1>1. CASE Book(t)
  BY <1>1, BookType
<1>2. CASE UNCHANGED <<status, ltp, pc, cur>>
  BY <1>2 DEF TypeOK
<1>3. QED
  BY <1>1, <1>2 DEF TryTrack, TryShared

(* In phase 1 the allocator tries a bottom track, in phases 2 and 3 a top  *)
(* track: never one off the disk.                                          *)
LEMMA TrackTried ==
  ASSUME TypeOK, AllocatorInv
  PROVE  /\ zinfo.phases = 1 => zinfo.current_track \in Bottoms
         /\ zinfo.phases = 2 => zinfo.current_track \in Tops
         /\ zinfo.phases = 3 /\ zinfo.current_track <= N => zinfo.current_track \in Tops
<1>1. N \in Nat /\ N % 4 = 0 /\ zinfo.current_track \in Nat
  BY TrackNumAssumption DEF TypeOK, Allocators
<1>2. ASSUME zinfo.current_track <= N, zinfo.current_track % 4 = 1
      PROVE  zinfo.current_track \in Tops
  <2>1. zinfo.current_track < N /\ zinfo.current_track % 2 = 1
    BY <1>1, <1>2
  <2>2. QED
    BY <1>1, <2>1 DEF Tops, Tracks, is_toptrack
<1>3. QED
  BY <1>2 DEF AllocatorInv, Phase1Frontier, TopPhases

LEMMA AllocType ==
  ASSUME TypeOK, AllocatorInv, InProgress, Alloc
  PROVE  TypeOK'
<1> USE DEF TypeOK
<1>0. pc = "alloc" /\ zinfo \in Allocators /\ zinfo.current_track \in Nat
  BY DEF Alloc, AllocPhase1, AllocPhase1Full, AllocPhase2, AllocPhase3, AllocPhase3Over,
    AllocPhase4, AllocDiskFull, Allocating, Allocators
<1>1. CASE AllocPhase1
  <2>1. zinfo' \in Allocators
    BY <1>0, <1>1, AllocatorType DEF AllocPhase1, NextBottom
  <2>2. zinfo.current_track \in Tracks
    BY <1>1, TrackTried DEF AllocPhase1, Allocating, Bottoms
  <2>3. QED
    BY <1>0, <1>1, <2>1, <2>2, TryType DEF AllocPhase1, AllocUnchanged
<1>2. CASE AllocPhase1Full
  <2>1. ASSUME NEW t \in Tracks, Book(t),
               zinfo' = [zinfo EXCEPT !.current_track = t, !.phase1_is_full = FALSE]
        PROVE  TypeOK'
    <3>1. zinfo' \in Allocators
      BY <1>0, <2>1, TracksNat, AllocatorType
    <3>2. QED
      BY <1>0, <1>2, <2>1, <3>1, BookType DEF AllocPhase1Full, AllocUnchanged
  <2>2. ASSUME TryTrack(zinfo.current_track),
               zinfo' = [zinfo EXCEPT !.phases = 2,
                           !.current_track = IF zinfo.current_track = phase1_end
                                             THEN phase2_start ELSE phase2_start + 2]
        PROVE  TypeOK'
    <3>1. zinfo' \in Allocators
      <4>1. phase2_start \in Nat /\ phase2_start + 2 \in Nat /\ 2 \in 1 .. 4
        BY Geometry
      <4>2. QED
        BY <1>0, <2>2, <4>1, AllocatorType
    <3>2. zinfo.current_track \in Tracks
      BY <1>2, TrackTried DEF AllocPhase1Full, Allocating, Bottoms
    <3>3. QED
      BY <1>0, <1>2, <2>2, <3>1, <3>2, TryType DEF AllocPhase1Full, AllocUnchanged
  <2>3. QED
    BY <1>2, <2>1, <2>2 DEF AllocPhase1Full, FirstOf, Free, EveryOther
<1>3. CASE AllocPhase2
  <2>1. zinfo.current_track \in Tops /\ zinfo.current_track % 4 = 3
    BY <1>3 DEF AllocPhase2, Allocating, AllocatorInv, TopPhases
  <2>2. zinfo' \in Allocators
    <3>1. zinfo.current_track # phase2_end => zinfo.current_track - 4 \in Nat
      <4>1. phase2_end = 3
        BY Geometry
      <4>2. QED
        BY <1>0, <2>1, <4>1, FourBelow
    <3>2. phase3_start \in Nat /\ 3 \in 1 .. 4
      BY Geometry
    <3>3. QED
      BY <1>0, <1>3, <3>1, <3>2, AllocatorType DEF AllocPhase2
  <2>3. QED
    BY <1>0, <1>3, <2>1, <2>2, TryType DEF AllocPhase2, AllocUnchanged, Tops
<1>4. CASE AllocPhase3
  <2>1. zinfo' \in Allocators
    BY <1>0, <1>4, AllocatorType DEF AllocPhase3
  <2>2. zinfo.current_track \in Tracks
    BY <1>4, TrackTried DEF AllocPhase3, Allocating, Tops
  <2>3. QED
    BY <1>0, <1>4, <2>1, <2>2, TryType DEF AllocPhase3, AllocUnchanged
<1>5. CASE AllocPhase3Over
  <2>1. phase4_start \in Nat /\ 4 \in 1 .. 4
    BY Geometry
  <2>2. zinfo' \in Allocators
    BY <1>0, <1>5, <2>1, AllocatorType DEF AllocPhase3Over
  <2>3. QED
    BY <1>5, <2>2 DEF AllocPhase3Over, AllocUnchanged, Stopped
<1>6. CASE AllocPhase4
  <2>1. PICK t \in Tracks : Book(t) /\ zinfo' = [zinfo EXCEPT !.current_track = t]
    BY <1>6 DEF AllocPhase4, FirstOf, Free, EveryOther
  <2>2. zinfo' \in Allocators
    BY <1>0, <2>1, TracksNat, AllocatorType
  <2>3. QED
    BY <1>0, <1>6, <2>1, <2>2, BookType DEF AllocPhase4, AllocUnchanged
<1>7. CASE AllocDiskFull
  BY <1>7 DEF AllocDiskFull, AllocUnchanged, Stopped
<1>8. QED
  BY <1>1, <1>2, <1>3, <1>4, <1>5, <1>6, <1>7 DEF Alloc

LEMMA StoreType ==
  ASSUME TypeOK, InProgress, StoreMismatch \/ StoreShared \/ StoreOwned \/ Flush
  PROVE  TypeOK'
<1> USE DEF TypeOK
<1>1. cur.pba \in Tracks /\ cur.lba \in 0 .. L /\ cur.hash \in Hashes \cup {NoHash}
  BY DEF Instructions
<1>2. NoInstruction \in Instructions
  BY InstructionType
<1>3. CASE StoreMismatch
  BY <1>3 DEF StoreMismatch, StoreUnchanged, Stopped
<1>4. CASE StoreShared
  <2> DEFINE s == lba_list[cur.pba]
             grown == IF refs[cur.pba] + 1 > Len(s) THEN increase_storage_lba_capacity(s) ELSE s
  <2>1. cur.lba \in Cells
    BY <1>4, <1>1, LogicalNumAssumption DEF StoreShared, InProgress, Target, LBAs, Cells,
      Instructions
  <2>2. grown \in Seq(Cells)
    BY <1>1, GrownType
  <2>3. \A i : [grown EXCEPT ![i] = cur.lba] \in Seq(Cells)
    BY <2>1, <2>2, PutType
  <2>4. lba_list' \in [Tracks -> Seq(Cells)]
    <3> HIDE DEF s, grown
    <3>1. PICK i : lba_list' = [lba_list EXCEPT ![cur.pba] =
                      IF i = 0 THEN [grown EXCEPT ![refs[cur.pba] + 1] = cur.lba]
                      ELSE IF i <= Len(grown) THEN [grown EXCEPT ![i] = cur.lba] ELSE grown]
      BY <1>4 DEF StoreShared, grown, s
    <3>2. QED
      BY <2>2, <2>3, <3>1, <1>1
  <2>5. QED
    BY <1>2, <1>4, <2>4 DEF StoreShared, StoreUnchanged
<1>5. CASE StoreOwned
  <2>1. Target \in Cells /\ cur.hash \in Hashes
    BY <1>5 DEF StoreOwned, InProgress, Cells, Running
  <2>2. [lba_list[cur.pba] EXCEPT ![1] = Target] \in Seq(Cells)
    BY <1>1, <2>1, PutType
  <2>3. hash' \in [Tracks -> Hashes \cup {NoHash}] /\ lba_list' \in [Tracks -> Seq(Cells)]
        /\ gbtable' \subseteq Tracks
    BY <1>1, <1>5, <2>1, <2>2 DEF StoreOwned
  <2>4. cur' \in Instructions /\ pc' \in {"idle"} \cup Running \cup Stopped
    BY <1>5, InstructionType DEF StoreOwned, Running
  <2>5. QED
    BY <1>5, <2>3, <2>4 DEF StoreOwned, StoreUnchanged
<1>6. CASE Flush
  <2>1. current_use' \in 0 .. UseCap
    BY <1>6, FlushedType, AddUseType DEF Flush
  <2>2. status' \in [Tracks -> Statuses]
    BY <1>6 DEF Flush, Statuses
  <2>3. QED
    BY <1>2, <1>6, <2>1, <2>2 DEF Flush
<1>7. QED
  BY <1>3, <1>4, <1>5, <1>6

LEMMA TrimType ==
  ASSUME TypeOK, NEW l \in LBAs, Trim(l)
  PROVE  TypeOK'
<1> USE DEF TypeOK
<1>1. ltp' \in [LBAs -> Entries]
  BY DEF Trim, TrimBadStatus, TrimNotListed, TrimListed, Trimming, Entries
<1>2. CASE TrimBadStatus(l)
  BY <1>1, <1>2 DEF TrimBadStatus, Trimming, Stopped
<1>3. CASE TrimNotListed(l)
  BY <1>1, <1>3 DEF TrimNotListed, Trimming, Stopped
<1>4. CASE TrimListed(l)
  <2> DEFINE p == ltp[l].pba
  <2>1. p \in Tracks
    BY DEF Entries
  <2>2. lba_list' \in [Tracks -> Seq(Cells)]
    BY <1>4, <2>1, DeleteAtType DEF TrimListed
  <2>3. CASE refs[p] > 0
    <3>1. refs' = [refs EXCEPT ![p] = @ - 1] /\ status' = status
      BY <1>4, <2>3 DEF TrimListed
    <3>2. refs[p] - 1 \in Nat
      BY <2>1, <2>3
    <3>3. refs' \in [Tracks -> Nat]
      BY <2>1, <3>1, <3>2
    <3>4. QED
      BY <1>1, <1>4, <2>2, <3>1, <3>3 DEF TrimListed, Trimming
  <2>4. CASE ~(refs[p] > 0)
    <3>1. refs' = refs /\ status' = [status EXCEPT ![p] = "trimed"]
      BY <1>4, <2>4 DEF TrimListed, Vacate
    <3>2. status' \in [Tracks -> Statuses]
      BY <2>1, <3>1 DEF Statuses
    <3>3. QED
      BY <1>1, <1>4, <2>2, <3>1, <3>2 DEF TrimListed, Trimming
  <2>5. QED
    BY <2>3, <2>4
<1>5. QED
  BY <1>2, <1>3, <1>4 DEF Trim

LEMMA StartType ==
  ASSUME TypeOK, NEW l \in 0 .. L, NEW n \in 1 .. MaxBlocks, NEW h \in Hashes,
         StartWrite(l, n, h)
  PROVE  TypeOK'
<1>1. cur' \in Instructions
  BY InstructionType DEF StartWrite, TypeOK
<1>2. pc' \in {"idle"} \cup Running \cup Stopped
  BY DEF StartWrite, Running, Stopped
<1>3. QED
  BY <1>1, <1>2 DEF TypeOK, StartWrite, blocks

LEMMA NextType ==
  ASSUME IInv, [Next]_vars
  PROVE  TypeOK'
<1>1. TypeOK /\ AllocatorInv /\ InProgress
  BY DEF IInv, UseInv
<1>2. CASE \E l \in 0 .. L, n \in 1 .. MaxBlocks, h \in Hashes : StartWrite(l, n, h)
  BY <1>1, <1>2, StartType
<1>3. CASE \E l \in LBAs : Trim(l)
  BY <1>1, <1>3, TrimType
<1>4. CASE Progress
  BY <1>1, <1>4, SearchType, AllocType, StoreType DEF Progress
<1>5. CASE UNCHANGED vars
  BY <1>1, <1>5 DEF TypeOK, vars
<1>6. QED
  BY <1>2, <1>3, <1>4, <1>5 DEF Next

-----------------------------------------------------------------------------
(* Which tracks are free.                                                  *)

(* An entry that leads anywhere leads to an allocated track. *)
LEMMA EntryAllocated ==
  ASSUME TypeOK, MappedAllocated, NEW l \in LBAs, ~NeverWritten(l)
  PROVE  ltp[l].pba \in Tracks /\ status[ltp[l].pba] # "free"
  BY DEF TypeOK, Entries, MappedAllocated, NeverWritten, Deleted, Present, ValidInUse

LEMMA HoldingAllocated ==
  ASSUME TypeOK, HashAllocated, NEW h \in Hashes, NEW t \in Holding(h)
  PROVE  t \in Tracks /\ status[t] # "free"
  BY HoldingType, HashAssumption DEF Holding, HashAllocated

(* The two tracks a swap exchanges are both allocated, before and after. *)
LEMMA SwapAllocated ==
  ASSUME TypeOK, MappedAllocated, Searching, ~NeverWritten(Target), UpdateSwapped
  PROVE  \E b, t \in Tracks :
           /\ b = ltp[Target].pba /\ status[b] # "free" /\ status[t] = "in_use"
           /\ \E gt \in GarbageIn(t), gb \in GarbageIn(b) :
                ltp' = [ltp_table_swap(t, b, gt, gb) EXCEPT ![Target] = Mapped(t, cur.hash)]
           /\ status' = SwapIn([status EXCEPT ![b] = "in_use"], t, b)
           /\ hash' = SwapIn(hash, t, b)
           /\ refs' = SwapIn(refs, t, b)
           /\ lba_list' = SwapIn(lba_list, t, b)
           /\ Found(t, cur.pass)
           /\ refs[b] = 0
<1>2. ltp[Target].pba \in Tracks /\ status[ltp[Target].pba] # "free"
  BY EntryAllocated DEF Searching
<1>3. \A t \in find_empty_block_swap : t \in Tracks /\ status[t] = "in_use"
  BY DEF find_empty_block_swap, FirstOf, SharedTops, Tops
<1>4. QED
  BY <1>2, <1>3 DEF UpdateSwapped

SameFree == \A t \in Tracks : status'[t] = "free" <=> status[t] = "free"

LEMMA UpdateFree ==
  ASSUME TypeOK, UseInv, Updating
  PROVE  SameFree
<1> USE DEF SameFree
<1>1. CASE UpdateInPlace
  BY <1>1 DEF UpdateInPlace, blocks
<1>2. CASE UpdateSwapped
  <2>1. PICK b, t \in Tracks :
          /\ status[b] # "free" /\ status[t] = "in_use"
          /\ status' = SwapIn([status EXCEPT ![b] = "in_use"], t, b)
    BY <1>2, SwapAllocated DEF UseInv, Updating
  <2>2. QED
    BY <2>1 DEF SwapIn, TypeOK
<1>3. QED
  BY <1>1, <1>2 DEF Updating

(* Looking a block up allocates and frees nothing. *)
LEMMA SearchFree ==
  ASSUME TypeOK, UseInv, Search
  PROVE  SameFree
<1> USE DEF SameFree
<1>1. CASE SearchOverwriteSwapped
  BY <1>1, UpdateFree DEF Updating, Overwrites, SearchOverwriteSwapped
<1>2. CASE SearchTakeOver
  BY <1>2 DEF SearchTakeOver, TypeOK
<1>3. CASE ~SearchOverwriteSwapped /\ ~SearchTakeOver
  BY <1>3 DEF Search, Overwrites, SearchOverwriteInPlace, UpdateInPlace, SearchRestore, SearchRestoreMoved, SearchSame,
    SearchShare, SearchNew, SearchBeyond, blocks
<1>4. QED
  BY <1>1, <1>2, <1>3

(* Nor does storing a block, flushing the batch, trimming or starting. *)
LEMMA StoreFree ==
  ASSUME TypeOK, UseInv, StoreMismatch \/ StoreShared \/ StoreOwned \/ Flush
  PROVE  SameFree
<1>1. CASE Flush
  BY <1>1 DEF SameFree, Flush, UseInv, BatchAllocated, TypeOK
<1>2. CASE ~Flush
  BY <1>2 DEF SameFree, StoreMismatch, StoreShared, StoreOwned, StoreUnchanged
<1>3. QED
  BY <1>1, <1>2

LEMMA TrimFree ==
  ASSUME TypeOK, NEW l \in LBAs, Trim(l)
  PROVE  SameFree
  BY DEF SameFree, Trim, TrimBadStatus, TrimNotListed, TrimListed, Vacate, TypeOK

(* Booking a free track is the only way a track stops being free. *)
LEMMA TriedFree ==
  ASSUME TypeOK, NEW t \in Tracks, TryTrack(t) \/ TryShared(t) \/ Book(t)
  PROVE  /\ \A u \in Tracks \ {t} : status'[u] = status[u]
         /\ status'[t] \in {"booked", status[t]}
  BY DEF TypeOK, TryTrack, TryShared, Book

(* The allocator's invariant is about free tracks and its own record. *)
LEMMA AllocatorKept ==
  ASSUME AllocatorInv, SameFree, zinfo' = zinfo, pc' # "disk_full"
  PROVE  AllocatorInv'
  BY DEF AllocatorInv, Phase1Frontier, TopPhases, FullMeansFull, SameFree, Bottoms

-----------------------------------------------------------------------------
(* The allocator.                                                          *)

(* Iterations of the allocator's loop keep its invariant. *)
LEMMA AllocAllocator ==
  ASSUME TypeOK, AllocatorInv, Alloc
  PROVE  AllocatorInv'
<1>0. pc = "alloc" /\ zinfo \in Allocators /\ zinfo.current_track \in Nat
  BY DEF Alloc, AllocPhase1, AllocPhase1Full, AllocPhase2, AllocPhase3, AllocPhase3Over,
    AllocPhase4, AllocDiskFull, Allocating, Allocators, TypeOK
<1>1. CASE AllocPhase1
  <2> DEFINE c == zinfo.current_track
  <2>1. c \in Bottoms /\ c \in Tracks /\ zinfo.phases = 1 /\ ~zinfo.phase1_is_full
    BY <1>1, TrackTried DEF AllocPhase1, Allocating, Bottoms
  <2>2. \A t \in Tracks : status[t] = "free" <=> is_toptrack(t) \/ t >= c
    BY <2>1 DEF AllocatorInv, Phase1Frontier
  <2>3. status[c] = "free"
    BY <1>0, <2>1, <2>2
  <2>4. status' = [status EXCEPT ![c] = "booked"] /\ pc' = "store"
    BY <1>1, <2>3 DEF AllocPhase1, TryTrack, Book, Found
  <2>5. \A t \in Tracks : status'[t] = "free" <=> is_toptrack(t) \/ (t >= c /\ t # c)
    BY <2>1, <2>2, <2>4 DEF TypeOK, Bottoms
  <2>6. CASE c = phase1_end
    <3>1. zinfo'.phases = 1 /\ zinfo'.current_track = c /\ zinfo'.phase1_is_full
      BY <1>0, <1>1, <2>1, <2>6 DEF AllocPhase1, NextBottom, Allocators
    <3>2. \A t \in Bottoms : ~(t >= c /\ t # c)
      <4>1. \A t \in Bottoms : t <= phase1_end
        BY <2>1, NextBottomTrack
      <4>2. QED
        BY <1>0, <2>6, <4>1, TracksNat DEF Bottoms
    <3>3. \A t \in Tracks : status'[t] = "free" <=> is_toptrack(t)
      BY <2>5, <3>2 DEF Bottoms
    <3>4. QED
      BY <2>1, <2>4, <2>6, <3>1, <3>3 DEF AllocatorInv, Phase1Frontier, TopPhases, FullMeansFull
  <2>7. CASE c # phase1_end
    <3>1. zinfo'.phases = 1 /\ zinfo'.current_track = c + 2 /\ ~zinfo'.phase1_is_full
      BY <1>0, <1>1, <2>1, <2>7 DEF AllocPhase1, NextBottom, Allocators
    <3>2. c + 2 \in Bottoms
      BY <2>1, <2>7, NextBottomTrack
    <3>3. \A t \in Bottoms : t >= c /\ t # c <=> t >= c + 2
      <4>1. \A t \in Bottoms : t >= c <=> t = c \/ t >= c + 2
        BY <2>1, NextBottomTrack
      <4>2. QED
        BY <1>0, <4>1
    <3>4. \A t \in Tracks : status'[t] = "free" <=> is_toptrack(t) \/ t >= c + 2
      BY <2>5, <3>3 DEF Bottoms
    <3>5. QED
      BY <2>4, <3>1, <3>2, <3>4 DEF AllocatorInv, Phase1Frontier, TopPhases, FullMeansFull
  <2>8. QED
    BY <2>6, <2>7
<1>2. CASE AllocPhase1Full
  <2>1. zinfo.phases = 1 /\ zinfo.phase1_is_full /\ zinfo.current_track = phase1_end
        /\ zinfo.current_track \in Bottoms
    BY <1>2 DEF AllocPhase1Full, Allocating, AllocatorInv, Phase1Frontier
  <2>2. \A t \in Bottoms : status[t] # "free"
    BY <2>1 DEF AllocatorInv, Phase1Frontier, Bottoms
  <2>3. Free(EveryOther(phase1_start, phase1_end)) = {}
    BY <2>2, EveryOtherBottom DEF Free
  <2>4. TryTrack(zinfo.current_track)
        /\ zinfo' = [zinfo EXCEPT !.phases = 2, !.current_track = phase2_start]
    BY <1>2, <2>1, <2>3 DEF AllocPhase1Full
  <2>5. status' = status /\ pc' = pc
    BY <2>1, <2>2, <2>4 DEF TryTrack
  <2>6. zinfo'.phases = 2 /\ zinfo'.current_track = phase2_start
    BY <1>0, <2>4 DEF Allocators
  <2>7. QED
    BY <1>0, <2>2, <2>5, <2>6, NextTopTrack DEF AllocatorInv, Phase1Frontier, TopPhases, FullMeansFull
<1>3. ASSUME zinfo.phases \in {2, 3}, zinfo.current_track \in Tops,
             TryShared(zinfo.current_track)
      PROVE  (\A t \in Bottoms : status'[t] # "free") /\ pc' # "disk_full"
  <2>1. \A t \in Bottoms : status[t] # "free"
    BY <1>3 DEF AllocatorInv, TopPhases
  <2>2. zinfo.current_track \in Tracks /\ zinfo.current_track \notin Bottoms
    BY <1>3, TopOrBottom
  <2>3. \A u \in Tracks \ {zinfo.current_track} : status'[u] = status[u]
    BY <1>3, <2>2, TriedFree
  <2>4. pc' # "disk_full"
    BY <1>0, <1>3 DEF TryShared, TryTrack, Book, Found
  <2>5. QED
    BY <2>1, <2>2, <2>3, <2>4, TopOrBottom
<1>4. CASE AllocPhase2
  <2>1. zinfo.phases = 2 /\ zinfo.current_track \in Tops /\ zinfo.current_track % 4 = 3
        /\ TryShared(zinfo.current_track)
    BY <1>4 DEF AllocPhase2, Allocating, AllocatorInv, TopPhases
  <2>2. CASE zinfo.current_track = phase2_end
    <3>1. zinfo'.phases = 3 /\ zinfo'.current_track = phase3_start
      BY <1>0, <1>4, <2>2 DEF AllocPhase2, Allocators
    <3>2. QED
      BY <1>3, <2>1, <3>1, NextTopTrack DEF AllocatorInv, Phase1Frontier, TopPhases, FullMeansFull
  <2>3. CASE zinfo.current_track # phase2_end
    <3>1. zinfo'.phases = 2 /\ zinfo'.current_track = zinfo.current_track - 4
      BY <1>0, <1>4, <2>1, <2>3 DEF AllocPhase2, Allocators
    <3>2. QED
      BY <1>3, <2>1, <2>3, <3>1, NextTopTrack DEF AllocatorInv, Phase1Frontier, TopPhases, FullMeansFull
  <2>4. QED
    BY <2>2, <2>3
<1>5. CASE AllocPhase3
  <2>1. zinfo.phases = 3 /\ zinfo.current_track <= N /\ zinfo.current_track % 4 = 1
        /\ TryShared(zinfo.current_track)
    BY <1>5 DEF AllocPhase3, Allocating, AllocatorInv, TopPhases
  <2>2. zinfo.current_track \in Tops
    BY <2>1, TrackTried
  <2>3. zinfo'.phases = 3 /\ zinfo'.current_track = zinfo.current_track + 4
    BY <1>0, <1>5, <2>1 DEF AllocPhase3, Allocators
  <2>4. QED
    BY <1>0, <1>3, <2>1, <2>2, <2>3, NextTopTrack
      DEF AllocatorInv, Phase1Frontier, TopPhases, FullMeansFull
<1>6. CASE AllocPhase3Over
  <2>1. \A t \in Bottoms : status'[t] # "free"
    BY <1>6 DEF AllocPhase3Over, Allocating, AllocatorInv, TopPhases
  <2>2. zinfo'.phases = 4 /\ zinfo'.current_track = phase4_start
    BY <1>0, <1>6 DEF AllocPhase3Over, Allocators
  <2>3. pc' # "disk_full"
    BY <1>0, <1>6 DEF AllocPhase3Over
  <2>4. QED
    BY <2>1, <2>2, <2>3, NextTopTrack DEF AllocatorInv, Phase1Frontier, TopPhases, FullMeansFull
<1>7. CASE AllocPhase4
  <2>1. PICK t \in Tops : Book(t) /\ zinfo' = [zinfo EXCEPT !.current_track = t]
    BY <1>7, EveryOtherTop DEF AllocPhase4, FirstOf, Free
  <2>2. \A u \in Bottoms : status'[u] = status[u]
    BY <2>1, TriedFree, TopOrBottom
  <2>3. zinfo.phases = 4 /\ \A u \in Bottoms : status[u] # "free"
    BY <1>7 DEF AllocPhase4, Allocating, AllocatorInv, TopPhases
  <2>4. zinfo'.phases = 4 /\ zinfo'.current_track = t /\ pc' # "disk_full"
    BY <1>0, <2>1, <2>3 DEF Book, Found, Allocators
  <2>5. QED
    BY <2>1, <2>2, <2>3, <2>4 DEF AllocatorInv, Phase1Frontier, TopPhases, FullMeansFull
<1>8. CASE AllocDiskFull
  <2>1. zinfo.phases = 4 /\ zinfo' = zinfo /\ status' = status
    BY <1>8 DEF AllocDiskFull, Allocating
  <2>2. \A t \in Tracks : status[t] # "free"
    BY <1>8, <2>1, EveryOtherTop, TopOrBottom DEF AllocDiskFull, Free, AllocatorInv, TopPhases
  <2>3. QED
    BY <2>1, <2>2 DEF AllocatorInv, Phase1Frontier, TopPhases, FullMeansFull, Free
<1>9. QED
  BY <1>1, <1>2, <1>4, <1>5, <1>6, <1>7, <1>8 DEF Alloc

LEMMA NextAllocator ==
  ASSUME IInv, [Next]_vars
  PROVE  AllocatorInv'
<1>1. TypeOK /\ AllocatorInv /\ UseInv
  BY DEF IInv
<1>2. CASE \E l \in 0 .. L, n \in 1 .. MaxBlocks, h \in Hashes : StartWrite(l, n, h)
  <2>1. SameFree /\ zinfo' = zinfo /\ pc' # "disk_full"
    BY <1>2 DEF StartWrite, SameFree, blocks
  <2>2. QED
    BY <1>1, <2>1, AllocatorKept
<1>3. CASE \E l \in LBAs : Trim(l)
  <2>1. SameFree
    BY <1>1, <1>3, TrimFree
  <2>2. zinfo' = zinfo /\ pc' # "disk_full"
    BY <1>3 DEF Trim, TrimBadStatus, TrimNotListed, TrimListed, Trimming
  <2>3. QED
    BY <1>1, <2>1, <2>2, AllocatorKept
<1>4. CASE Search
  <2>1. SameFree
    BY <1>1, <1>4, SearchFree
  <2>2. zinfo' = zinfo /\ pc' # "disk_full"
    BY <1>4 DEF Search, Overwrites, SearchOverwriteInPlace, UpdateInPlace, SearchOverwriteSwapped, UpdateSwapped, SearchRestore,
      SearchRestoreMoved, SearchSame, SearchShare, SearchTakeOver, SearchNew, SearchBeyond, Found
  <2>3. QED
    BY <1>1, <2>1, <2>2, AllocatorKept
<1>5. CASE Alloc
  BY <1>1, <1>5, AllocAllocator
<1>6. CASE StoreMismatch \/ StoreShared \/ StoreOwned \/ Flush
  <2>1. SameFree
    BY <1>1, <1>6, StoreFree
  <2>2. zinfo' = zinfo /\ pc' # "disk_full"
    BY <1>6 DEF StoreMismatch, StoreShared, StoreOwned, StoreUnchanged, Flush
  <2>3. QED
    BY <1>1, <2>1, <2>2, AllocatorKept
<1>7. CASE UNCHANGED vars
  BY <1>1, <1>7 DEF vars, AllocatorInv, Phase1Frontier, TopPhases, FullMeansFull, Free
<1>8. QED
  BY <1>2, <1>3, <1>4, <1>5, <1>6, <1>7 DEF Next, Progress

-----------------------------------------------------------------------------
(* The logical table.                                                      *)

(* An allocated track stays allocated. *)
LEMMA StaysAllocated ==
  ASSUME IInv, [Next]_vars
  PROVE  \A t \in Tracks : status[t] # "free" => status'[t] # "free"
<1>1. TypeOK /\ AllocatorInv /\ UseInv
  BY DEF IInv
<1>2. ASSUME SameFree PROVE \A t \in Tracks : status[t] # "free" => status'[t] # "free"
  BY <1>2 DEF SameFree
<1>3. CASE \E l \in 0 .. L, n \in 1 .. MaxBlocks, h \in Hashes : StartWrite(l, n, h)
  BY <1>3 DEF StartWrite, blocks
<1>4. CASE \E l \in LBAs : Trim(l)
  BY <1>1, <1>2, <1>4, TrimFree
<1>5. CASE Search
  BY <1>1, <1>2, <1>5, SearchFree
<1>6. CASE StoreMismatch \/ StoreShared \/ StoreOwned \/ Flush
  BY <1>1, <1>2, <1>6, StoreFree
<1>7. CASE Alloc
  <2>1. CASE status' = status
    BY <2>1
  <2>2. CASE status' # status
    <3>1. PICK t \in Tracks : TryTrack(t) \/ TryShared(t) \/ Book(t)
      BY <1>1, <1>7, <2>2, TrackTried, TopOrBottom
        DEF Alloc, AllocPhase1, AllocPhase1Full, AllocPhase2, AllocPhase3, AllocPhase3Over,
            AllocPhase4, AllocDiskFull, Allocating, FirstOf, Free, EveryOther
    <3>2. (\A u \in Tracks \ {t} : status'[u] = status[u]) /\ status'[t] \in {"booked", status[t]}
      BY <1>1, <3>1, TriedFree
    <3>3. QED
      BY <3>2
  <2>3. QED
    BY <2>1, <2>2
<1>8. CASE UNCHANGED vars
  BY <1>8 DEF vars
<1>9. QED
  BY <1>3, <1>4, <1>5, <1>6, <1>7, <1>8 DEF Next, Progress

(* The entry a lookup or an allocation writes leads to the track it found. *)
LEMMA MappedKept ==
  ASSUME TypeOK, UseInv, pc \in {"search", "alloc"}, Target \in LBAs,
         \A t \in Tracks : status[t] # "free" => status'[t] # "free",
         NEW p \in Tracks, status'[p] # "free", NEW pass,
         ltp' = [ltp EXCEPT ![Target] = Mapped(p, cur.hash)], Found(p, pass),
         hash' = hash, gbtable' = gbtable
  PROVE  UseInv'
<1>1. MappedAllocated'
  BY DEF UseInv, MappedAllocated, Mapped, TypeOK, Entries
<1>2. HashAllocated' /\ BatchAllocated'
  BY DEF UseInv, HashAllocated, BatchAllocated, TypeOK
<1>3. cur'.i = cur.i /\ cur'.n = cur.n /\ cur'.hash = cur.hash /\ cur'.lba = cur.lba /\ cur'.pba = p
  BY DEF Found, TypeOK, Instructions
<1>4. InProgress'
  BY <1>3 DEF UseInv, InProgress, Found, Running, Target
<1>5. QED
  BY <1>1, <1>2, <1>4 DEF UseInv

Stays == \A t \in Tracks : status[t] # "free" => status'[t] # "free"

LEMMA UpdateUse ==
  ASSUME TypeOK, UseInv, Stays, Updating
  PROVE  UseInv'
<1> USE DEF Stays
<1>0. pc = "search" /\ cur.hash \in Hashes /\ Target \in LBAs
  BY DEF UseInv, InProgress, Running, Updating, Searching
<1>1. CASE UpdateInPlace
  <2>1. ltp[Target].pba \in Tracks /\ status[ltp[Target].pba] # "free"
    BY <1>0, EntryAllocated DEF UseInv, Updating
  <2>2. QED
    BY <1>0, <1>1, <2>1, MappedKept DEF UpdateInPlace, blocks
<1>2. CASE UpdateSwapped
  <2>1. Target \in LBAs
    BY <1>0
  <2>2. PICK b, t \in Tracks :
          /\ status[b] # "free" /\ status[t] = "in_use"
          /\ \E gt \in GarbageIn(t), gb \in GarbageIn(b) :
               ltp' = [ltp_table_swap(t, b, gt, gb) EXCEPT ![Target] = Mapped(t, cur.hash)]
          /\ hash' = SwapIn(hash, t, b)
          /\ Found(t, cur.pass)
    BY <1>0, <1>2, SwapAllocated DEF UseInv, Updating
  <2>3. PICK gt, gb :
          ltp' = [ltp_table_swap(t, b, gt, gb) EXCEPT ![Target] = Mapped(t, cur.hash)]
    BY <2>2
  <2>4. ASSUME NEW l \in LBAs
        PROVE  \/ ltp'[l].pba \in {t, b}
               \/ ltp'[l] = ltp[l]
    <3>1. ltp_table_swap(t, b, gt, gb)[l].pba \in {t, b} \/ ltp_table_swap(t, b, gt, gb)[l] = ltp[l]
      BY DEF ltp_table_swap, TypeOK, Entries
    <3>2. ltp'[l] \in {ltp_table_swap(t, b, gt, gb)[l], Mapped(t, cur.hash)}
      BY <2>1, <2>3 DEF ltp_table_swap
    <3>3. QED
      BY <3>1, <3>2 DEF Mapped
  <2>5. MappedAllocated'
    BY <2>2, <2>4 DEF UseInv, MappedAllocated, TypeOK, Entries
  <2>6. HashAllocated'
    BY <2>2 DEF UseInv, HashAllocated, SwapIn, TypeOK
  <2>7. BatchAllocated'
    BY <1>2 DEF UseInv, BatchAllocated, TypeOK, UpdateSwapped
  <2>8. cur'.i = cur.i /\ cur'.n = cur.n /\ cur'.hash = cur.hash /\ cur'.lba = cur.lba
        /\ cur'.pba = t /\ pc' = "store"
    BY <2>2 DEF Found, TypeOK, Instructions
  <2>9. InProgress'
    BY <1>0, <2>1, <2>2, <2>8 DEF UseInv, InProgress, Target
  <2>10. QED
    BY <2>5, <2>6, <2>7, <2>9 DEF UseInv
<1>3. QED
  BY <1>1, <1>2 DEF Updating

LEMMA SearchUse ==
  ASSUME TypeOK, UseInv, Stays, Search
  PROVE  UseInv'
<1> USE DEF Stays
<1>0. pc = "search" /\ cur.hash \in Hashes
  BY DEF UseInv, InProgress, Running, Search, Overwrites, SearchOverwriteInPlace, UpdateInPlace, SearchOverwriteSwapped, UpdateSwapped,
    SearchRestore, SearchRestoreMoved, SearchSame, SearchShare, SearchTakeOver, SearchNew,
    SearchBeyond, Searching
<1>1. CASE SearchOverwriteInPlace \/ SearchOverwriteSwapped
  BY <1>1, UpdateUse DEF Updating, Overwrites, SearchOverwriteInPlace, SearchOverwriteSwapped
<1>2. CASE SearchRestore
  <2>1. Target \in LBAs /\ ~NeverWritten(Target)
    BY <1>2 DEF SearchRestore, Searching, NeverWritten, Present, Deleted
  <2>2. ltp[Target].pba \in Tracks /\ status[ltp[Target].pba] # "free"
    BY <2>1, EntryAllocated DEF UseInv
  <2>3. QED
    BY <1>0, <1>2, <2>1, <2>2, MappedKept DEF SearchRestore, blocks
<1>3. CASE SearchRestoreMoved
  <2>1. Target \in LBAs /\ ~NeverWritten(Target)
    BY <1>3 DEF SearchRestoreMoved, Searching, NeverWritten, Present, Deleted
  <2>2. ltp[Target].pba \in Tracks /\ status[ltp[Target].pba] # "free"
    BY <2>1, EntryAllocated DEF UseInv
  <2>3. \A t \in Holding(cur.hash) : t \in Tracks
    BY HoldingType
  <2>4. PICK p \in Tracks :
          /\ status[p] # "free"
          /\ ltp' = [ltp EXCEPT ![Target] = Mapped(p, cur.hash)]
          /\ Found(p, TRUE)
    BY <1>3, <2>2, <2>3 DEF SearchRestoreMoved, FirstOf
  <2>5. QED
    BY <1>0, <1>3, <2>1, <2>4, MappedKept DEF SearchRestoreMoved
<1>4. CASE SearchSame
  <2>1. Target \in LBAs /\ ~NeverWritten(Target)
    BY <1>4 DEF SearchSame, Searching, NeverWritten, Present, Deleted
  <2>2. ltp[Target].pba \in Tracks /\ status[ltp[Target].pba] # "free"
    BY <2>1, EntryAllocated DEF UseInv
  <2>3. cur'.i = cur.i /\ cur'.n = cur.n /\ cur'.hash = cur.hash /\ cur'.lba = cur.lba
        /\ cur'.pba = ltp[Target].pba /\ pc' = "store"
    BY <1>4 DEF SearchSame, Found, TypeOK, Instructions
  <2>4. InProgress'
    BY <1>0, <1>4, <2>1, <2>2, <2>3 DEF UseInv, InProgress, Target, SearchSame, blocks
  <2>5. QED
    BY <1>4, <2>4 DEF UseInv, MappedAllocated, HashAllocated, BatchAllocated, SearchSame, blocks
<1>5. CASE SearchShare \/ SearchTakeOver
  <2>1. Target \in LBAs
    BY <1>5 DEF SearchShare, SearchTakeOver, Searching
  <2>2. PICK p \in Holding(cur.hash), pass \in {cur.pass, TRUE} :
          /\ ltp' = [ltp EXCEPT ![Target] = Mapped(p, cur.hash)]
          /\ Found(p, pass)
    BY <1>5 DEF SearchShare, SearchTakeOver, FirstOf
  <2>3. p \in Tracks /\ status[p] # "free"
    BY <1>0, HoldingAllocated DEF UseInv
  <2>4. QED
    BY <1>0, <1>5, <2>1, <2>2, <2>3, MappedKept DEF SearchShare, SearchTakeOver
<1>6. CASE SearchNew
  BY <1>0, <1>6 DEF SearchNew, Searching, UseInv, MappedAllocated, HashAllocated, BatchAllocated,
    InProgress, Target, blocks
<1>7. CASE SearchBeyond
  BY <1>7 DEF SearchBeyond, UseInv, MappedAllocated, HashAllocated, BatchAllocated,
    InProgress, Target, blocks, Running
<1>8. QED
  BY <1>1, <1>2, <1>3, <1>4, <1>5, <1>6, <1>7 DEF Search

LEMMA AllocUse ==
  ASSUME TypeOK, AllocatorInv, UseInv, Stays, Alloc
  PROVE  UseInv'
<1>0. pc = "alloc" /\ Target \in LBAs
  BY DEF Alloc, AllocPhase1, AllocPhase1Full, AllocPhase2, AllocPhase3, AllocPhase3Over,
    AllocPhase4, AllocDiskFull, Allocating, UseInv, InProgress
<1>1. hash' = hash /\ gbtable' = gbtable
  BY DEF Alloc, AllocPhase1, AllocPhase1Full, AllocPhase2, AllocPhase3, AllocPhase3Over,
    AllocPhase4, AllocDiskFull, AllocUnchanged
<1>2. ASSUME NEW t \in Tracks, Book(t)
      PROVE  UseInv'
  <2>1. status'[t] # "free"
    BY <1>2 DEF Book, TypeOK
  <2>2. QED
    BY <1>0, <1>1, <1>2, <2>1, MappedKept DEF Book, Stays
<1>3. CASE UNCHANGED <<status, ltp, cur>> /\ pc' \in {"alloc", "undefined", "disk_full"}
  BY <1>0, <1>1, <1>3 DEF UseInv, MappedAllocated, HashAllocated, BatchAllocated, InProgress,
    Target, Running
<1>4. ASSUME NEW t \in Tracks, TryTrack(t) \/ TryShared(t)
      PROVE  UseInv'
  BY <1>0, <1>2, <1>3, <1>4 DEF TryTrack, TryShared
<1>5. CASE AllocPhase1 \/ AllocPhase1Full
  BY <1>2, <1>4, <1>5, TrackTried, TopOrBottom
    DEF AllocPhase1, AllocPhase1Full, Allocating, FirstOf, Free, EveryOther
<1>6. CASE AllocPhase2 \/ AllocPhase3
  BY <1>4, <1>6, TrackTried, TopOrBottom DEF AllocPhase2, AllocPhase3, Allocating
<1>7. CASE AllocPhase3Over \/ AllocDiskFull
  BY <1>0, <1>3, <1>7 DEF AllocPhase3Over, AllocDiskFull
<1>8. CASE AllocPhase4
  BY <1>2, <1>8 DEF AllocPhase4, FirstOf, Free, EveryOther
<1>9. QED
  BY <1>5, <1>6, <1>7, <1>8 DEF Alloc

LEMMA StoreUse ==
  ASSUME TypeOK, UseInv, Stays, StoreMismatch \/ StoreShared \/ StoreOwned \/ Flush
  PROVE  UseInv'
<1>1. MappedAllocated'
  BY DEF UseInv, MappedAllocated, StoreMismatch, StoreShared, StoreOwned, Flush, StoreUnchanged,
    Stays, TypeOK, Entries
<1>2. HashAllocated' /\ BatchAllocated'
  <2>1. CASE StoreOwned
    <3>1. cur.pba \in Tracks /\ status[cur.pba] # "free" /\ status' = status
      BY <2>1 DEF StoreOwned, StoreUnchanged, UseInv, InProgress, TypeOK, Instructions
    <3>2. hash' \in {hash, [hash EXCEPT ![cur.pba] = cur.hash]}
          /\ gbtable' \subseteq gbtable \cup {cur.pba}
      BY <2>1 DEF StoreOwned
    <3>3. QED
      BY <3>1, <3>2 DEF UseInv, HashAllocated, BatchAllocated, TypeOK
  <2>2. CASE ~StoreOwned
    BY <2>2 DEF UseInv, HashAllocated, BatchAllocated, StoreMismatch, StoreShared, Flush,
      StoreUnchanged, Stays, TypeOK
  <2>3. QED
    BY <2>1, <2>2
<1>3. InProgress'
  <2>1. CASE StoreMismatch
    BY <2>1 DEF StoreMismatch, UseInv, InProgress, Running
  <2>2. CASE StoreShared \/ Flush
    BY <2>2 DEF StoreShared, Flush, InProgress, Running, NoInstruction
  <2>3. CASE StoreOwned /\ cur.i + 1 < cur.n
    <3>1. cur'.i = cur.i + 1 /\ cur'.n = cur.n /\ cur'.hash = cur.hash /\ pc' = "search"
      BY <2>3 DEF StoreOwned, TypeOK, Instructions
    <3>2. QED
      BY <2>3, <3>1 DEF UseInv, InProgress, Running, StoreOwned
  <2>4. CASE StoreOwned /\ ~(cur.i + 1 < cur.n)
    BY <2>4 DEF StoreOwned, UseInv, InProgress, Running
  <2>5. QED
    BY <2>1, <2>2, <2>3, <2>4
<1>4. QED
  BY <1>1, <1>2, <1>3 DEF UseInv

LEMMA TrimUse ==
  ASSUME TypeOK, UseInv, Stays, NEW l \in LBAs, Trim(l)
  PROVE  UseInv'
<1>1. ltp' = [ltp EXCEPT ![l].trim = TRUE, ![l].valid = FALSE] /\ ltp[l].valid
      /\ UNCHANGED <<hash, gbtable, cur>> /\ pc' \notin Running
  BY DEF Trim, TrimBadStatus, TrimNotListed, TrimListed, Trimming, Running
<1>2. \A m \in LBAs : ltp'[m].pba = ltp[m].pba /\ (m # l => ltp'[m] = ltp[m])
  BY <1>1 DEF TypeOK, Entries
<1>3. MappedAllocated'
  BY <1>1, <1>2 DEF UseInv, MappedAllocated, Stays, TypeOK, Entries
<1>4. HashAllocated' /\ BatchAllocated'
  BY <1>1 DEF UseInv, HashAllocated, BatchAllocated, Stays, TypeOK
<1>5. InProgress'
  BY <1>1 DEF UseInv, InProgress, Running
<1>6. QED
  BY <1>3, <1>4, <1>5 DEF UseInv

LEMMA StartUse ==
  ASSUME TypeOK, UseInv, NEW l \in 0 .. L, NEW n \in 1 .. MaxBlocks, NEW h \in Hashes,
         StartWrite(l, n, h)
  PROVE  UseInv'
<1>1. cur'.i = 0 /\ cur'.n = n /\ cur'.hash = h /\ pc' \notin {"alloc", "store"}
  BY DEF StartWrite, NoInstruction
<1>2. InProgress'
  BY <1>1, TraceAssumption DEF InProgress
<1>3. QED
  BY <1>2 DEF UseInv, MappedAllocated, HashAllocated, BatchAllocated, StartWrite, blocks

LEMMA NextUse ==
  ASSUME IInv, [Next]_vars
  PROVE  UseInv'
<1>1. TypeOK /\ AllocatorInv /\ UseInv /\ Stays
  BY StaysAllocated DEF IInv, Stays
<1>2. CASE \E l \in 0 .. L, n \in 1 .. MaxBlocks, h \in Hashes : StartWrite(l, n, h)
  BY <1>1, <1>2, StartUse
<1>3. CASE \E l \in LBAs : Trim(l)
  BY <1>1, <1>3, TrimUse
<1>4. CASE Progress
  BY <1>1, <1>4, SearchUse, AllocUse, StoreUse DEF Progress
<1>5. CASE UNCHANGED vars
  BY <1>1, <1>5 DEF vars, UseInv, MappedAllocated, HashAllocated, BatchAllocated, InProgress, Target
<1>6. QED
  BY <1>2, <1>3, <1>4, <1>5 DEF Next

-----------------------------------------------------------------------------
(* The lists of owners.                                                    *)

(* Before a lookup, and after the store, every count is below its list's length. *)
Fits == \A p \in Tracks : Len(lba_list[p]) > 0 /\ (refs[p] > 0 => refs[p] < Len(lba_list[p]))

LEMMA FitsEnough ==
  ASSUME TypeOK
  PROVE  /\ Fits => ListInv
         /\ ListInv /\ pc \notin {"store", "mismatch"} => Fits
<1>1. \A p \in Tracks : refs[p] \in Nat /\ Len(lba_list[p]) \in Nat
  BY LenProperties DEF TypeOK
<1>2. QED
  BY <1>1 DEF Fits, ListInv

(* An update may exchange two tracks' lists and counts. *)
LEMMA UpdateLists ==
  ASSUME TypeOK, UseInv, Updating
  PROVE  \A p \in Tracks : \E q \in Tracks : refs'[p] = refs[q] /\ lba_list'[p] = lba_list[q]
<1>1. CASE UpdateInPlace
  BY <1>1 DEF UpdateInPlace, blocks
<1>2. CASE UpdateSwapped
  <2>1. PICK b, t \in Tracks : refs' = SwapIn(refs, t, b) /\ lba_list' = SwapIn(lba_list, t, b)
    BY <1>2, SwapAllocated DEF UseInv, Updating
  <2>2. \A p \in Tracks : \E q \in Tracks : refs'[p] = refs[q] /\ lba_list'[p] = lba_list[q]
    BY <2>1 DEF SwapIn, TypeOK
  <2>3. QED
    BY <2>2
<1>3. QED
  BY <1>1, <1>2 DEF Updating

LEMMA SearchList ==
  ASSUME TypeOK, TypeOK', UseInv, ListInv, Search
  PROVE  ListInv'
<1>0. Fits /\ \A p \in Tracks : refs[p] \in Nat /\ Len(lba_list[p]) \in Nat
  <2>1. pc = "search"
    BY DEF Search, Overwrites, SearchOverwriteInPlace, UpdateInPlace, SearchOverwriteSwapped, UpdateSwapped, SearchRestore,
      SearchRestoreMoved, SearchSame, SearchShare, SearchTakeOver, SearchNew, SearchBeyond, Searching
  <2>2. QED
    BY <2>1, FitsEnough, LenProperties DEF TypeOK
<1>1. CASE UNCHANGED <<refs, lba_list>>
  BY <1>0, <1>1 DEF Fits, ListInv
<1>2. CASE SearchOverwriteInPlace \/ SearchOverwriteSwapped
  <2>1. \A p \in Tracks : \E q \in Tracks : refs'[p] = refs[q] /\ lba_list'[p] = lba_list[q]
    BY <1>2, UpdateLists DEF Updating, Overwrites, SearchOverwriteInPlace, SearchOverwriteSwapped
  <2>2. \A p \in Tracks :
          /\ refs'[p] \in Nat /\ Len(lba_list'[p]) \in Nat
          /\ Len(lba_list'[p]) > 0 /\ (refs'[p] > 0 => refs'[p] < Len(lba_list'[p]))
    BY <1>0, <2>1 DEF Fits
  <2>3. QED
    BY <2>2 DEF ListInv
<1>3. CASE SearchRestoreMoved \/ SearchShare
  <2>1. PICK p : \/ refs' = [refs EXCEPT ![p] = @ + 1] /\ cur'.pba = p /\ pc' = "store"
                 \/ refs' = refs
    BY <1>3 DEF SearchRestoreMoved, SearchShare, Found, TypeOK, Instructions
  <2>2. lba_list' = lba_list
    BY <1>3 DEF SearchRestoreMoved, SearchShare
  <2>3. CASE refs' = refs
    BY <1>1, <2>2, <2>3
  <2>4. CASE refs' # refs
    <3>1. cur'.pba = p /\ pc' = "store" /\ refs' = [refs EXCEPT ![p] = @ + 1]
      BY <2>1, <2>4
    <3>2. \A q \in Tracks : refs'[q] = IF q = p THEN refs[q] + 1 ELSE refs[q]
      BY <3>1 DEF TypeOK
    <3>3. \A k, n \in Nat : k > 0 /\ (n > 0 => n < k) /\ n + 1 >= k => n + 1 = k
      OBVIOUS
    <3>4. QED
      BY <1>0, <2>2, <3>1, <3>2, <3>3 DEF Fits, ListInv
  <2>5. QED
    BY <2>3, <2>4
<1>4. CASE SearchTakeOver
  <2>1. PICK p \in Tracks : lba_list' = [lba_list EXCEPT ![p][1] = Target] /\ refs' = refs
    BY <1>4, HoldingType DEF SearchTakeOver, FirstOf
  <2>2. Target \in Cells
    BY <1>4 DEF SearchTakeOver, Searching, Cells
  <2>3. Len([lba_list[p] EXCEPT ![1] = Target]) = Len(lba_list[p])
    BY <2>2, PutType DEF TypeOK
  <2>4. \A q \in Tracks : Len(lba_list'[q]) = Len(lba_list[q])
    BY <2>1, <2>3 DEF TypeOK
  <2>5. QED
    BY <1>0, <2>1, <2>4 DEF Fits, ListInv
<1>5. QED
  BY <1>1, <1>2, <1>3, <1>4 DEF Search, Overwrites, SearchOverwriteInPlace, UpdateInPlace, SearchRestore, SearchSame,
    SearchNew, SearchBeyond, blocks

LEMMA StoreList ==
  ASSUME TypeOK, UseInv, ListInv, StoreMismatch \/ StoreShared \/ StoreOwned \/ Flush
  PROVE  ListInv'
<1>0. \A p \in Tracks : refs[p] \in Nat /\ Len(lba_list[p]) \in Nat /\ lba_list[p] \in Seq(Cells)
  BY LenProperties DEF TypeOK
<1>p. cur.pba \in Tracks
  BY DEF TypeOK, Instructions
<1>1. CASE StoreMismatch
  BY <1>1 DEF StoreMismatch, StoreUnchanged, ListInv
<1>2. CASE Flush
  <2>1. Fits
    BY <1>2, FitsEnough DEF Flush
  <2>2. QED
    BY <1>0, <1>2, <2>1 DEF Flush, Fits, ListInv
<1>3. CASE StoreShared
  <2> DEFINE s == lba_list[cur.pba]
             k == refs[cur.pba]
             grown == IF k + 1 > Len(s) THEN increase_storage_lba_capacity(s) ELSE s
  <2>1. cur.lba \in Cells
    BY <1>3, LogicalNumAssumption DEF StoreShared, UseInv, InProgress, Target, LBAs, Cells,
      TypeOK, Instructions
  <2>2. k \in Nat /\ k > 0 /\ k <= Len(s) /\ Len(s) \in Nat /\ s \in Seq(Cells)
    BY <1>0, <1>p, <1>3 DEF ListInv, StoreShared
  <2>3. grown \in Seq(Cells) /\ k < Len(grown)
    <3>1. Len(increase_storage_lba_capacity(s)) = 2 * Len(s)
          /\ increase_storage_lba_capacity(s) \in Seq(Cells)
      BY <2>2, GrownType
    <3>2. QED
      BY <2>2, <3>1
  <2>4. \A i : Len([grown EXCEPT ![i] = cur.lba]) = Len(grown)
    BY <2>1, <2>3, PutType
  <2>5. PICK i : lba_list' = [lba_list EXCEPT ![cur.pba] =
                   IF i = 0 THEN [grown EXCEPT ![k + 1] = cur.lba]
                   ELSE IF i <= Len(grown) THEN [grown EXCEPT ![i] = cur.lba] ELSE grown]
    BY <1>3 DEF StoreShared
  <2> HIDE DEF s, grown
  <2>6. Len(lba_list'[cur.pba]) = Len(grown) /\ \A p \in Tracks \ {cur.pba} : lba_list'[p] = lba_list[p]
    BY <1>p, <2>4, <2>5 DEF TypeOK
  <2>7. refs' = refs
    BY <1>3 DEF StoreShared, StoreUnchanged
  <2>8. \A p \in Tracks \ {cur.pba} : Len(lba_list[p]) > 0 /\ (refs[p] > 0 => refs[p] < Len(lba_list[p]))
    BY <1>0 DEF ListInv
  <2>9. Fits'
    BY <1>0, <2>2, <2>3, <2>6, <2>7, <2>8 DEF Fits
  <2>10. \A p \in Tracks : Len(lba_list'[p]) \in Nat
    BY <1>0, <2>3, <2>6, LenProperties
  <2>11. QED
    BY <1>0, <2>7, <2>9, <2>10 DEF Fits, ListInv
<1>4. CASE StoreOwned
  <2>1. refs' = refs /\ refs[cur.pba] = 0
    BY <1>4 DEF StoreOwned, StoreUnchanged
  <2>2. Target \in Cells
    BY <1>4 DEF StoreOwned, UseInv, InProgress, Cells
  <2>3. Len([lba_list[cur.pba] EXCEPT ![1] = Target]) = Len(lba_list[cur.pba])
    BY <1>0, <1>p, <2>2, PutType
  <2>4. \A p \in Tracks : Len(lba_list'[p]) = Len(lba_list[p])
    BY <1>p, <1>4, <2>3 DEF StoreOwned, TypeOK
  <2>5. \A p \in Tracks : Len(lba_list[p]) > 0 /\ (refs[p] > 0 => refs[p] < Len(lba_list[p]))
    BY <1>0, <1>p, <2>1 DEF ListInv
  <2>6. QED
    BY <1>0, <2>1, <2>4, <2>5 DEF ListInv
<1>5. QED
  BY <1>1, <1>2, <1>3, <1>4

LEMMA TrimList ==
  ASSUME TypeOK, ListInv, NEW l \in LBAs, Trim(l)
  PROVE  ListInv'
<1>0. \A p \in Tracks : refs[p] \in Nat /\ Len(lba_list[p]) \in Nat /\ lba_list[p] \in Seq(Cells)
  BY LenProperties DEF TypeOK
<1>1. Fits
  BY FitsEnough DEF Trim, TrimBadStatus, TrimNotListed, TrimListed, Trimming
<1>2. CASE UNCHANGED <<refs, lba_list>>
  BY <1>0, <1>1, <1>2 DEF Fits, ListInv
<1>3. CASE TrimListed(l)
  <2> DEFINE p == ltp[l].pba
  <2>1. p \in Tracks
    BY DEF TypeOK, Entries
  <2>2. PICK i : lba_list' = [lba_list EXCEPT ![p] = DeleteAt(@, i, refs[p] + 1)]
    BY <1>3 DEF TrimListed
  <2>3. \A q \in Tracks : Len(lba_list'[q]) = Len(lba_list[q])
    BY <1>0, <2>1, <2>2, DeleteAtType DEF TypeOK
  <2>4. \A q \in Tracks : refs'[q] \in {refs[q], refs[q] - 1}
    BY <1>3, <2>1 DEF TrimListed, Vacate, TypeOK
  <2>5. \A k, n, m \in Int : n < k /\ m \in {n, n - 1} => m < k
    OBVIOUS
  <2>6. QED
    BY <1>0, <1>1, <2>3, <2>4, <2>5 DEF Fits, ListInv
<1>4. QED
  BY <1>2, <1>3 DEF Trim, TrimBadStatus, TrimNotListed

LEMMA NextList ==
  ASSUME IInv, [Next]_vars
  PROVE  ListInv'
<1>1. TypeOK /\ TypeOK' /\ UseInv /\ ListInv
  BY NextType DEF IInv
<1>2. CASE Alloc \/ \E l \in 0 .. L, n \in 1 .. MaxBlocks, h \in Hashes : StartWrite(l, n, h)
  <2>1. pc \notin {"store", "mismatch"} /\ UNCHANGED <<refs, lba_list>>
    BY <1>2 DEF StartWrite, blocks, Alloc, AllocPhase1, AllocPhase1Full, AllocPhase2, AllocPhase3,
      AllocPhase3Over, AllocPhase4, AllocDiskFull, Allocating, AllocUnchanged
  <2>2. Fits
    BY <1>1, <2>1, FitsEnough
  <2>3. Fits'
    BY <2>1, <2>2 DEF Fits
  <2>4. QED
    BY <1>1, <2>3, <2>1, <2>2 DEF ListInv, Fits, TypeOK
<1>3. CASE \E l \in LBAs : Trim(l)
  BY <1>1, <1>3, TrimList
<1>4. CASE Search \/ StoreMismatch \/ StoreShared \/ StoreOwned \/ Flush
  BY <1>1, <1>4, SearchList, StoreList
<1>5. CASE UNCHANGED vars
  BY <1>1, <1>5 DEF vars, ListInv
<1>6. QED
  BY <1>2, <1>3, <1>4, <1>5 DEF Next, Progress

-----------------------------------------------------------------------------
(* The theorems.                                                           *)

LEMMA InitInv == Init => IInv
<1> SUFFICES ASSUME Init PROVE IInv
  OBVIOUS
<1>1. TypeOK
  BY InitType
<1>2. AllocatorInv
  <2>1. 0 \in Bottoms
    BY Geometry DEF Bottoms, Tracks, is_toptrack
  <2>2. Bottoms \subseteq Nat
    BY TracksNat DEF Bottoms
  <2>3. QED
    BY <2>1, <2>2, Geometry, TracksNat
      DEF Init, AllocatorInv, Phase1Frontier, TopPhases, FullMeansFull, Bottoms
<1>3. UseInv
  BY TraceAssumption DEF Init, UseInv, MappedAllocated, HashAllocated, BatchAllocated, InProgress,
    NoInstruction, Running
<1>4. ListInv
  <2>1. Len(<<NoLba, NoLba>>) = 2
    OBVIOUS
  <2>2. QED
    BY <2>1 DEF Init, ListInv
<1>5. QED
  BY <1>1, <1>2, <1>3, <1>4 DEF IInv

LEMMA NextInv == IInv /\ [Next]_vars => IInv'
  BY NextType, NextAllocator, NextUse, NextList DEF IInv

(* The inductive invariant holds in every reachable state. *)
THEOREM InductiveInvariant == Spec => []IInv
<1>1. QED
  BY InitInv, NextInv, PTL DEF Spec

(* No step ever leaves the types: counts do not go below zero, the allocator *)
(* never tries a track off the disk (lba.c:614-770, pba.c:39-258).           *)
THEOREM TypeCorrect == Spec => []TypeOK
<1>1. IInv => TypeOK
  BY DEF IInv
<1>2. QED
  BY <1>1, InductiveInvariant, PTL

(* On every disk phase 1 hands out the bottom tracks in order and ends with *)
(* none left, and each later phase keeps to its own top tracks              *)
(* (pba.c:102-189, lba.c:170-201).                                          *)
THEOREM PhasesInOrder == Spec => [](Phase1Frontier /\ TopPhases)
<1>1. IInv => Phase1Frontier /\ TopPhases
  BY DEF IInv, AllocatorInv
<1>2. QED
  BY <1>1, InductiveInvariant, PTL

(* On every disk the allocator gives up only when no track is free: what     *)
(* phases 2 and 3 skip, phase 4 finds (pba.c:133-227).                       *)
THEOREM GivesUpOnlyWhenFull == Spec => []FullMeansFull
<1>1. IInv => FullMeansFull
  BY DEF IInv, AllocatorInv
<1>2. QED
  BY <1>1, InductiveInvariant, PTL

(* In every trace, the ones the program gets wrong included, a logical block  *)
(* that was written leads to a track that was allocated (pba.c:682-899).      *)
THEOREM TableLeadsToAllocated == Spec => []MappedAllocated
<1>1. IInv => MappedAllocated
  BY DEF IInv, UseInv
<1>2. QED
  BY <1>1, InductiveInvariant, PTL

(* No list of owners outgrows its array between instructions, however many    *)
(* logical blocks share a track (lba.c:574-584, 657-661).                     *)
THEOREM ListsFit == Spec => []ListFits
<1>1. IInv => ListFits
  <2> SUFFICES ASSUME IInv, pc = "idle", NEW p \in Tracks
               PROVE  refs[p] < Len(lba_list[p])
    BY DEF ListFits
  <2>1. TypeOK /\ ListInv
    BY DEF IInv
  <2>2. refs[p] \in Nat /\ Len(lba_list[p]) \in Nat
    BY <2>1, LenProperties DEF TypeOK
  <2>3. QED
    BY <2>1, <2>2 DEF ListInv
<1>2. QED
  BY <1>1, InductiveInvariant, PTL

(* No step hands an allocated track back: neither a trim, nor a swap, nor a   *)
(* block changing owners (lba.c:723-770, active_swap.c:8-60).                 *)
THEOREM TracksStayAllocated == Spec => NeverFreed
<1>1. IInv /\ [Next]_vars => [\A t \in Tracks : status[t] # "free" => status'[t] # "free"]_status
  BY StaysAllocated
<1>2. QED
  BY <1>1, InductiveInvariant, PTL DEF Spec, NeverFreed

(* On every disk each later phase keeps to its own half of the top tracks,    *)
(* and all bottom tracks are taken by then (pba.c:133-189, lba.c:170-201).    *)
THEOREM LaterPhasesKeepToTops == Spec => []TopPhases
<1>1. IInv => TopPhases
  BY DEF IInv, AllocatorInv
<1>2. QED
  BY <1>1, InductiveInvariant, PTL

-----------------------------------------------------------------------------
(* Every write ends.                                                       *)

(* The lexicographic order, spelled out for four numbers. *)
LEMMA LessAtOne ==
  ASSUME NEW a, NEW b, NEW c, NEW d, NEW w, NEW x, NEW y, NEW z,
         \/ a < w
         \/ a = w /\ b < x
         \/ a = w /\ b = x /\ c < y
         \/ a = w /\ b = x /\ c = y /\ d < z
  PROVE  LessWork(<<a, b, c, d>>, <<w, x, y, z>>)
<1> DEFINE v == <<a, b, c, d>>
           u == <<w, x, y, z>>
<1>1. Len(v) = 4 /\ v[1] = a /\ v[2] = b /\ v[3] = c /\ v[4] = d
      /\ u[1] = w /\ u[2] = x /\ u[3] = y /\ u[4] = z
  OBVIOUS
<1> SUFFICES \E i \in 1 .. 4 : v[i] < u[i] /\ \A j \in 1 .. i - 1 : v[j] = u[j]
  BY <1>1 DEF LessWork
<1> HIDE DEF v, u
<1>2. CASE a < w
  BY <1>1, <1>2
<1>3. CASE a = w /\ b < x
  <2>1. v[2] < u[2] /\ \A j \in 1 .. 2 - 1 : v[j] = u[j]
    BY <1>1, <1>3
  <2>2. QED
    BY <2>1
<1>4. CASE a = w /\ b = x /\ c < y
  <2>1. v[3] < u[3] /\ \A j \in 1 .. 3 - 1 : v[j] = u[j]
    BY <1>1, <1>4
  <2>2. QED
    BY <2>1
<1>5. CASE a = w /\ b = x /\ c = y /\ d < z
  <2>1. v[4] < u[4] /\ \A j \in 1 .. 4 - 1 : v[j] = u[j]
    BY <1>1, <1>5
  <2>2. QED
    BY <2>1
<1>6. QED
  BY <1>2, <1>3, <1>4, <1>5

(* The measure is made of natural numbers. *)
WorkIsNat == /\ cur.n - cur.i \in Nat /\ StagesLeft \in Nat /\ PhasesLeft \in Nat
             /\ TracksLeft(zinfo.current_track) \in Nat

LEMMA WorkNat == IInv => WorkIsNat
<1> SUFFICES ASSUME IInv PROVE WorkIsNat
  OBVIOUS
<1>1. TypeOK /\ AllocatorInv /\ InProgress
  BY DEF IInv, UseInv
<1>2. cur.n \in Nat /\ cur.i \in Nat /\ cur.i < cur.n
  BY <1>1, TraceAssumption DEF TypeOK, Instructions, InProgress
<1>3. zinfo.phases \in 1 .. 4 /\ zinfo.current_track \in Nat
  BY <1>1 DEF TypeOK, Allocators
<1>4. N \in Nat
  BY TrackNumAssumption
<1>5. zinfo.phases = 1 => zinfo.current_track < N
  BY <1>1, <1>4, TrackTried DEF Bottoms, Tracks
<1>6. zinfo.phases = 3 => zinfo.current_track <= N + 1
  BY <1>1 DEF AllocatorInv, TopPhases
<1>7. TracksLeft(zinfo.current_track) \in Nat
  BY <1>3, <1>4, <1>5, <1>6 DEF TracksLeft
<1>8. QED
  BY <1>2, <1>3, <1>7 DEF WorkIsNat, StagesLeft, PhasesLeft

(* An iteration that books nothing passes a track or a phase by. *)
LEMMA RoundShorter ==
  ASSUME TypeOK, AllocatorInv, Alloc, pc' = "alloc"
  PROVE  /\ cur' = cur
         /\ \/ PhasesLeft' < PhasesLeft
            \/ /\ PhasesLeft' = PhasesLeft
               /\ TracksLeft(zinfo.current_track)' < TracksLeft(zinfo.current_track)
<1>1. pc = "alloc" /\ zinfo.phases \in 1 .. 4 /\ zinfo.current_track \in Nat
      /\ zinfo \in Allocators /\ N \in Nat /\ zinfo.phase1_is_full \in BOOLEAN
  BY TrackNumAssumption DEF Alloc, AllocPhase1, AllocPhase1Full, AllocPhase2, AllocPhase3,
    AllocPhase3Over, AllocPhase4, AllocDiskFull, Allocating, Allocators, TypeOK
<1>2. \A t : ~Book(t)
  BY DEF Book, Found
<1>3. cur' = cur
  BY <1>2 DEF Alloc, AllocPhase1, AllocPhase1Full, AllocPhase2, AllocPhase3,
    AllocPhase3Over, AllocPhase4, AllocDiskFull, TryShared, TryTrack
<1>4. CASE AllocPhase1
  <2>1. zinfo.phases = 1 /\ ~zinfo.phase1_is_full /\ zinfo' = NextBottom(zinfo)
    BY <1>4 DEF AllocPhase1, Allocating
  <2>2. zinfo.current_track < N
    BY <1>1, <2>1, TrackTried DEF Bottoms, Tracks
  <2>3. zinfo'.phases = 1
        /\ \/ zinfo'.current_track = zinfo.current_track /\ zinfo'.phase1_is_full
           \/ zinfo'.current_track = zinfo.current_track + 2 /\ ~zinfo'.phase1_is_full
    BY <1>1, <2>1 DEF NextBottom, Allocators
  <2>4. QED
    BY <1>1, <1>3, <2>1, <2>2, <2>3 DEF PhasesLeft, TracksLeft
<1>5. CASE AllocPhase1Full
  <2>1. zinfo'.phases = 2 /\ zinfo.phases = 1
    BY <1>1, <1>2, <1>5 DEF AllocPhase1Full, Allocating, Allocators
  <2>2. QED
    BY <1>1, <1>3, <2>1 DEF PhasesLeft
<1>6. CASE AllocPhase2
  <2>1. zinfo.phases = 2
    BY <1>6 DEF AllocPhase2, Allocating
  <2>2. \/ zinfo'.phases = 3
        \/ zinfo'.phases = 2 /\ zinfo'.current_track = zinfo.current_track - 4
    BY <1>1, <1>6, <2>1 DEF AllocPhase2, Allocators
  <2>3. QED
    BY <1>1, <1>3, <2>1, <2>2 DEF PhasesLeft, TracksLeft
<1>7. CASE AllocPhase3
  <2>1. zinfo.phases = 3 /\ zinfo'.phases = 3 /\ zinfo'.current_track = zinfo.current_track + 4
    BY <1>1, <1>7 DEF AllocPhase3, Allocating, Allocators
  <2>2. QED
    BY <1>1, <1>3, <2>1 DEF PhasesLeft, TracksLeft
<1>8. CASE AllocPhase3Over
  <2>1. zinfo.phases = 3 /\ zinfo'.phases = 4
    BY <1>1, <1>8 DEF AllocPhase3Over, Allocating, Allocators
  <2>2. QED
    BY <1>1, <1>3, <2>1 DEF PhasesLeft
<1>9. CASE AllocPhase4 \/ AllocDiskFull
  BY <1>2, <1>9 DEF AllocPhase4, AllocDiskFull
<1>10. QED
  BY <1>4, <1>5, <1>6, <1>7, <1>8, <1>9 DEF Alloc

LEMMA StepShorter ==
  ASSUME IInv, IInv', Next, pc \in Running, pc' \in Running
  PROVE  StepCloser
<1>1. TypeOK /\ AllocatorInv /\ InProgress /\ WorkIsNat
  BY WorkNat DEF IInv, UseInv
<1>2. WorkIsNat'
  BY WorkNat, PTL
<1>3. WorkLeft' \in Seq(Nat)
  BY <1>2 DEF WorkIsNat, WorkLeft
<1> SUFFICES LessWork(WorkLeft', WorkLeft)
  BY <1>3 DEF StepCloser
<1>4. ASSUME \/ cur'.n - cur'.i < cur.n - cur.i
             \/ cur'.n - cur'.i = cur.n - cur.i /\ StagesLeft' < StagesLeft
             \/ /\ cur'.n - cur'.i = cur.n - cur.i /\ StagesLeft' = StagesLeft
                /\ PhasesLeft' < PhasesLeft
             \/ /\ cur'.n - cur'.i = cur.n - cur.i /\ StagesLeft' = StagesLeft
                /\ PhasesLeft' = PhasesLeft
                /\ TracksLeft(zinfo.current_track)' < TracksLeft(zinfo.current_track)
      PROVE  LessWork(WorkLeft', WorkLeft)
  BY <1>4, LessAtOne DEF WorkLeft
<1>5. CASE Search
  <2>1. pc = "search" /\ pc' \in {"alloc", "store"} /\ cur'.n = cur.n /\ cur'.i = cur.i
    BY <1>1, <1>5 DEF Search, Overwrites, SearchOverwriteInPlace, UpdateInPlace, SearchOverwriteSwapped,
      UpdateSwapped, SearchRestore, SearchRestoreMoved, SearchSame, SearchShare, SearchTakeOver,
      SearchNew, SearchBeyond, Searching, Found, Running, TypeOK, Instructions
  <2>2. QED
    BY <1>4, <2>1 DEF StagesLeft
<1>6. CASE Alloc /\ pc' = "alloc"
  <2>1. pc = "alloc"
    BY <1>6 DEF Alloc, AllocPhase1, AllocPhase1Full, AllocPhase2, AllocPhase3,
      AllocPhase3Over, AllocPhase4, AllocDiskFull, Allocating
  <2>2. QED
    BY <1>1, <1>4, <1>6, <2>1, RoundShorter DEF StagesLeft
<1>7. CASE Alloc /\ pc' # "alloc"
  <2>1. pc = "alloc"
    BY <1>7 DEF Alloc, AllocPhase1, AllocPhase1Full, AllocPhase2, AllocPhase3,
      AllocPhase3Over, AllocPhase4, AllocDiskFull, Allocating
  <2>2. pc' = "store" /\ cur'.n = cur.n /\ cur'.i = cur.i
    BY <1>1, <1>7, <2>1 DEF Alloc, AllocPhase1, AllocPhase1Full, AllocPhase2, AllocPhase3,
      AllocPhase3Over, AllocPhase4, AllocDiskFull, TryShared, TryTrack, Book, Found, Running,
      TypeOK, Instructions
  <2>3. QED
    BY <1>4, <2>1, <2>2 DEF StagesLeft
<1>8. CASE StoreOwned
  <2>1. pc = "store" /\ cur \in Instructions /\ cur.n \in Nat /\ cur.i \in Nat
    BY <1>1, <1>8, TraceAssumption DEF StoreOwned, TypeOK, Instructions
  <2>2. \/ cur'.n = cur.n /\ cur'.i = cur.i + 1
        \/ pc' = "flush" /\ cur' = cur
    BY <1>8, <2>1 DEF StoreOwned, Instructions
  <2>3. QED
    BY <1>4, <2>1, <2>2 DEF StagesLeft
<1>9. ~(StoreMismatch \/ StoreShared \/ Flush)
  BY DEF StoreMismatch, StoreShared, Flush, Running
<1>10. ~((\E l \in 0 .. L, n \in 1 .. MaxBlocks, h \in Hashes : StartWrite(l, n, h))
         \/ \E l \in LBAs : Trim(l))
  BY DEF StartWrite, Trim, TrimBadStatus, TrimNotListed, TrimListed, Trimming, Running
<1>11. QED
  BY <1>5, <1>6, <1>7, <1>8, <1>9, <1>10 DEF Next, Progress

(* Every write ends, in every trace: each step of it leaves less to do, and   *)
(* what is left to do cannot shrink for ever (pba.c:45-257, lba.c:614-696).   *)
THEOREM EveryWriteShortens == Spec => WritesShorten
<1>1. IInv /\ IInv' /\ [Next]_vars => [({pc, pc'} \subseteq Running) => StepCloser]_vars
  BY StepShorter
<1>2. QED
  BY <1>1, InductiveInvariant, PTL DEF Spec, WritesShorten

-----------------------------------------------------------------------------
(* What the rest of the program does to the contents of tracks.            *)

Disk == INSTANCE TrackContent WITH content <- hash

LEMMA SearchContent ==
  ASSUME TypeOK, Search
  PROVE  Disk!ContentNext \/ UNCHANGED hash
<1>1. ASSUME SearchOverwriteSwapped PROVE Disk!ContentNext
  <2>1. PICK b \in {ltp[Target].pba}, t \in find_empty_block_swap :
          ~is_toptrack(b) /\ hash' = SwapIn(hash, t, b)
    BY <1>1 DEF Overwrites, SearchOverwriteSwapped, UpdateSwapped
  <2>2. b \in Tracks
    BY <1>1, <2>1 DEF Overwrites, SearchOverwriteSwapped, UpdateSwapped, Searching, TypeOK, Entries
  <2>3. t \in Tracks /\ is_toptrack(t)
    BY SharedTopsType DEF Tops
  <2>4. t # b
    BY <2>1, <2>3
  <2>5. Disk!Swap(t, b)
    BY <2>1 DEF Disk!Swap, SwapIn
  <2>6. QED
    BY <2>2, <2>3, <2>4, <2>5 DEF Disk!ContentNext
<1>2. ASSUME \/ SearchOverwriteInPlace \/ SearchRestore \/ SearchRestoreMoved \/ SearchSame
             \/ SearchShare \/ SearchTakeOver \/ SearchNew \/ SearchBeyond
      PROVE  UNCHANGED hash
  BY <1>2 DEF Overwrites, SearchOverwriteInPlace, UpdateInPlace, SearchRestore, SearchRestoreMoved, SearchSame,
    SearchShare, SearchTakeOver, SearchNew, SearchBeyond, blocks
<1>3. QED
  BY <1>1, <1>2 DEF Search

LEMMA StoreContent ==
  ASSUME IInv, StoreMismatch \/ StoreShared \/ StoreOwned \/ Flush
  PROVE  Disk!ContentNext \/ UNCHANGED hash
<1>1. ASSUME StoreOwned PROVE Disk!ContentNext \/ UNCHANGED hash
  <2>1. cur.hash \in Hashes
    BY <1>1 DEF StoreOwned, IInv, UseInv, InProgress, Running
  <2>2. cur.pba \in Tracks
    BY DEF IInv, TypeOK, Instructions
  <2>3. hash' = [hash EXCEPT ![cur.pba] = cur.hash] \/ UNCHANGED hash
    BY <1>1 DEF StoreOwned
  <2>4. QED
    BY <2>1, <2>2, <2>3 DEF Disk!ContentNext, Disk!Write
<1>2. ASSUME StoreMismatch \/ StoreShared \/ Flush PROVE UNCHANGED hash
  BY <1>2 DEF StoreMismatch, StoreShared, Flush
<1>3. QED
  BY <1>1, <1>2

LEMMA OtherContent ==
  ASSUME Alloc \/ (\E l \in 0 .. L, n \in 1 .. MaxBlocks, h \in Hashes : StartWrite(l, n, h))
               \/ (\E l \in LBAs : Trim(l))
  PROVE  UNCHANGED hash
<1>1. CASE Alloc
  BY <1>1 DEF Alloc, AllocPhase1, AllocPhase1Full, AllocPhase2, AllocPhase3, AllocPhase3Over,
    AllocPhase4, AllocDiskFull, AllocUnchanged
<1>2. CASE \E l \in 0 .. L, n \in 1 .. MaxBlocks, h \in Hashes : StartWrite(l, n, h)
  BY <1>2 DEF StartWrite, blocks
<1>3. CASE \E l \in LBAs : Trim(l)
  BY <1>3 DEF Trim, TrimBadStatus, TrimNotListed, TrimListed, Trimming
<1>4. QED
  BY <1>1, <1>2, <1>3

(* All the write path ever does to the contents of tracks is to write one or  *)
(* to exchange two, which is what the hash index is checked against: no call  *)
(* of it waits for ever in this program (lba.c:668-671, active_swap.c:8-29).  *)
THEOREM ContentFollows == Spec => Disk!ContentSpec
<1>1. Init => Disk!ContentInit
  BY DEF Init, Disk!ContentInit
<1>2. IInv /\ [Next]_vars => [Disk!ContentNext]_hash
  <2> SUFFICES ASSUME IInv, [Next]_vars PROVE Disk!ContentNext \/ UNCHANGED hash
    OBVIOUS
  <2>1. TypeOK
    BY DEF IInv
  <2>2. CASE Progress
    BY <2>1, <2>2, SearchContent, StoreContent, OtherContent DEF Progress
  <2>3. CASE Next /\ ~Progress
    BY <2>3, OtherContent DEF Next
  <2>4. CASE UNCHANGED vars
    BY <2>4 DEF vars
  <2>5. QED
    BY <2>2, <2>3, <2>4
<1>3. QED
  BY <1>1, <1>2, InductiveInvariant, PTL DEF Spec, Disk!ContentSpec
=============================================================================
