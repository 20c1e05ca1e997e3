------------------------------ MODULE DedupWrite ------------------------------
(***************************************************************************)
(* The dedupe_write build: logical writes and trims, each write carrying   *)
(* the hash of its content.  A write looks its logical block up            *)
(* (dedupe_pba_search), allocates a track if it must                       *)
(* (zalloc_find_next_pba, one loop iteration a step), stores the block     *)
(* (dedupe_lba_write) and flushes the batch (batch_write).  The program is *)
(* single threaded; pc says how far the write in progress is.              *)
(*                                                                         *)
(* A definition named X_Bug is X as a plausible mistake would have it; it  *)
(* stands before X and is used only to test that the properties notice.    *)
(***************************************************************************)
EXTENDS ImrDisk, Sequences, FiniteSets

CONSTANTS
  Hashes,       (* content hashes                                          *)
  NoHash,       (* the empty hash of a block never written                 *)
  NoLba,        (* a cell of an lba array that was never assigned          *)
  Garbage,      (* what such a cell may hold: some of LBAs, or NoLba for a *)
                (* number that is no logical block of the trace            *)
  OutOfBounds,  (* answers a test on the block before or past the array    *)
                (* storage may give                                        *)
  MaxBlocks,    (* bound: blocks a write instruction covers                *)
  Trace         (* the kinds of instructions the trace holds               *)

Kinds == {"append", "fresh", "same", "same_shared", "update", "update_shared", "rewrite",
          "rewrite_taken", "restore", "beyond", "trim"}

ASSUME HashAssumption == NoHash \notin Hashes
ASSUME CellAssumption == NoLba \notin LBAs /\ Garbage \subseteq LBAs \cup {NoLba}
                         /\ Garbage # {}
ASSUME OutOfBoundsAssumption == OutOfBounds \subseteq BOOLEAN /\ OutOfBounds # {}
ASSUME TraceAssumption == MaxBlocks \in Nat \ {0} /\ Trace \subseteq Kinds

VARIABLES
  (* struct block, field by field; lba_capacity is the length of lba_list  *)
  status, hash, refs, lba_list,
  ltp,          (* the logical to physical table                           *)
  zinfo,        (* the allocator: phases, current_track, phase1_is_full    *)
  current_use,  (* report.current_use_block_num, up to UseCap              *)
  gbtable,      (* the tracks in the pending batch                         *)
  pc, cur       (* control point and locals of the write in progress       *)

blocks == <<status, hash, refs, lba_list>>
vars == <<status, hash, refs, lba_list, ltp, zinfo, current_use, gbtable, pc, cur>>

(* bound: the count is only ever compared with numbers below BottomNum.    *)
UseCap == BottomNum
AddUse(k) == current_use' = IF current_use + k > UseCap THEN UseCap ELSE current_use + k

Statuses == {"free", "booked", "in_use", "trimed"}
Cells == LBAs \cup {NoLba}
Entries == [pba : Tracks, hash : Hashes \cup {NoHash}, valid : BOOLEAN, trim : BOOLEAN]
Allocators == [phases : 1 .. 4, current_track : Nat, phase1_is_full : BOOLEAN]
Instructions == [lba : 0 .. L, n : 1 .. MaxBlocks, hash : Hashes \cup {NoHash},
                 i : 0 .. MaxBlocks - 1, pass : BOOLEAN, pba : Tracks]
NoInstruction == [lba |-> 0, n |-> 1, hash |-> NoHash, i |-> 0, pass |-> FALSE, pba |-> 0]

Running == {"search", "alloc", "store", "flush"}
Stopped == {"mismatch", "bad_status", "not_listed", "disk_full", "out_of_range", "undefined"}

TypeOK ==
  /\ status \in [Tracks -> Statuses]
  /\ hash \in [Tracks -> Hashes \cup {NoHash}]
  /\ refs \in [Tracks -> Nat]
  /\ lba_list \in [Tracks -> Seq(Cells)]
  /\ ltp \in [LBAs -> Entries]
  /\ zinfo \in Allocators
  /\ current_use \in 0 .. UseCap
  /\ gbtable \subseteq Tracks
  /\ pc \in {"idle"} \cup Running \cup Stopped
  /\ cur \in Instructions

Init ==
  /\ status = [t \in Tracks |-> "free"]
  /\ hash = [t \in Tracks |-> NoHash]
  /\ refs = [t \in Tracks |-> 0]
  /\ lba_list = [t \in Tracks |-> <<NoLba, NoLba>>]
  /\ ltp = [l \in LBAs |-> [pba |-> 0, hash |-> NoHash, valid |-> FALSE, trim |-> FALSE]]
  /\ zinfo = [phases |-> 1, current_track |-> phase1_start, phase1_is_full |-> FALSE]
  /\ current_use = 0
  /\ gbtable = {}
  /\ pc = "idle"
  /\ cur = NoInstruction

-----------------------------------------------------------------------------
(* Instructions of the trace.                                              *)

(* What writing hash h to logical block l amounts to in this state: a first *)
(* write in ascending order of blocks or not, a write of what the block    *)
(* holds, and so on.  Only the choice of instructions depends on it, never *)
(* what they do.                                                           *)
KindOf(l, h) ==
  LET e == ltp[l] IN
  CASE l \notin LBAs -> "beyond"
    [] l \in LBAs /\ e.trim ->
         IF h = e.hash THEN "restore"
         ELSE IF status[e.pba] = "trimed" THEN "rewrite" ELSE "rewrite_taken"
    [] l \in LBAs /\ ~e.trim /\ e.valid ->
         IF h = e.hash
         THEN IF refs[e.pba] = 0 THEN "same" ELSE "same_shared"
         ELSE IF refs[e.pba] = 0 THEN "update" ELSE "update_shared"
    [] l \in LBAs /\ ~e.trim /\ ~e.valid ->
         IF \A m \in 0 .. l - 1 : ltp[m].valid \/ ltp[m].trim THEN "append" ELSE "fresh"

(* dedupe_lba_write takes the instruction: lba may be max_logical_block_num *)
(* itself, one past the table; beyond that it jumps to an env nobody set.   *)
StartWrite(l, n, h) ==
  /\ pc = "idle"
  /\ \A i \in 0 .. n - 1 : KindOf(l + i, h) \in Trace
  /\ pc' = IF l > L \/ l + n - 1 > L THEN "out_of_range" ELSE "search"
  /\ cur' = [NoInstruction EXCEPT !.lba = l, !.n = n, !.hash = h]
  /\ UNCHANGED <<blocks, ltp, zinfo, current_use, gbtable>>

-----------------------------------------------------------------------------
(* dedupe_pba_search: where does the block go?                             *)

Target == cur.lba + cur.i

Searching == pc = "search" /\ Target \in LBAs

(* The three cases of the lookup, by the block's entry: trimed; valid on a *)
(* block in use; anything else counts as never written.                    *)
ValidInUse(l) == ltp[l].valid /\ status[ltp[l].pba] = "in_use"
Deleted(l) == ltp[l].trim /\ ~ValidInUse(l)
Present(l) == ~ltp[l].trim /\ ValidInUse(l)
NeverWritten(l) == ~Deleted(l) /\ ~Present(l)

Mapped(p, h) == [pba |-> p, hash |-> h, valid |-> TRUE, trim |-> FALSE]
Found(p, pass) == pc' = "store" /\ cur' = [cur EXCEPT !.pba = p, !.pass = pass]

(* A search by hash covers in phase 1 as many bottom tracks as blocks are  *)
(* in use, and all tracks later.                                           *)
Scanned_Bug == IF zinfo.phases = 1
               THEN {t \in EveryOther(phase1_start, N) :
                       (t - phase1_start) \div 2 + 1 < current_use}
               ELSE Tracks
Scanned == IF zinfo.phases = 1
           THEN {t \in EveryOther(phase1_start, N) : (t - phase1_start) \div 2 < current_use}
           ELSE Tracks
Holding_Bug(h) == {t \in Scanned : ~is_toptrack(t) /\ hash[t] = h}
Holding(h) == {t \in Scanned : hash[t] = h}

(* The possible answers to: is a track next to p in use?  The program asks *)
(* the track before track 0 as well.                                       *)
NeighbourInUse(p) ==
  IF \E t \in {p - 1, p + 1} \cap Tracks : status[t] = "in_use" THEN {TRUE}
  ELSE IF p = 0 THEN OutOfBounds ELSE {FALSE}

(* find_empty_block_swap: the first top track in use with the most sharers. *)
SharedTops == {t \in Tops : status[t] = "in_use" /\ refs[t] > 0}
find_empty_block_swap ==
  FirstOf({t \in SharedTops : \A u \in SharedTops : refs[u] <= refs[t]})

(* An lba array past its end and at cells nobody assigned holds garbage.   *)
Cell(s, i) == IF i \in 1 .. Len(s) THEN s[i] ELSE NoLba
Listed(p) == {Cell(lba_list[p], i) : i \in 1 .. refs[p] + 1}
GarbageIn(p) == IF NoLba \in Listed(p) THEN Garbage ELSE {NoLba}

(* ltp_table_swap: the blocks listed at top track t go to bottom track b,  *)
(* then those listed at b go to t; gt and gb are garbage met on the way.   *)
ltp_table_swap_Bug(t, b, gt, gb) ==
  [l \in LBAs |-> IF l \in Listed(b) \cup {gb} THEN [ltp[l] EXCEPT !.pba = t] ELSE ltp[l]]
ltp_table_swap(t, b, gt, gb) ==
  [l \in LBAs |->
     IF l \in Listed(b) \cup {gb} THEN [ltp[l] EXCEPT !.pba = t]
     ELSE IF l \in Listed(t) \cup {gt} THEN [ltp[l] EXCEPT !.pba = b]
     ELSE ltp[l]]

SwapIn_Bug(f, x, y) == [f EXCEPT ![x] = f[y]]
SwapIn(f, x, y) == [f EXCEPT ![x] = f[y], ![y] = f[x]]

(* DEDU_update keeps the block's track ...                                 *)
UpdateInPlace ==
  /\ LET p == ltp[Target].pba IN
     /\ is_toptrack(p) \/ FALSE \in NeighbourInUse(p) \/ refs[p] # 0 \/ SharedTops = {}
     /\ ltp' = [ltp EXCEPT ![Target] = Mapped(p, cur.hash)]
     /\ Found(p, cur.pass)
  /\ UNCHANGED <<blocks, zinfo, current_use, gbtable>>

(* ... or, for an unshared bottom track between tracks in use, first swaps *)
(* it with the most shared top track (DEDU_createBlockSwap; its rw_block   *)
(* writes the bottom track, which takes a trimed one into use).            *)
UpdateSwapped ==
  /\ \E b \in {ltp[Target].pba}, t \in find_empty_block_swap :
     /\ ~is_toptrack(b) /\ TRUE \in NeighbourInUse(b) /\ refs[b] = 0
     /\ \E gt \in GarbageIn(t), gb \in GarbageIn(b) :
          ltp' = [ltp_table_swap(t, b, gt, gb) EXCEPT ![Target] = Mapped(t, cur.hash)]
     /\ status' = SwapIn([status EXCEPT ![b] = "in_use"], t, b)
     /\ AddUse(IF status[b] = "in_use" THEN 0 ELSE 1)
     /\ hash' = SwapIn(hash, t, b)
     /\ refs' = SwapIn(refs, t, b)
     /\ lba_list' = SwapIn(lba_list, t, b)
     /\ Found(t, cur.pass)
  /\ UNCHANGED <<zinfo, gbtable>>

(* Other content for a block that was written before is an update.         *)
Overwrites == Searching /\ ~NeverWritten(Target) /\ ltp[Target].hash # cur.hash
SearchOverwriteInPlace == Overwrites /\ UpdateInPlace
SearchOverwriteSwapped == Overwrites /\ UpdateSwapped

(* Deleted content comes back and its block still holds it.                *)
SearchRestore ==
  /\ Searching
  /\ Deleted(Target) /\ ltp[Target].hash = cur.hash
  /\ LET p == ltp[Target].pba IN
     /\ hash[p] = cur.hash
     /\ ltp' = [ltp EXCEPT ![Target] = Mapped(p, cur.hash)]
     /\ Found(p, TRUE)
  /\ UNCHANGED <<blocks, zinfo, current_use, gbtable>>

(* Its block holds something else by now: take the first block in use that *)
(* holds the content, or stay.                                             *)
SearchRestoreMoved ==
  /\ Searching
  /\ Deleted(Target) /\ ltp[Target].hash = cur.hash
  /\ hash[ltp[Target].pba] # cur.hash
  /\ LET candidates == {t \in Holding(cur.hash) : status[t] = "in_use"} IN
     \E p \in IF candidates # {} THEN FirstOf(candidates) ELSE {ltp[Target].pba} :
     /\ refs' = IF status[p] # "trimed" THEN [refs EXCEPT ![p] = @ + 1] ELSE refs
     /\ ltp' = [ltp EXCEPT ![Target] = Mapped(p, cur.hash)]
     /\ Found(p, TRUE)
  /\ UNCHANGED <<status, hash, lba_list, zinfo, current_use, gbtable>>

(* The block holds this content already.                                   *)
SearchSame ==
  /\ Searching
  /\ Present(Target) /\ ltp[Target].hash = cur.hash
  /\ Found(ltp[Target].pba, TRUE)
  /\ UNCHANGED <<blocks, ltp, zinfo, current_use, gbtable>>

Duplicate(l) == NeverWritten(l) /\ Holding(cur.hash) # {} /\ ~ltp[l].valid

(* A block holds this content: share it ...                                *)
SearchShare ==
  /\ Searching /\ Duplicate(Target)
  /\ \E p \in FirstOf(Holding(cur.hash)) :
     /\ status[p] # "trimed"
     /\ refs' = [refs EXCEPT ![p] = @ + 1]
     /\ ltp' = [ltp EXCEPT ![Target] = Mapped(p, cur.hash)]
     /\ Found(p, cur.pass)
  /\ UNCHANGED <<status, hash, lba_list, zinfo, current_use, gbtable>>

(* ... or take it over if its last owner trimed it.                        *)
SearchTakeOver ==
  /\ Searching /\ Duplicate(Target)
  /\ \E p \in FirstOf(Holding(cur.hash)) :
     /\ status[p] = "trimed"
     /\ status' = [status EXCEPT ![p] = "in_use"]
     /\ lba_list' = [lba_list EXCEPT ![p][1] = Target]
     /\ ltp' = [ltp EXCEPT ![Target] = Mapped(p, cur.hash)]
     /\ Found(p, TRUE)
  /\ UNCHANGED <<hash, refs, zinfo, current_use, gbtable>>

SearchNew ==
  /\ Searching /\ NeverWritten(Target) /\ ~Duplicate(Target)
  /\ pc' = "alloc"
  /\ UNCHANGED <<blocks, ltp, zinfo, current_use, gbtable, cur>>

(* lba = max_logical_block_num: the entry is past the end of the table.    *)
SearchBeyond ==
  /\ pc = "search" /\ Target \notin LBAs
  /\ pc' = "undefined"
  /\ UNCHANGED <<blocks, ltp, zinfo, current_use, gbtable, cur>>

Search == \/ SearchOverwriteInPlace \/ SearchOverwriteSwapped
          \/ SearchRestore \/ SearchRestoreMoved \/ SearchSame
          \/ SearchShare \/ SearchTakeOver \/ SearchNew \/ SearchBeyond

-----------------------------------------------------------------------------
(* zalloc_find_next_pba: each action is one iteration of its loop.         *)

Allocating(phase) == pc = "alloc" /\ zinfo.phases = phase
Free(S) == {t \in S : status[t] = "free"}

Book_Bug(t) ==
  /\ status' = status
  /\ ltp' = [ltp EXCEPT ![Target] = Mapped(t, cur.hash)]
  /\ Found(t, cur.pass)
Book(t) ==
  /\ status' = [status EXCEPT ![t] = "booked"]
  /\ ltp' = [ltp EXCEPT ![Target] = Mapped(t, cur.hash)]
  /\ Found(t, cur.pass)

(* The tail of the loop: book the track if it is free, else go round.      *)
TryTrack(t) == IF status[t] = "free" THEN Book(t) ELSE UNCHANGED <<status, ltp, pc, cur>>

(* The possible answers to: are both neighbours shared?  Those of the last *)
(* track, and of the tracks past it, lie outside the array.                *)
NeighboursShared_Bug(t) ==
  IF \A u \in {t - 1, t + 1} \cap Tracks : refs[u] = 0 THEN {FALSE} ELSE {TRUE}
NeighboursShared(t) ==
  LET near == {t - 1, t + 1} IN
  IF \E u \in near \cap Tracks : refs[u] = 0 THEN {FALSE}
  ELSE IF near \subseteq Tracks THEN {TRUE} ELSE OutOfBounds

TryShared(t) ==
  \/ FALSE \in NeighboursShared(t) /\ UNCHANGED <<status, ltp, pc, cur>>
  \/ TRUE \in NeighboursShared(t) /\ TryTrack(t)

AllocUnchanged == UNCHANGED <<hash, refs, lba_list, current_use, gbtable>>

NextBottom_Bug(z) ==
  [z EXCEPT !.current_track = @ + 2, !.phase1_is_full = z.current_track = phase1_end]
NextBottom(z) ==
  IF z.current_track = phase1_end
  THEN [z EXCEPT !.phase1_is_full = TRUE]
  ELSE [z EXCEPT !.current_track = @ + 2]

AllocPhase1 ==
  /\ Allocating(1) /\ ~zinfo.phase1_is_full
  /\ zinfo' = NextBottom(zinfo)
  /\ TryTrack(zinfo.current_track)
  /\ AllocUnchanged

(* All bottom tracks were visited: book one left over, else enter phase 2  *)
(* and fall through with the old track in hand.                            *)
AllocPhase1Full ==
  /\ Allocating(1) /\ zinfo.phase1_is_full
  /\ LET left == Free(EveryOther(phase1_start, phase1_end)) IN
     IF left # {}
     THEN \E t \in FirstOf(left) :
            /\ Book(t)
            /\ zinfo' = [zinfo EXCEPT !.current_track = t, !.phase1_is_full = FALSE]
     ELSE /\ TryTrack(zinfo.current_track)
          /\ zinfo' = [zinfo EXCEPT !.phases = 2,
                         !.current_track = IF zinfo.current_track = phase1_end
                                           THEN phase2_start ELSE phase2_start + 2]
  /\ AllocUnchanged

AllocPhase2 ==
  /\ Allocating(2)
  /\ zinfo' = IF zinfo.current_track = phase2_end
              THEN [zinfo EXCEPT !.phases = 3, !.current_track = phase3_start]
              ELSE [zinfo EXCEPT !.current_track = @ - 4]
  /\ TryShared(zinfo.current_track)
  /\ AllocUnchanged

AllocPhase3 ==
  /\ Allocating(3) /\ zinfo.current_track <= N
  /\ zinfo' = [zinfo EXCEPT !.current_track = @ + 4]
  /\ TryShared(zinfo.current_track)
  /\ AllocUnchanged

(* Past the last track: enter phase 4, but first ask the neighbours of a   *)
(* track that does not exist, and book it if they look shared.             *)
AllocPhase3Over_Bug ==
  /\ Allocating(3) /\ zinfo.current_track > N
  /\ zinfo' = [zinfo EXCEPT !.current_track = phase3_start]
  /\ UNCHANGED <<status, ltp, pc, cur>>
  /\ AllocUnchanged
AllocPhase3Over ==
  /\ Allocating(3) /\ zinfo.current_track > N
  /\ zinfo' = [zinfo EXCEPT !.phases = 4, !.current_track = phase4_start]
  /\ \/ pc' = pc
     \/ TRUE \in OutOfBounds /\ pc' = "undefined"
  /\ UNCHANGED <<status, ltp, cur>>
  /\ AllocUnchanged

AllocPhase4 ==
  /\ Allocating(4)
  /\ \E t \in FirstOf(Free(EveryOther(phase4_start, phase4_end))) :
       Book(t) /\ zinfo' = [zinfo EXCEPT !.current_track = t]
  /\ AllocUnchanged

AllocDiskFull ==
  /\ Allocating(4)
  /\ Free(EveryOther(phase4_start, phase4_end)) = {}
  /\ pc' = "disk_full"
  /\ UNCHANGED <<status, ltp, zinfo, cur>>
  /\ AllocUnchanged

Alloc == \/ AllocPhase1 \/ AllocPhase1Full
         \/ AllocPhase2 \/ AllocPhase3 \/ AllocPhase3Over
         \/ AllocPhase4 \/ AllocDiskFull

-----------------------------------------------------------------------------
(* The rest of dedupe_lba_write's loop body, with the block's track found. *)

StoreUnchanged == UNCHANGED <<status, refs, ltp, zinfo, current_use>>

(* A shared block is never written with other content: the program exits.  *)
StoreMismatch ==
  /\ pc = "store" /\ refs[cur.pba] > 0 /\ hash[cur.pba] # cur.hash
  /\ pc' = "mismatch"
  /\ StoreUnchanged /\ UNCHANGED <<hash, lba_list, gbtable, cur>>

(* is_lba_in_storage: where block l turns up among the first k cells of s; *)
(* 0 stands for nowhere.  A cell holding garbage may happen to match.      *)
Positions_Bug(s, k, l) ==
  {i \in 1 .. k - 1 : Cell(s, i) = l}
  \cup (IF \E i \in 1 .. k - 1 : Cell(s, i) = l THEN {} ELSE {0})
Positions(s, k, l) ==
  {i \in 1 .. k : /\ Cell(s, i) = l \/ (Cell(s, i) = NoLba /\ l \in Garbage)
                  /\ \A j \in 1 .. i - 1 : Cell(s, j) # l}
  \cup (IF \E i \in 1 .. k : Cell(s, i) = l THEN {} ELSE {0})

increase_storage_lba_capacity_Bug(s) == s
increase_storage_lba_capacity(s) == s \o [i \in 1 .. Len(s) |-> NoLba]

(* A shared block gets the writer listed unless it is listed already; the  *)
(* scan takes its length from the count of track 0.  The handler returns   *)
(* at once, without the blocks that remain or the flush.                   *)
StoreShared ==
  /\ pc = "store" /\ refs[cur.pba] > 0 /\ hash[cur.pba] = cur.hash
  /\ LET s == lba_list[cur.pba]
         grown == IF refs[cur.pba] + 1 > Len(s) THEN increase_storage_lba_capacity(s) ELSE s IN
     \E i \in Positions(grown, refs[0] + 1, cur.lba) :
       lba_list' = [lba_list EXCEPT ![cur.pba] =
                      IF i = 0 THEN [grown EXCEPT ![refs[cur.pba] + 1] = cur.lba]
                      ELSE IF i <= Len(grown) THEN [grown EXCEPT ![i] = cur.lba] ELSE grown]
  /\ pc' = "idle" /\ cur' = NoInstruction
  /\ StoreUnchanged /\ UNCHANGED <<hash, gbtable>>

(* A block with one owner is written unless the lookup said to pass it by; *)
(* pass is not reset from one block of the instruction to the next.        *)
StoreOwned ==
  /\ pc = "store" /\ refs[cur.pba] = 0
  /\ IF cur.pass THEN UNCHANGED <<hash, lba_list, gbtable>>
     ELSE /\ hash' = [hash EXCEPT ![cur.pba] = cur.hash]
          /\ lba_list' = [lba_list EXCEPT ![cur.pba][1] = Target]
          /\ gbtable' = gbtable \cup {cur.pba}
  /\ IF cur.i + 1 < cur.n
     THEN pc' = "search" /\ cur' = [cur EXCEPT !.i = @ + 1, !.pba = 0]
     ELSE pc' = "flush" /\ cur' = cur
  /\ StoreUnchanged

(* batch_write: chs_write takes every track of the batch into use.         *)
Flush ==
  /\ pc = "flush"
  /\ status' = [t \in Tracks |-> IF t \in gbtable THEN "in_use" ELSE status[t]]
  /\ AddUse(Cardinality({t \in gbtable : status[t] # "in_use"}))
  /\ gbtable' = {}
  /\ pc' = "idle" /\ cur' = NoInstruction
  /\ UNCHANGED <<hash, refs, lba_list, ltp, zinfo>>

-----------------------------------------------------------------------------
(* dedupe_trim: a request whose hash is not the block's is ignored, so     *)
(* only the others are steps.                                              *)

(* delete_lba_in_storage: close the gap at position i of a list of k.      *)
DeleteAt_Bug(s, i, k) ==
  [j \in 1 .. Len(s) |-> IF i < j /\ j < k THEN Cell(s, j + 1) ELSE s[j]]
DeleteAt(s, i, k) ==
  [j \in 1 .. Len(s) |-> IF i <= j /\ j < k THEN Cell(s, j + 1) ELSE s[j]]

(* The last owner leaves: the track keeps its content, for a later owner.  *)
Vacate_Bug(p) == status' = [status EXCEPT ![p] = "free"] /\ refs' = refs
Vacate(p) == status' = [status EXCEPT ![p] = "trimed"] /\ refs' = refs

Trimming(l) ==
  /\ pc = "idle" /\ "trim" \in Trace
  /\ ltp[l].valid /\ ~ltp[l].trim
  /\ ltp' = [ltp EXCEPT ![l].trim = TRUE, ![l].valid = FALSE]
  /\ UNCHANGED <<hash, zinfo, current_use, gbtable, cur>>

TrimBadStatus(l) ==
  /\ Trimming(l) /\ status[ltp[l].pba] # "in_use"
  /\ pc' = "bad_status"
  /\ UNCHANGED <<status, refs, lba_list>>

TrimNotListed(l) ==
  LET p == ltp[l].pba IN
  /\ Trimming(l) /\ status[p] = "in_use"
  /\ 0 \in Positions(lba_list[p], refs[p] + 1, l)
  /\ pc' = "not_listed"
  /\ UNCHANGED <<status, refs, lba_list>>

TrimListed(l) ==
  LET p == ltp[l].pba IN
  /\ Trimming(l) /\ status[p] = "in_use"
  /\ \E i \in Positions(lba_list[p], refs[p] + 1, l) \ {0} :
       lba_list' = [lba_list EXCEPT ![p] = DeleteAt(@, i, refs[p] + 1)]
  /\ IF refs[p] > 0
     THEN refs' = [refs EXCEPT ![p] = @ - 1] /\ status' = status
     ELSE Vacate(p)
  /\ pc' = pc

Trim(l) == TrimBadStatus(l) \/ TrimNotListed(l) \/ TrimListed(l)

-----------------------------------------------------------------------------
(* The steps the program takes of its own accord.                          *)
Progress == Search \/ Alloc \/ StoreMismatch \/ StoreShared \/ StoreOwned \/ Flush

Next == \/ \E l \in 0 .. L, n \in 1 .. MaxBlocks, h \in Hashes : StartWrite(l, n, h)
        \/ \E l \in LBAs : Trim(l)
        \/ Progress

Spec == Init /\ [][Next]_vars

-----------------------------------------------------------------------------
(* Properties that hold for every trace.                                   *)

(* Phase 1 books the bottom tracks in order and none is left behind when   *)
(* it ends: the tracks from the current one on are free, those before it   *)
(* are not, and the track the loop falls through with is the last one, so  *)
(* that phase 2 starts where it should (pba.c:102-132).                    *)
Phase1Frontier ==
  zinfo.phases = 1 =>
    /\ zinfo.current_track \in Bottoms
    /\ zinfo.phase1_is_full => zinfo.current_track = phase1_end
    /\ \A t \in Tracks : status[t] = "free" <=>
         is_toptrack(t) \/ (t >= zinfo.current_track /\ ~zinfo.phase1_is_full)

(* Later phases allocate top tracks only, every bottom track is taken, and *)
(* phases 2 and 3 each stay on their own half of the top tracks            *)
(* (pba.c:133-189, init_disk's bounds lba.c:170-201).                      *)
TopPhases ==
  zinfo.phases > 1 =>
    /\ \A t \in Bottoms : status[t] # "free"
    /\ zinfo.phases = 2 => zinfo.current_track \in Tops /\ zinfo.current_track % 4 = 3
    /\ zinfo.phases = 3 => zinfo.current_track <= N + 1 /\ zinfo.current_track % 4 = 1
    /\ zinfo.phases = 4 => zinfo.current_track \in Tops

(* A logical block that was ever written points at a track that was ever   *)
(* allocated: neither trims, nor swaps, nor sharing undo that.             *)
MappedAllocated ==
  \A l \in LBAs : ltp[l].valid \/ ltp[l].trim => status[ltp[l].pba] # "free"

(* The disk is reported full only when no track at all is free, although   *)
(* phases 2 and 3 may skip top tracks and phase 4 looks at top tracks only *)
(* (pba.c:191-227).                                                        *)
FullMeansFull == pc = "disk_full" => Free(Tracks) = {}

(* A track, once booked, is never handed out again: allocation is append   *)
(* only, and reuse goes through the logical table.                         *)
NeverFreed == [][\A t \in Tracks : status[t] # "free" => status'[t] # "free"]_status

(* A block never lists more owners than its lba array has room for, though *)
(* the count grows in the lookup and the array only later, in the store    *)
(* (pba.c:811-882, lba.c:657-661).                                         *)
ListFits == pc = "idle" => \A p \in Tracks : refs[p] < Len(lba_list[p])

(* What a write still has to do: blocks of the instruction, the stage of   *)
(* the block at hand, and in the allocator the phases to come and what is  *)
(* left of this one, where phase 1 is about to try track bottom.           *)
StagesLeft == CASE pc = "search" -> 4 [] pc = "alloc" -> 3 [] pc = "store" -> 2 [] OTHER -> 1
PhasesLeft == IF pc = "alloc" THEN 4 - zinfo.phases ELSE 0
TracksLeft(bottom) ==
  IF pc # "alloc" THEN 0
  ELSE CASE zinfo.phases = 1 -> 2 * (N - bottom) + (IF zinfo.phase1_is_full THEN 0 ELSE 1)
         [] zinfo.phases = 2 -> zinfo.current_track
         [] zinfo.phases = 3 -> N + 5 - zinfo.current_track
         [] OTHER -> 0
WorkLeft == <<cur.n - cur.i, StagesLeft, PhasesLeft, TracksLeft(zinfo.current_track)>>
LessWork(v, w) ==
  \E i \in 1 .. Len(v) : v[i] < w[i] /\ \A j \in 1 .. i - 1 : v[j] = w[j]

(* Every step of a write leaves less to do, so that every write ends; the  *)
(* allocator's loop in particular cannot go round for ever (pba.c:45-257). *)
StepCloser == WorkLeft' \in Seq(Nat) /\ LessWork(WorkLeft', WorkLeft)
WritesShorten == [][({pc, pc'} \subseteq Running) => StepCloser]_vars

(* What makes the properties above inductive: the write in progress is     *)
(* about a block of the table and about a track that is allocated; a track *)
(* that holds content, or waits in the batch, is allocated.                *)
InProgress ==
  /\ cur.i < cur.n
  /\ pc \in Running => cur.hash \in Hashes
  /\ pc \in {"alloc", "store"} => Target \in LBAs
  /\ pc = "store" => status[cur.pba] # "free"
HashAllocated == \A t \in Tracks : hash[t] # NoHash => status[t] # "free"
BatchAllocated == \A t \in gbtable : status[t] # "free"

(* Only the block a write is about may have outgrown its lba array.        *)
ListInv ==
  \A p \in Tracks :
    /\ Len(lba_list[p]) > 0
    /\ refs[p] > 0 /\ refs[p] >= Len(lba_list[p]) =>
         p = cur.pba /\ pc \in {"store", "mismatch"} /\ refs[p] = Len(lba_list[p])

AllocatorInv == Phase1Frontier /\ TopPhases /\ FullMeansFull
UseInv == MappedAllocated /\ HashAllocated /\ BatchAllocated /\ InProgress
IInv == TypeOK /\ AllocatorInv /\ UseInv /\ ListInv

-----------------------------------------------------------------------------
(* Properties of traces of single-block instructions.                      *)

(* The window of bottom tracks a phase-1 search by hash covers misses no   *)
(* block written so far (pba.c:593-603): the count of blocks in use never  *)
(* falls behind the allocator.                                             *)
ScanComplete ==
  zinfo.phases = 1 /\ pc \in {"idle", "search"} =>
    \A t \in Tracks : hash[t] # NoHash => t \in Scanned

-----------------------------------------------------------------------------
(* Properties of the traces the deduplication gets right.                  *)

OwnersOf(p) == {l \in LBAs : ltp[l].valid /\ ltp[l].pba = p}

(* Reading a valid logical block finds a block in use that holds the       *)
(* content last written to it.                                             *)
Integrity ==
  pc = "idle" => \A l \in LBAs : ltp[l].valid =>
    status[ltp[l].pba] = "in_use" /\ hash[ltp[l].pba] = ltp[l].hash

(* A block in use lists exactly the logical blocks mapped to it, each      *)
(* once, and counts all but one of them; swaps carry lists and counts      *)
(* along (lba.c:657-661, 700-759, active_swap.c:8-60).                     *)
OwnersListed ==
  pc = "idle" => \A p \in Tracks : status[p] = "in_use" =>
    Listed(p) = OwnersOf(p) /\ Cardinality(OwnersOf(p)) = refs[p] + 1

(* The program stops only because the disk is full.                        *)
StopsOnlyWhenFull == pc \in Stopped => pc = "disk_full"

(* While content is never overwritten, no two blocks in use hold the same. *)
StoredOnce ==
  pc = "idle" => \A p, q \in Tracks :
    status[p] = "in_use" /\ status[q] = "in_use" /\ hash[p] = hash[q] => p = q

(* Before phase 4 a top track is allocated only between two shared bottom  *)
(* tracks, which are the least likely to be rewritten: the last track,     *)
(* with one neighbour, has to wait, and so do tops next to blocks that     *)
(* become shared too late (pba.c:133-189, 233-250).                        *)
TopsBetweenShared ==
  zinfo.phases < 4 => \A t \in Tops : status[t] # "free" =>
    {t - 1, t + 1} \subseteq Tracks /\ refs[t - 1] > 0 /\ refs[t + 1] > 0

-----------------------------------------------------------------------------
(* What the program says of itself and other traces refute.                *)

(* Deleted content that is written again is restored (pba.c:751): its      *)
(* block is in use again.                                                  *)
RestoredInUse ==
  pc = "idle" => \A l \in LBAs : ltp[l].valid => status[ltp[l].pba] = "in_use"

(* Writing what a block holds already is passed over (pba.c:828), so the   *)
(* list of owners stays good and trims find their block in it (lba.c:744). *)
TrimFindsOwner == pc # "not_listed"

(* A block other logical blocks rely on is not written with different      *)
(* content: the program would rather exit (lba.c:644-656).                 *)
ForeignContentKept ==
  [][pc = "store" => \A l \in LBAs \ {Target} :
       ltp[l].valid /\ status[ltp[l].pba] = "in_use" =>
         hash'[ltp[l].pba] = hash[ltp[l].pba]]_vars
=============================================================================
