------------------------------ MODULE TopBuffer ------------------------------
(***************************************************************************)
(* The builds without deduplication (nodedupe, blockswap): instructions    *)
(* name a file (fid) in place of a content.  Once the bottom tracks are    *)
(* taken, overwriting one would rewrite its neighbours, so the new data go *)
(* to a free top track, the bottom track's top buffer; the table ptt links *)
(* the two.  When the buffer is full, or the allocator runs out of tracks, *)
(* scp writes a buffered track back to its bottom track and frees it.      *)
(*                                                                         *)
(* One iteration of the allocator's loop and one block of an instruction   *)
(* is a step.  The error exits end the program, so what a handler had      *)
(* changed before one is left out.  Block swapping files its tracks in the *)
(* hash index under the empty hash, which nothing looks up; left out too.  *)
(***************************************************************************)
EXTENDS ImrDisk, FiniteSets

CONSTANTS
  Fids,           (* files                                                 *)
  NoFid,          (* the file of a block never written                     *)
  Capacities,     (* the values of TOP_BUFFER_CAPACITY(N), 2 tracks in     *)
                  (* 100, TLC tries                                        *)
  ReusesTrimed,   (* storage_is_free: do deleted tracks count (nodedupe)?  *)
  MaxBlocks,      (* bound: blocks a write instruction covers              *)
  Ascending       (* traces TLC tries: do first writes come in order?      *)

ASSUME FidAssumption == NoFid \notin Fids
ASSUME TopBufferAssumption == Capacities \subseteq 0 .. N
ASSUME FreeAssumption == ReusesTrimed \in BOOLEAN
ASSUME TraceAssumption == MaxBlocks \in Nat \ {0} /\ Ascending \in BOOLEAN

VARIABLES
  status,        (* storage[].status                                       *)
  lba0,          (* storage[].lba[0]                                       *)
  ltp,           (* the logical to physical table                          *)
  ptt,           (* the table of links: tba, scp_pba, type                 *)
  zinfo,         (* the allocator: phases, current_track, phase1_is_full   *)
  enable_top_buffer,
  initialized,   (* of pba.c, which is set along with enable_block_swap    *)
  report,        (* max_top_buffer_num, current_top_buffer_count           *)
  current_top_buffer_track, current_scp_track,
  gbtable,       (* the tracks in the pending batch                        *)
  pc, cur        (* control point and locals of the write in progress      *)

flags == <<enable_top_buffer, initialized>>
cursors == <<current_top_buffer_track, current_scp_track>>
vars == <<status, lba0, ltp, ptt, zinfo, flags, report, cursors, gbtable, pc, cur>>

Types == {"normal", "top_buffer", "buffered"}
Instructions == [lba : LBAs, n : 1 .. MaxBlocks, fid : Fids \cup {NoFid}, i : 0 .. MaxBlocks - 1]
NoInstruction == [lba |-> 0, n |-> 1, fid |-> NoFid, i |-> 0]

Running == {"search", "alloc", "flush"}
Stopped == {"disk_full", "no_free_top", "no_victim", "bad_bottom", "bad_delete"}

TypeOK ==
  /\ status \in [Tracks -> {"free", "booked", "in_use", "trimed"}]
  /\ lba0 \in [Tracks -> LBAs]
  /\ ltp \in [LBAs -> [pba : Tracks, fid : Fids \cup {NoFid}, valid : BOOLEAN]]
  /\ ptt \in [Tracks -> [tba : Tracks, scp_pba : Tracks, type : Types]]
  /\ zinfo \in [phases : 1 .. 3, current_track : Nat, phase1_is_full : BOOLEAN]
  /\ enable_top_buffer \in BOOLEAN /\ initialized \in BOOLEAN
  /\ report \in [max_top_buffer_num : 0 .. N, current_top_buffer_count : 0 .. N]
  /\ current_top_buffer_track \in Tops /\ current_scp_track \in Tops
  /\ gbtable \subseteq Tracks
  /\ pc \in {"idle"} \cup Running \cup Stopped
  /\ cur \in Instructions

top_buffer_start == 1

Init ==
  /\ status = [t \in Tracks |-> "free"]
  /\ lba0 = [t \in Tracks |-> 0]
  /\ ltp = [l \in LBAs |-> [pba |-> 0, fid |-> NoFid, valid |-> FALSE]]
  /\ ptt = [t \in Tracks |-> [tba |-> 0, scp_pba |-> 0, type |-> "normal"]]
  /\ zinfo = [phases |-> 1, current_track |-> phase1_start, phase1_is_full |-> FALSE]
  /\ enable_top_buffer = FALSE /\ initialized = FALSE
  /\ report \in [max_top_buffer_num : Capacities, current_top_buffer_count : {0}]
  /\ current_top_buffer_track = top_buffer_start
  /\ current_scp_track = top_buffer_start
  /\ gbtable = {}
  /\ pc = "idle" /\ cur = NoInstruction

IsFree(t) == status[t] = "free" \/ (ReusesTrimed /\ status[t] = "trimed")

(* The first track of S a scan meets that starts at from and wraps round.  *)
NextOf(S, from) ==
  IF \E t \in S : t >= from THEN FirstOf({t \in S : t >= from}) ELSE FirstOf(S)

-----------------------------------------------------------------------------
(* lba_write: each block of the instruction gets a track (pba_search),     *)
(* which is told its block and added to the batch.                         *)

Target == cur.lba + cur.i

(* The trace addresses blocks of the table only.                           *)
StartWrite(l, n, f) ==
  /\ pc = "idle" /\ l + n - 1 \in LBAs
  /\ Ascending => \A m \in 0 .. l - 1 : ltp[m].fid # NoFid
  /\ pc' = "search"
  /\ cur' = [lba |-> l, n |-> n, fid |-> f, i |-> 0]
  /\ UNCHANGED <<status, lba0, ltp, ptt, zinfo, flags, report, cursors, gbtable>>

NextBlock ==
  IF cur.i + 1 < cur.n THEN pc' = "search" /\ cur' = [cur EXCEPT !.i = @ + 1]
  ELSE pc' = "flush" /\ cur' = cur

Take(p, owners) ==
  /\ lba0' = [owners EXCEPT ![p] = Target]
  /\ gbtable' = gbtable \cup {p}
  /\ NextBlock

(* Another file holds the block: is_invalid_write.                         *)
Foreign == ltp[Target].valid /\ ltp[Target].fid # cur.fid
Present == ltp[Target].valid /\ ~Foreign /\ status[ltp[Target].pba] = "in_use"

SearchForeign ==
  /\ pc = "search" /\ Foreign
  /\ NextBlock
  /\ UNCHANGED <<status, lba0, ltp, ptt, zinfo, flags, report, cursors, gbtable>>

SearchNew ==
  /\ pc = "search" /\ ~Foreign /\ ~Present
  /\ pc' = "alloc"
  /\ UNCHANGED <<status, lba0, ltp, ptt, zinfo, flags, report, cursors, gbtable, cur>>

Type(t) == ptt[t].type

SearchBuffered ==
  /\ pc = "search" /\ Present /\ Type(ltp[Target].pba) = "top_buffer"
  /\ Take(ptt[ltp[Target].pba].tba, lba0)
  /\ UNCHANGED <<status, ltp, ptt, zinfo, flags, report, cursors>>

(* Of the others only an unbuffered bottom block of a later phase moves.   *)
NeedsBuffer(p) ==
  Type(p) = "normal" /\ ~is_toptrack(p) /\ zinfo.phases > 1 /\ enable_top_buffer

SearchInPlace ==
  LET p == ltp[Target].pba IN
  /\ pc = "search" /\ Present /\ Type(p) # "top_buffer" /\ ~NeedsBuffer(p)
  /\ Take(p, lba0)
  /\ UNCHANGED <<status, ltp, ptt, zinfo, flags, report, cursors>>

-----------------------------------------------------------------------------
(* scp: write the next buffered track v back to its bottom track.          *)

Buffered == {t \in Tops : Type(t) = "buffered"}
count == report.current_top_buffer_count
Victims == IF count = 0 \/ Buffered = {} THEN {} ELSE NextOf(Buffered, current_scp_track)

Writable(v) == ~IsFree(ptt[v].scp_pba) /\ Type(ptt[v].scp_pba) = "top_buffer"
Deletable(v) == status[v] = "in_use"

ScpStops ==
  /\ \/ Victims = {} /\ pc' = "no_victim"
     \/ \E v \in Victims : ~Writable(v) /\ pc' = "bad_bottom"
     \/ \E v \in Victims : Writable(v) /\ ~Deletable(v) /\ pc' = "bad_delete"
  /\ UNCHANGED <<status, lba0, ltp, ptt, zinfo, flags, report, cursors, gbtable, cur>>

Unlinked(v) ==
  [ptt EXCEPT ![ptt[v].scp_pba].type = "normal", ![ptt[v].scp_pba].tba = 0,
              ![v] = [tba |-> v, scp_pba |-> 0, type |-> "normal"]]

(* find_empty_block_swap picks the least written of these tracks, if it    *)
(* was written less than ten times.  The counts are left out, so it may be *)
(* any of them or none; v itself is among them.                            *)
ColdTops(v) == {t \in Tops : status[t] = "in_use" /\ (Type(t) = "normal" \/ t = v)}

Trade(f, x, y) == [f EXCEPT ![x] = f[y], ![y] = f[x]]

(* What run_scp makes of the blocks and of ltp, and the track it returns.  *)
(* Once block swapping is on, the bottom track trades places with a cold   *)
(* top track, which is returned.                                           *)
ScpOutcomes(v) ==
  LET b == ptt[v].scp_pba
      back == [ltp EXCEPT ![lba0[v]].pba = b]
      written == [status EXCEPT ![b] = "in_use"]
      plain == [tba |-> v, ltp |-> back, lba0 |-> lba0,
                status |-> [written EXCEPT ![v] = "trimed"]]
      swapped(c) == [tba |-> c, lba0 |-> Trade(lba0, b, c),
                     ltp |-> [[back EXCEPT ![lba0[b]].pba = c] EXCEPT ![lba0[c]].pba = b],
                     status |-> [Trade(written, b, c) EXCEPT ![v] = "trimed"]]
  IN {plain} \cup (IF initialized THEN {swapped(c) : c \in ColdTops(v)} ELSE {})

Scps == {v \in Victims : Writable(v) /\ Deletable(v)}

-----------------------------------------------------------------------------
(* run_top_buffer: the block on bottom track p moves to a top track.       *)

SearchMoves(p) == pc = "search" /\ Present /\ p = ltp[Target].pba /\ NeedsBuffer(p)
is_top_buffer_full == report.max_top_buffer_num <= count

create_top_buffer_Bug(links, b, t) ==
  [links EXCEPT ![b].tba = t, ![b].type = "top_buffer",
                ![t].tba = t, ![t].type = "buffered"]
create_top_buffer(links, b, t) ==
  [links EXCEPT ![b].tba = t, ![b].type = "top_buffer",
                ![t] = [tba |-> t, scp_pba |-> b, type |-> "buffered"]]

EmptyTops_Bug == {t \in EveryOther(top_buffer_start, phase2_start) : Type(t) = "normal"}
EmptyTops == {t \in EveryOther(top_buffer_start, phase2_start) : IsFree(t)}

SearchMove_Bug(p) ==
  /\ SearchMoves(p)
  /\ \E t \in NextOf(EmptyTops, current_top_buffer_track) :
       /\ ptt' = create_top_buffer(ptt, p, t)
       /\ status' = [status EXCEPT ![t] = "booked"]
       /\ report' = [report EXCEPT !.current_top_buffer_count = @ + 1]
       /\ current_top_buffer_track' = t
       /\ Take(t, lba0)
  /\ UNCHANGED <<ltp, zinfo, flags, current_scp_track>>
SearchMove(p) ==
  /\ SearchMoves(p) /\ ~is_top_buffer_full
  /\ \E t \in NextOf(EmptyTops, current_top_buffer_track) :
       /\ ptt' = create_top_buffer(ptt, p, t)
       /\ status' = [status EXCEPT ![t] = "booked"]
       /\ report' = [report EXCEPT !.current_top_buffer_count = @ + 1]
       /\ current_top_buffer_track' = t
       /\ Take(t, lba0)
  /\ UNCHANGED <<ltp, zinfo, flags, current_scp_track>>

SearchNoFreeTop(p) ==
  /\ SearchMoves(p) /\ ~is_top_buffer_full /\ EmptyTops = {}
  /\ pc' = "no_free_top"
  /\ UNCHANGED <<status, lba0, ltp, ptt, zinfo, flags, report, cursors, gbtable, cur>>

(* One comes back and one goes, so the count stays.                        *)
SearchMoveFull(p) ==
  /\ SearchMoves(p) /\ is_top_buffer_full
  /\ \E v \in Scps : \E r \in ScpOutcomes(v) :
       /\ ltp' = r.ltp
       /\ ptt' = create_top_buffer(Unlinked(v), p, r.tba)
       /\ status' = [r.status EXCEPT ![r.tba] = "booked"]
       /\ current_scp_track' = v
       /\ Take(r.tba, r.lba0)
  /\ UNCHANGED <<zinfo, flags, report, current_top_buffer_track>>

SearchMoveStops(p) == SearchMoves(p) /\ is_top_buffer_full /\ ScpStops

Search == \/ SearchForeign \/ SearchNew \/ SearchBuffered \/ SearchInPlace
          \/ \E p \in Bottoms : \/ SearchMove(p) \/ SearchNoFreeTop(p)
                               \/ SearchMoveFull(p) \/ SearchMoveStops(p)

-----------------------------------------------------------------------------
(* zalloc_find_next_pba: each action is one iteration of its loop.         *)

Allocating(phase) == pc = "alloc" /\ zinfo.phases = phase

Book(t) ==
  /\ status' = [status EXCEPT ![t] = "booked"]
  /\ ltp' = [ltp EXCEPT ![Target] = [pba |-> t, fid |-> cur.fid, valid |-> TRUE]]
  /\ Take(t, lba0)

GoRound == UNCHANGED <<status, ltp, lba0, gbtable, pc, cur>>
TryTrack(t) == IF IsFree(t) /\ Type(t) = "normal" THEN Book(t) ELSE GoRound

AllocPhase1 ==
  /\ Allocating(1) /\ ~zinfo.phase1_is_full
  /\ zinfo' = IF zinfo.current_track = phase1_end
              THEN [zinfo EXCEPT !.phase1_is_full = TRUE]
              ELSE [zinfo EXCEPT !.current_track = @ + 2]
  /\ TryTrack(zinfo.current_track)
  /\ UNCHANGED <<ptt, flags, report, cursors>>

(* All bottom tracks were visited: book a free one, which need not be      *)
(* normal, else enter phase 2 and fall through with the old track in hand. *)
AllocPhase1Full ==
  /\ Allocating(1) /\ zinfo.phase1_is_full
  /\ LET left == {t \in EveryOther(phase1_start, phase1_end) : IsFree(t)} IN
     IF left # {}
     THEN \E t \in FirstOf(left) :
            /\ Book(t)
            /\ zinfo' = [zinfo EXCEPT !.current_track = t, !.phase1_is_full = FALSE]
            /\ UNCHANGED enable_top_buffer
     ELSE /\ TryTrack(zinfo.current_track)
          /\ zinfo' = [zinfo EXCEPT !.phases = 2,
                         !.current_track = IF zinfo.current_track = phase1_end
                                           THEN phase2_start ELSE phase2_start + 2]
          /\ enable_top_buffer' = TRUE
  /\ UNCHANGED <<ptt, initialized, report, cursors>>

AllocPhase2_Bug ==
  /\ Allocating(2)
  /\ zinfo' = [zinfo EXCEPT !.current_track = @ - 4]
  /\ TryTrack(zinfo.current_track)
  /\ UNCHANGED <<ptt, flags, report, cursors>>
AllocPhase2 ==
  /\ Allocating(2)
  /\ zinfo' = IF zinfo.current_track = phase2_end
              THEN [zinfo EXCEPT !.phases = 3, !.current_track = phase3_start]
              ELSE [zinfo EXCEPT !.current_track = @ - 4]
  /\ TryTrack(zinfo.current_track)
  /\ UNCHANGED <<ptt, flags, report, cursors>>

could_trigger_topbuffer(t) == t >= N - report.max_top_buffer_num

(* Near the end the top buffer is closed and block swapping begins.  The   *)
(* current track is only tried, not passed.                                *)
AllocPhase3Trigger_Bug ==
  /\ Allocating(3) /\ zinfo.current_track <= N
  /\ could_trigger_topbuffer(zinfo.current_track) /\ ~initialized
  /\ enable_top_buffer' = FALSE /\ initialized' = initialized
  /\ TryTrack(zinfo.current_track)
  /\ UNCHANGED <<zinfo, ptt, report, cursors>>
AllocPhase3Trigger ==
  /\ Allocating(3) /\ zinfo.current_track <= N
  /\ could_trigger_topbuffer(zinfo.current_track) /\ ~initialized
  /\ enable_top_buffer' = FALSE /\ initialized' = TRUE
  /\ TryTrack(zinfo.current_track)
  /\ UNCHANGED <<zinfo, ptt, report, cursors>>

AllocPhase3 ==
  /\ Allocating(3) /\ zinfo.current_track <= N
  /\ initialized \/ ~could_trigger_topbuffer(zinfo.current_track)
  /\ zinfo' = [zinfo EXCEPT !.current_track = @ + 4]
  /\ TryTrack(zinfo.current_track)
  /\ UNCHANGED <<ptt, flags, report, cursors>>

(* Past the last track, buffered tracks are given up one by one.           *)
Phase3Over == Allocating(3) /\ zinfo.current_track > N
AllocGiveUpBuffer ==
  /\ Phase3Over
  /\ \E v \in Scps : \E r \in ScpOutcomes(v) :
       /\ ltp' = r.ltp /\ lba0' = r.lba0 /\ status' = r.status
       /\ ptt' = Unlinked(v)
       /\ current_scp_track' = v
       /\ zinfo' = [zinfo EXCEPT !.current_track = v]
  /\ report' = [max_top_buffer_num |-> report.max_top_buffer_num - 1,
                current_top_buffer_count |-> count - 1]
  /\ UNCHANGED <<flags, current_top_buffer_track, gbtable, pc, cur>>

AllocStops == Phase3Over /\ count > 0 /\ ScpStops

AllocDiskFull ==
  /\ Phase3Over /\ count = 0
  /\ pc' = "disk_full"
  /\ UNCHANGED <<status, lba0, ltp, ptt, zinfo, flags, report, cursors, gbtable, cur>>

Alloc == \/ AllocPhase1 \/ AllocPhase1Full \/ AllocPhase2
         \/ AllocPhase3Trigger \/ AllocPhase3
         \/ AllocGiveUpBuffer \/ AllocStops \/ AllocDiskFull

-----------------------------------------------------------------------------
(* batch_write.                                                            *)
Flush ==
  /\ pc = "flush"
  /\ status' = [t \in Tracks |-> IF t \in gbtable THEN "in_use" ELSE status[t]]
  /\ gbtable' = {}
  /\ pc' = "idle" /\ cur' = NoInstruction
  /\ UNCHANGED <<lba0, ltp, ptt, zinfo, flags, report, cursors>>

-----------------------------------------------------------------------------
(* native_lba_delete: the tracks of all blocks of a file, whatever blocks  *)
(* the instruction names.  A buffered block loses its buffer only.         *)

lba_to_tba(l) ==
  LET p == ltp[l].pba IN IF Type(p) = "normal" THEN p ELSE ptt[p].tba

BlocksOf(f) == {l \in LBAs : ltp[l].valid /\ ltp[l].fid = f}
TracksOf_Bug(f) == {ltp[l].pba : l \in BlocksOf(f)}
TracksOf(f) == {lba_to_tba(l) : l \in BlocksOf(f)}
AllInUse(f) == /\ \A t \in TracksOf(f) : status[t] = "in_use"
               /\ \A l, m \in BlocksOf(f) : lba_to_tba(l) = lba_to_tba(m) => l = m

Delete(f) ==
  /\ pc = "idle" /\ BlocksOf(f) # {}
  /\ status' = [t \in Tracks |-> IF t \in TracksOf(f) THEN "trimed" ELSE status[t]]
  /\ ptt' = [t \in Tracks |-> IF t \in TracksOf(f)
                              THEN [ptt[t] EXCEPT !.tba = t, !.type = "normal"] ELSE ptt[t]]
  /\ ltp' = [l \in LBAs |-> IF \E t \in TracksOf(f) : lba0[t] = l
                            THEN [ltp[l] EXCEPT !.valid = FALSE] ELSE ltp[l]]
  /\ UNCHANGED <<lba0, zinfo, flags, report, cursors, gbtable, pc, cur>>

DeleteStops(f) ==
  /\ pc = "idle" /\ BlocksOf(f) # {}
  /\ pc' = "bad_delete"
  /\ UNCHANGED <<status, lba0, ltp, ptt, zinfo, flags, report, cursors, gbtable, cur>>

(* The exit for a track that is not in use; ScpSafe says it is not taken.  *)
DeleteFile(f) == IF AllInUse(f) THEN Delete(f) ELSE DeleteStops(f)

-----------------------------------------------------------------------------
Progress == Search \/ Alloc \/ Flush

Next == \/ \E l \in LBAs, n \in 1 .. MaxBlocks, f \in Fids : StartWrite(l, n, f)
        \/ \E f \in Fids : DeleteFile(f)
        \/ Progress

Spec == Init /\ [][Next]_vars

(* The program runs on by itself until it waits for the next instruction.  *)
FairSpec == Spec /\ WF_vars(Progress)

-----------------------------------------------------------------------------
(* A valid block resolves, through its links, to a track that holds it and *)
(* that is written or about to be: neither moves to the buffer nor the way *)
(* back nor a block swap lose a block or give two blocks one track         *)
(* (pba.c:463-472, top_buffer.c:47-95, scp.c:89-146, block_swap.c:97-103,  *)
(* active_swap.c:42-51).                                                   *)
Resolves ==
  \A l \in LBAs : ltp[l].valid =>
    /\ lba0[lba_to_tba(l)] = l
    /\ status[lba_to_tba(l)] = "in_use" \/ lba_to_tba(l) \in gbtable

(* The two ends of a link agree: every buffered top track knows a bottom   *)
(* track in use that knows it (top_buffer.c:47-65, scp.c:104-118).         *)
LinksAgree ==
  \A t \in Buffered :
    LET b == ptt[t].scp_pba IN
    /\ b \in Bottoms /\ status[b] = "in_use"
    /\ Type(b) = "top_buffer" /\ ptt[b].tba = t

(* The count of top buffers is that of the bottom tracks that have, or     *)
(* ever lost, one, and stays within the shrinking maximum                  *)
(* (top_buffer.c:62-64, 112-115, scp.c:119, pba.c:158-164).                *)
CountRight ==
  /\ count = Cardinality({b \in Bottoms : Type(b) = "top_buffer"})
  /\ count <= report.max_top_buffer_num

(* scp never writes back to a track that is free or has no buffer, and it  *)
(* meets a buffer it cannot delete only in the middle of an instruction of *)
(* several blocks (scp.c:98-105, 131, chs.c:36-46).                        *)
ScpSafe ==
  /\ pc # "bad_bottom"
  /\ pc = "bad_delete" => cur.n > 1

(* The disk is reported full only when no track is left that was never     *)
(* written: neither the tracks the buffer took from the allocator's path   *)
(* nor those it gave up fall through (pba.c:133-189).                      *)
FullMeansFull == pc = "disk_full" => \A t \in Tracks : status[t] # "free"

(* That the program comes to the end of a write, given that it runs on,    *)
(* although the last phase goes round once more for each buffered track it *)
(* gives up (pba.c:142-189).                                               *)
WriteEnds == pc \in Running ~> pc \notin Running
=============================================================================
