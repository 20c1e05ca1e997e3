------------------------------- MODULE NewAlloc -------------------------------
(***************************************************************************)
(* The new_alloc build: as long as bottom tracks are left (phase 1),       *)
(* writes collect in a buffer of BufNum blocks, one content each, and the  *)
(* full buffer is flushed to tracks.  From phase 2 on writes go the way of *)
(* DedupWrite, the first of them after one more flush.  Trims are          *)
(* DedupWrite's.  fi tells buffer_flush at work on block fi from a write   *)
(* at work; the control points they share ("search", "alloc", "store") are *)
(* DedupWrite's, and a flush that joins a block to a track is at "flush".  *)
(*                                                                         *)
(* An array of owners has as many cells as its capacity says, that of a    *)
(* buffer block at first one more, and the checks of the capacity let four *)
(* loops and assignments write the cell just past it.  A list here gets    *)
(* that cell with the first such write.                                    *)
(*                                                                         *)
(* disk_has_dedupe, next_top_to_write and a block's dedupe flag only lead  *)
(* to a choice between two equal branches (pba.c:79-100).                  *)
(***************************************************************************)
EXTENDS DedupStore

CONSTANTS
  BufNum,      (* P1_BUF_NUM                                               *)
  BufCap,      (* the lba_capacity a buffer block starts with              *)
  SpareCell,   (* answers to: is the cell past an array nobody else's, and *)
               (* carried along by realloc?  malloc may round up; if not,  *)
               (* writing it ends the program                              *)
  MaxInstr,    (* bound: instructions of a trace that is not plain           *)
  Plain        (* traces TLC tries: any (FALSE), or only what this build   *)
               (* gets right (TRUE); see PlainWrite                        *)

ASSUME BufferAssumption == BufNum \in Nat \ {0} /\ BufCap \in Nat \ {0}
ASSUME SpareAssumption == SpareCell \subseteq BOOLEAN /\ SpareCell # {}
ASSUME BoundAssumption == MaxInstr \in Nat /\ Plain \subseteq BOOLEAN

VARIABLES
  buf,             (* phase1_buf: content, owners, capacity; a block's     *)
                   (* referenced_count is the number of owners less one    *)
  used,            (* report.used_buffer_count                             *)
  fi,              (* the block buffer_flush is at, 0 outside of it        *)
  after,           (* the instruction a flush holds up, or NoInstruction   *)
  next_bottom,     (* report.next_bottom_to_write                          *)
  buffer_flushed,  (* report.buffer_flushed                                *)
  plain,           (* which traces this behaviour is about; never changes  *)
  budget           (* instructions left, unless plain                      *)

buffer == <<buf, used, fi, after>>
codeVars == <<buf, used, fi, after, next_bottom, buffer_flushed>>
newVars == <<codeVars, plain, budget>>
allVars == <<vars, newVars>>

BufIndex == 1 .. BufNum

NewTypeOK ==
  /\ TypeOK
  /\ buf \in [BufIndex -> [hash : Hashes \cup {NoHash}, lba : Seq(LBAs), cap : Nat]]
  /\ used \in 0 .. BufNum
  /\ fi \in 0 .. BufNum
  /\ after \in Instructions
  /\ next_bottom \in Nat
  /\ buffer_flushed \in BOOLEAN
  /\ plain \in BOOLEAN
  /\ budget \in Nat

NewInit ==
  /\ status = [t \in Tracks |-> "free"]
  /\ hash = [t \in Tracks |-> NoHash]
  /\ refs = [t \in Tracks |-> 0]
  /\ lba_list = [t \in Tracks |-> <<NoLba, NoLba>>]
  /\ ltp = [l \in LBAs |-> [pba |-> 0, hash |-> NoHash, valid |-> FALSE, trim |-> FALSE]]
  /\ zinfo = [phases |-> 1, current_track |-> phase1_start, phase1_is_full |-> FALSE]
  /\ current_use = 0
  /\ gbtable = {}
  /\ pc = "idle"
  /\ cur = NoInstruction
  /\ buf = [i \in BufIndex |-> [hash |-> NoHash, lba |-> <<0>>, cap |-> BufCap]]
  /\ used = 0
  /\ fi = 0
  /\ after = NoInstruction
  /\ next_bottom = 0
  /\ buffer_flushed = FALSE
  /\ plain \in Plain
  /\ budget = MaxInstr

(* Capacities are even, so that an odd cell is the one past the array.     *)
Capacity(s) == 2 * (Len(s) \div 2)
Increase(s) == s \o [i \in 1 .. 2 * Capacity(s) - Len(s) |-> NoLba]

(* An array of which cell k is written, with the cell past it if need be.  *)
Reaching(s, k) == IF Len(s) = Capacity(s) /\ Capacity(s) < k THEN Append(s, NoLba) ELSE s
BufferCells(cap) == IF cap = BufCap THEN cap + 1 ELSE cap

(* A write past the array goes on; if it does not, see Overrun.            *)
GoesOn(past) == past => TRUE \in SpareCell

Finish == pc' = "idle" /\ cur' = NoInstruction

-----------------------------------------------------------------------------
(* The instructions of the trace.                                          *)

SeqToSet(s) == {s[i] : i \in 1 .. Len(s)}

(* The buffer blocks that wait for their turn, and those with owner l.     *)
Waiting == IF fi = 0 THEN 1 .. used ELSE fi .. BufNum
Buffered(l) == {i \in Waiting : l \in SeqToSet(buf[i].lba)}

(* What this build gets right: single blocks; in phase 1 only first writes *)
(* of blocks not in the buffer, of content no trimed track holds; later    *)
(* what DedupWrite gets right; no trim between the end of phase 1 and the  *)
(* last flush.                                                             *)
PlainWrite(l, n, h) ==
  /\ n = 1
  /\ IF zinfo.phases = 1
     THEN /\ KindOf(l, h) \in {"append", "fresh"} /\ Buffered(l) = {}
          /\ \A t \in Tracks : hash[t] = h => status[t] # "trimed"
     ELSE KindOf(l, h) \in {"append", "same", "update", "rewrite"}
PlainTrim(l) == Buffered(l) = {} /\ (zinfo.phases = 1 \/ buffer_flushed)

CountInstruction ==
  /\ plain' = plain
  /\ IF plain THEN budget' = budget ELSE budget > 0 /\ budget' = budget - 1

NewStartWrite(l, n, h) ==
  /\ StartWrite(l, n, h)
  /\ plain => PlainWrite(l, n, h)
  /\ CountInstruction
  /\ UNCHANGED codeVars

NewTrim(l) ==
  /\ Trim(l)
  /\ plain => PlainTrim(l)
  /\ CountInstruction
  /\ UNCHANGED codeVars

-----------------------------------------------------------------------------
(* buffer_flush goes from block to block; the turn of block i begins with  *)
(* the lookup of its first owner.                                          *)

Turn(i) == [NoInstruction EXCEPT !.lba = buf'[i].lba[1], !.hash = buf'[i].hash]

StartFlush(held_up) ==
  /\ fi' = 1 /\ after' = held_up
  /\ pc' = "search" /\ cur' = Turn(1)

NextBlock_Bug ==
  /\ buf' = buf
  /\ IF fi < BufNum
     THEN /\ fi' = fi + 1 /\ pc' = "search" /\ cur' = Turn(fi + 1)
          /\ UNCHANGED <<used, after>>
     ELSE /\ fi' = 0 /\ used' = used /\ after' = NoInstruction
          /\ IF after = NoInstruction THEN Finish ELSE pc' = "search" /\ cur' = after
NextBlock ==
  /\ buf' = buf
  /\ IF fi < BufNum
     THEN /\ fi' = fi + 1 /\ pc' = "search" /\ cur' = Turn(fi + 1)
          /\ UNCHANGED <<used, after>>
     ELSE /\ fi' = 0 /\ used' = 0 /\ after' = NoInstruction
          /\ IF after = NoInstruction THEN Finish ELSE pc' = "search" /\ cur' = after

-----------------------------------------------------------------------------
(* A write in phase 1.  Only the first block of an instruction is handled. *)

Phase1Write == fi = 0 /\ pc = "search" /\ zinfo.phases = 1 /\ Target \in LBAs

Stored(h) == {t \in Tracks : hash[t] = h}

(* A track holds the content and the block is not mapped: share the track. *)
(* A trimed track stays trimed.                                            *)
ShareOnDisk ==
  /\ Phase1Write /\ ~ltp[Target].valid
  /\ \E p \in FirstOf(Stored(cur.hash)) :
       LET count == IF status[p] = "trimed" THEN refs[p] ELSE refs[p] + 1
           s == lba_list[p]
           grown == IF count + 1 > Capacity(s) THEN Increase(s) ELSE s IN
       /\ refs' = [refs EXCEPT ![p] = count]
       /\ ltp' = [ltp EXCEPT ![Target] = Mapped(p, cur.hash)]
       /\ \E i \in Positions(grown, refs'[0] + 1, Target) :
            lba_list' = [lba_list EXCEPT ![p] =
                           IF i = 0 THEN [grown EXCEPT ![count + 1] = Target]
                           ELSE IF i <= Len(grown) THEN [grown EXCEPT ![i] = Target] ELSE grown]
  /\ Finish
  /\ UNCHANGED <<status, hash, zinfo, current_use, gbtable, newVars>>

(* buffer_write, everything else.                                          *)
Buffering == Phase1Write /\ (ltp[Target].valid \/ Stored(cur.hash) = {})
InBuffer(h) == {i \in 1 .. used : buf[i].hash = h}

JoinedCap(i) == IF Len(buf[i].lba) > buf[i].cap THEN 2 * buf[i].cap ELSE buf[i].cap
JoinsPast(i) == Len(buf[i].lba) + 1 > BufferCells(JoinedCap(i))

JoinBuffered ==
  /\ Buffering
  /\ \E i \in FirstOf(InBuffer(cur.hash)) :
       /\ GoesOn(JoinsPast(i))
       /\ buf' = [buf EXCEPT ![i].lba = Append(@, Target), ![i].cap = JoinedCap(i)]
  /\ Finish
  /\ UNCHANGED <<blocks, ltp, zinfo, current_use, gbtable, used, fi, after,
                 next_bottom, buffer_flushed, plain, budget>>

(* Clearing the array of the next block writes one cell more than its      *)
(* capacity says, and one too many once the array has been doubled.        *)
ClearsPast == used + 1 \in {i \in BufIndex : BufferCells(buf[i].cap) < buf[i].cap + 1}

FillBlock_Bug ==
  /\ Buffering /\ InBuffer(cur.hash) = {} /\ GoesOn(ClearsPast)
  /\ buf' = [buf EXCEPT ![used + 1].hash = cur.hash, ![used + 1].lba = <<Target>>]
  /\ used' = used + 1
  /\ IF used = BufNum - 2 THEN StartFlush(NoInstruction)
     ELSE Finish /\ UNCHANGED <<fi, after>>
  /\ UNCHANGED <<blocks, ltp, zinfo, current_use, gbtable, next_bottom, buffer_flushed, plain, budget>>
FillBlock ==
  /\ Buffering /\ InBuffer(cur.hash) = {} /\ GoesOn(ClearsPast)
  /\ buf' = [buf EXCEPT ![used + 1].hash = cur.hash, ![used + 1].lba = <<Target>>]
  /\ used' = used + 1
  /\ IF used' = BufNum THEN StartFlush(NoInstruction)
     ELSE Finish /\ UNCHANGED <<fi, after>>
  /\ UNCHANGED <<blocks, ltp, zinfo, current_use, gbtable, next_bottom, buffer_flushed, plain, budget>>

(* The block past the table, as in DedupWrite.                             *)
BeyondTable ==
  /\ fi = 0 /\ zinfo.phases = 1
  /\ SearchBeyond /\ UNCHANGED newVars

-----------------------------------------------------------------------------
(* A write in a later phase.                                               *)

Flushed == buffer_flushed

(* The first one flushes the whole buffer again, full or not.              *)
FlushAgain_Bug ==
  /\ fi = 0 /\ pc = "search" /\ zinfo.phases > 1 /\ ~Flushed
  /\ buf' = buf /\ used' = used
  /\ StartFlush(cur)
  /\ buffer_flushed' = buffer_flushed
  /\ UNCHANGED <<blocks, ltp, zinfo, current_use, gbtable, next_bottom, plain, budget>>
FlushAgain ==
  /\ fi = 0 /\ pc = "search" /\ zinfo.phases > 1 /\ ~Flushed
  /\ buf' = buf /\ used' = used
  /\ StartFlush(cur)
  /\ buffer_flushed' = TRUE
  /\ UNCHANGED <<blocks, ltp, zinfo, current_use, gbtable, next_bottom, plain, budget>>

Lookup ==
  /\ fi = 0 /\ zinfo.phases > 1 /\ Flushed
  /\ Search /\ UNCHANGED newVars

NewMismatch == fi = 0 /\ StoreMismatch /\ UNCHANGED newVars

(* The array grows only when the count has passed its capacity.            *)
Sharing == fi = 0 /\ pc = "store" /\ refs[cur.pba] > 0 /\ hash[cur.pba] = cur.hash
SharesPast == refs[cur.pba] = Capacity(lba_list[cur.pba])

NewStoreShared ==
  /\ Sharing
  /\ LET s == lba_list[cur.pba]
         k == refs[cur.pba] + 1
         grown == IF k - 1 > Capacity(s) THEN Increase(s) ELSE s IN
     \E i \in Positions(grown, refs[0] + 1, cur.lba) :
       /\ GoesOn(i = 0 /\ SharesPast)
       /\ lba_list' = [lba_list EXCEPT ![cur.pba] =
                         IF i = 0 THEN [Reaching(grown, k) EXCEPT ![k] = cur.lba]
                         ELSE IF i <= Len(grown) THEN [grown EXCEPT ![i] = cur.lba] ELSE grown]
  /\ Finish
  /\ StoreUnchanged /\ UNCHANGED <<hash, gbtable, newVars>>

(* batch_add and batch_write of one track.                                 *)
WriteTrack(p) ==
  /\ status' = [status EXCEPT ![p] = "in_use"]
  /\ AddUse(IF status[p] = "in_use" THEN 0 ELSE 1)

(* Here the batch is written after each block of an instruction.           *)
NewStoreOwned ==
  /\ fi = 0 /\ pc = "store" /\ refs[cur.pba] = 0
  /\ IF cur.pass THEN UNCHANGED <<status, current_use, hash, lba_list>>
     ELSE /\ hash' = [hash EXCEPT ![cur.pba] = cur.hash]
          /\ lba_list' = [lba_list EXCEPT ![cur.pba][1] = Target]
          /\ WriteTrack(cur.pba)
  /\ IF cur.i + 1 < cur.n
     THEN pc' = "search" /\ cur' = [cur EXCEPT !.i = @ + 1, !.pba = 0]
     ELSE Finish
  /\ UNCHANGED <<refs, ltp, zinfo, gbtable, newVars>>

-----------------------------------------------------------------------------
(* buffer_flush: one block.                                                *)

FlushTurn == fi > 0 /\ Searching

(* Its first owner was trimed and has other content by its entry, or is    *)
(* present, with whatever content: DEDU_update.                            *)
FlushUpdate ==
  /\ FlushTurn
  /\ Present(Target) \/ (Deleted(Target) /\ ltp[Target].hash # cur.hash)
  /\ UpdateInPlace \/ UpdateSwapped
  /\ UNCHANGED newVars

(* Its first owner was trimed with this very content, which its old track  *)
(* still holds; or a track in use does, or none, and the block goes there. *)
(* A track that is not trimed is joined instead of written.                *)
FlushRestore ==
  /\ FlushTurn
  /\ Deleted(Target) /\ ltp[Target].hash = cur.hash
  /\ LET p == ltp[Target].pba
         others == {t \in Holding(cur.hash) : status[t] = "in_use"} IN
     IF hash[p] = cur.hash THEN pc' = "store" /\ cur' = [cur EXCEPT !.pba = p]
     ELSE \E q \in IF others # {} THEN FirstOf(others) ELSE {p} :
            /\ pc' = IF status[q] = "trimed" THEN "store" ELSE "flush"
            /\ cur' = [cur EXCEPT !.pba = q]
  /\ UNCHANGED <<blocks, ltp, zinfo, current_use, gbtable, newVars>>

FlushNew ==
  /\ FlushTurn /\ NeverWritten(Target)
  /\ pc' = "alloc"
  /\ UNCHANGED <<blocks, ltp, zinfo, current_use, gbtable, cur, newVars>>

MapAll_Bug(owners, p) ==
  ltp' = [ltp EXCEPT ![owners[1]] = Mapped(p, cur.hash)]
MapAll(owners, p) ==
  ltp' = [l \in LBAs |-> IF l \in SeqToSet(owners) THEN Mapped(p, cur.hash) ELSE ltp[l]]

(* Both loops below first double the array until it is large enough.       *)
NeededToJoin == refs[cur.pba] + Len(buf[fi].lba) + 2
NeededToStore_Bug == Len(buf[fi].lba) - 2
NeededToStore == Len(buf[fi].lba) - 1

FlushGrow ==
  /\ fi > 0
  /\ \/ pc = "flush" /\ Capacity(lba_list[cur.pba]) < NeededToJoin
     \/ pc = "store" /\ Capacity(lba_list[cur.pba]) < NeededToStore
  /\ lba_list' = [lba_list EXCEPT ![cur.pba] = Increase(@)]
  /\ UNCHANGED <<status, hash, refs, ltp, zinfo, current_use, gbtable, pc, cur, newVars>>

(* Joining counts one owner more than there are and leaves that one's cell *)
(* as it was.  Nothing is written.                                         *)
FlushJoin ==
  /\ fi > 0 /\ pc = "flush" /\ Capacity(lba_list[cur.pba]) >= NeededToJoin
  /\ LET p == cur.pba
         owners == buf[fi].lba
         first == refs[p] + 3 IN
     /\ refs' = [refs EXCEPT ![p] = @ + Len(owners) + 1]
     /\ lba_list' = [lba_list EXCEPT ![p] =
          [i \in 1 .. Len(@) |-> IF i - first + 1 \in 1 .. Len(owners)
                                 THEN owners[i - first + 1] ELSE @[i]]]
     /\ MapAll(owners, p)
  /\ NextBlock
  /\ UNCHANGED <<status, hash, zinfo, current_use, gbtable, next_bottom, buffer_flushed, plain, budget>>

Storing == fi > 0 /\ pc = "store" /\ Capacity(lba_list[cur.pba]) >= NeededToStore
StoresPast == Len(buf[fi].lba) > Capacity(lba_list[cur.pba])

(* The owners are written from the start of the array on.                  *)
WithOwners(s, owners) ==
  LET array == Reaching(s, Len(owners)) IN
  [i \in 1 .. Len(array) |-> IF i <= Len(owners) THEN owners[i] ELSE array[i]]

FlushStore_Bug ==
  /\ Storing /\ GoesOn(StoresPast)
  /\ LET p == cur.pba
         owners == buf[fi].lba IN
     /\ refs' = refs
     /\ hash' = [hash EXCEPT ![p] = cur.hash]
     /\ lba_list' = [lba_list EXCEPT ![p] = WithOwners(@, owners)]
     /\ MapAll(owners, p)
     /\ WriteTrack(p)
  /\ NextBlock
  /\ UNCHANGED <<zinfo, gbtable, next_bottom, buffer_flushed, plain, budget>>
FlushStore ==
  /\ Storing /\ GoesOn(StoresPast)
  /\ LET p == cur.pba
         owners == buf[fi].lba IN
     /\ refs' = [refs EXCEPT ![p] = Len(owners) - 1]
     /\ hash' = [hash EXCEPT ![p] = cur.hash]
     /\ lba_list' = [lba_list EXCEPT ![p] = WithOwners(@, owners)]
     /\ MapAll(owners, p)
     /\ WriteTrack(p)
  /\ NextBlock
  /\ UNCHANGED <<zinfo, gbtable, next_bottom, buffer_flushed, plain, budget>>

FlushStep == \/ FlushUpdate \/ FlushRestore \/ FlushNew
             \/ FlushGrow \/ FlushJoin \/ FlushStore

-----------------------------------------------------------------------------
(* zalloc_find_next_pba with NEW_ALLOC: phase 1 has a counter of its own.  *)

NewAllocUnchanged == AllocUnchanged /\ UNCHANGED <<buffer, buffer_flushed, plain, budget>>

BottomLeft_Bug == next_bottom + 2 < phase1_end
BottomLeft == next_bottom < phase1_end

NewPhase1 ==
  /\ Allocating(1) /\ ~zinfo.phase1_is_full /\ BottomLeft
  /\ next_bottom' = next_bottom + 2
  /\ TryTrack(next_bottom)
  /\ zinfo' = zinfo /\ NewAllocUnchanged

(* The counter reached the last bottom track: look at the current track.   *)
NewPhase1Last ==
  /\ Allocating(1) /\ ~zinfo.phase1_is_full /\ ~BottomLeft
  /\ zinfo' = [zinfo EXCEPT !.phase1_is_full = TRUE]
  /\ TryTrack(zinfo.current_track)
  /\ UNCHANGED next_bottom /\ NewAllocUnchanged

(* Book a bottom track left over, else enter phase 2 and fall through with *)
(* the old track in hand; the counter stays past the end.                  *)
NewPhase1Full ==
  /\ Allocating(1) /\ zinfo.phase1_is_full
  /\ LET left == Free(EveryOther(phase1_start, phase1_end)) IN
     IF left # {}
     THEN \E t \in FirstOf(left) :
            /\ Book(t)
            /\ zinfo' = [zinfo EXCEPT !.current_track = t, !.phase1_is_full = FALSE]
     ELSE /\ TryTrack(zinfo.current_track)
          /\ zinfo' = [zinfo EXCEPT !.phases = 2, !.current_track = phase2_start]
  /\ UNCHANGED next_bottom /\ NewAllocUnchanged

NewAllocate ==
  \/ NewPhase1 \/ NewPhase1Last \/ NewPhase1Full
  \/ /\ \/ AllocPhase2 \/ AllocPhase3 \/ AllocPhase3Over
        \/ AllocPhase4 \/ AllocDiskFull
     /\ UNCHANGED newVars

-----------------------------------------------------------------------------
(* The cell past an array of owners is written and is not there.           *)
Overrun ==
  /\ FALSE \in SpareCell
  /\ \/ Buffering /\ \E i \in FirstOf(InBuffer(cur.hash)) : JoinsPast(i)
     \/ Buffering /\ InBuffer(cur.hash) = {} /\ ClearsPast
     \/ Sharing /\ SharesPast /\ 0 \in Positions(lba_list[cur.pba], refs[0] + 1, cur.lba)
     \/ Storing /\ StoresPast
  /\ pc' = "undefined"
  /\ UNCHANGED <<blocks, ltp, zinfo, current_use, gbtable, cur, newVars>>

WriteStep == \/ ShareOnDisk \/ JoinBuffered \/ FillBlock \/ BeyondTable
             \/ FlushAgain \/ Lookup \/ NewMismatch \/ NewStoreShared \/ NewStoreOwned

NewProgress == WriteStep \/ FlushStep \/ NewAllocate \/ Overrun

NewNext == \/ \E l \in 0 .. L, n \in 1 .. MaxBlocks, h \in Hashes : NewStartWrite(l, n, h)
           \/ \E l \in LBAs : NewTrim(l)
           \/ NewProgress

NewSpec == NewInit /\ [][NewNext]_allVars

-----------------------------------------------------------------------------
(* Properties of all traces.                                               *)

(* The write in progress, or held up by a flush, if there is one.          *)
instruction == IF fi = 0 THEN cur ELSE after

(* The counter of phase 1 and the status of the bottom tracks agree: the   *)
(* tracks from the counter on are free, those before it are not, except    *)
(* that the last one is booked behind the counter's back and leaves its    *)
(* number in current_track (pba.c:51-100).                                 *)
NewFrontier ==
  zinfo.phases = 1 =>
    /\ next_bottom \in Bottoms
    /\ zinfo.current_track \in {phase1_start, phase1_end}
    /\ zinfo.phase1_is_full \/ zinfo.current_track = phase1_end => next_bottom = phase1_end
    /\ \A t \in Tracks : status[t] = "free" <=>
         is_toptrack(t) \/ (t >= next_bottom /\ zinfo.current_track = phase1_start)

(* The flush writes all BufNum blocks whether they are used or not         *)
(* (lba.c:926); all the same it never writes a block that nothing was put  *)
(* into, since phase 1 only ends in a flush, and that of a full buffer.    *)
FlushesFullBuffer == fi > 0 => \A i \in BufIndex : buf[i].hash # NoHash

(* A block can get one owner more than its array has cells for, and the    *)
(* owner is written past the array (lba.c:862-866, 896-902, 985-997).  It  *)
(* never gets worse: whatever sharing, joining, trims, swaps and flushes   *)
(* follow, an array is doubled before a second owner goes past it, so that *)
(* one spare cell is all the program needs of malloc.                      *)
OneCellPast ==
  /\ \A i \in BufIndex : Len(buf[i].lba) <= buf[i].cap + 1
  /\ \A p \in Tracks : refs[p] > Capacity(lba_list[p]) =>
       /\ refs[p] = Capacity(lba_list[p]) + 1
       /\ fi = 0 /\ p = cur.pba /\ pc \in {"store", "mismatch"}

(* What a write still has to do, with the buffer blocks to flush before it *)
(* comes to its own and, within a stage, the capacity an array of owners   *)
(* lacks.                                                                  *)
FlushesLeft == IF fi > 0 THEN BufNum + 1 - fi ELSE IF buffer_flushed THEN 0 ELSE BufNum + 1
CapacityNeeded ==
  CASE fi > 0 /\ pc = "flush" -> NeededToJoin
    [] fi > 0 /\ pc = "store" -> NeededToStore
    [] OTHER -> 0
CapacityLacking ==
  LET capacity == Capacity(lba_list[cur.pba]) IN
  IF CapacityNeeded > capacity THEN CapacityNeeded - capacity ELSE 0
NewWorkLeft ==
  <<instruction.n - instruction.i, FlushesLeft, StagesLeft, PhasesLeft, TracksLeft(next_bottom),
    CapacityLacking>>

(* Every step of a write leaves less to do, so that every write ends, with *)
(* the flushes it sets off and the allocations of their blocks             *)
(* (lba.c:774-1003, pba.c:45-257).                                         *)
NewStepCloser == NewWorkLeft' \in Seq(Nat) /\ LessWork(NewWorkLeft', NewWorkLeft)
EachStepCloser == [][({pc, pc'} \subseteq Running) => NewStepCloser]_allVars

-----------------------------------------------------------------------------
(* Properties of plain traces.                                             *)

PlainOwners == plain => OwnersListed
PlainStops == plain => StopsOnlyWhenFull \/ (pc = "undefined" /\ FALSE \in SpareCell)

Underway == plain /\ instruction # NoInstruction

(* What a user reads: the buffer, where DedupStore has only the tracks.    *)
buffered_content ==
  [l \in LBAs |->
     IF ~plain THEN NoHash
     ELSE IF Underway /\ l = instruction.lba THEN InFlight
     ELSE IF Buffered(l) # {} THEN buf[CHOOSE i \in Buffered(l) : TRUE].hash
     ELSE IF ltp[l].valid THEN hash[ltp[l].pba] ELSE NoHash]

BufferedStore == INSTANCE LogicalStore WITH
  Blocks <- LBAs, Contents <- Hashes, Nothing <- NoHash, InFlight <- InFlight,
  content <- buffered_content,
  op <- IF Underway THEN <<instruction.lba, instruction.hash>> ELSE <<>>

(* Whether in the buffer, in the middle of a flush or on a track, every    *)
(* logical block keeps its content until it is written or trimed, and      *)
(* flushing the last round twice changes nothing (lba.c:774-1003).         *)
BufferKeepsContent == BufferedStore!StoreSpec
=============================================================================
