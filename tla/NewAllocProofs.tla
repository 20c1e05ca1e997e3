---------------------------- MODULE NewAllocProofs ----------------------------
(***************************************************************************)
(* What holds of NewAlloc for every disk, every size of the phase-1 buffer *)
(* and every trace.  NewIInv is inductive.  It has DedupWrite's invariant  *)
(* on which tracks are in use (UseInv), which a flush keeps because its    *)
(* turns are about blocks of the table and about content that was put into *)
(* the buffer (BufferInv, TurnInv), and which the allocator needs.         *)
(***************************************************************************)
EXTENDS NewAlloc, DedupWriteProofs

(* The blocks in use hold content, all of them once phase 1 is over or a   *)
(* flush under way, and list one owner more than their capacity at most.   *)
BufferInv ==
  /\ fi = 0 => used < BufNum
  /\ \A i \in 1 .. used : buf[i].hash \in Hashes
  /\ zinfo.phases > 1 \/ fi > 0 => \A i \in BufIndex : buf[i].hash \in Hashes
  /\ \A i \in BufIndex :
       buf[i].lba # <<>> /\ Len(buf[i].lba) <= buf[i].cap + 1 /\ buf[i].cap > 0

(* Where a flush may be, what its turns are about, and when an instruction *)
(* is held up.  In phase 1 only a flush allocates.                         *)
TurnInv ==
  /\ pc = "idle" => fi = 0
  /\ fi = 0 => /\ pc # "flush" /\ after = NoInstruction
               /\ zinfo.phases = 1 => pc \notin {"alloc", "store"}
  /\ fi > 0 => /\ cur.lba \in LBAs /\ cur.i = 0 /\ cur.n = 1 /\ cur.hash \in Hashes
               /\ pc = "flush" => status[cur.pba] # "free"
  /\ after # NoInstruction => buffer_flushed /\ after.i < after.n /\ after.hash \in Hashes
  /\ zinfo.phases = 1 => ~buffer_flushed

(* No track has more than one owner without a cell of the array, but that  *)
(* a write is about to join: its count is one ahead.                       *)
RoomInv ==
  \A p \in Tracks :
    /\ Len(lba_list[p]) > 1
    /\ refs[p] > Capacity(lba_list[p]) =>
         /\ refs[p] = Capacity(lba_list[p]) + 1
         /\ fi = 0 /\ p = cur.pba /\ pc \in {"store", "mismatch"}

NewAllocatorInv == NewFrontier /\ TopPhases /\ FullMeansFull
NewUseInv == UseInv /\ gbtable = {}
NewIInv == NewTypeOK /\ NewAllocatorInv /\ NewUseInv /\ BufferInv /\ TurnInv /\ RoomInv

-----------------------------------------------------------------------------
(* Types.                                                                  *)

BufferBlocks == [hash : Hashes \cup {NoHash}, lba : Seq(LBAs), cap : Nat]

LEMMA NewBasics ==
  ASSUME NewTypeOK
  PROVE  /\ TypeOK /\ buf \in [BufIndex -> BufferBlocks]
         /\ used \in 0 .. BufNum /\ fi \in 0 .. BufNum /\ after \in Instructions
         /\ next_bottom \in Nat /\ buffer_flushed \in BOOLEAN
         /\ plain \in BOOLEAN /\ budget \in Nat
  BY DEF NewTypeOK, BufferBlocks

LEMMA NewTypeFrom ==
  ASSUME TypeOK', buf' \in [BufIndex -> BufferBlocks],
         used' \in 0 .. BufNum, fi' \in 0 .. BufNum, after' \in Instructions,
         next_bottom' \in Nat, buffer_flushed' \in BOOLEAN, plain' \in BOOLEAN, budget' \in Nat
  PROVE  NewTypeOK'
  BY DEF NewTypeOK, BufferBlocks

LEMMA BufferBounds == BufNum \in Nat /\ BufNum > 0 /\ BufCap \in Nat /\ BufCap > 0 /\ 1 \in BufIndex
  BY BufferAssumption DEF BufIndex

LEMMA CellsHold == LBAs \subseteq Cells /\ NoLba \in Cells
  BY DEF Cells

(* An array is as long as its capacity, or one cell longer.                *)
LEMMA CapacityIs ==
  ASSUME NEW s, Len(s) \in Nat, Len(s) > 1
  PROVE  /\ Capacity(s) \in Nat /\ Capacity(s) > 1
         /\ Capacity(s) <= Len(s) /\ Len(s) <= Capacity(s) + 1
<1>1. \A n \in Nat : n > 1 => /\ 2 * (n \div 2) \in Nat /\ 2 * (n \div 2) > 1
                             /\ 2 * (n \div 2) <= n /\ n <= 2 * (n \div 2) + 1
  OBVIOUS
<1>2. QED
  BY <1>1 DEF Capacity

LEMMA EvenLength ==
  ASSUME NEW s, NEW n \in Nat, Len(s) \in Nat, Len(s) = 2 * n \/ Len(s) = 2 * n + 1
  PROVE  Capacity(s) = 2 * n
<1>1. \A m \in Nat : m = 2 * n \/ m = 2 * n + 1 => 2 * (m \div 2) = 2 * n
  OBVIOUS
<1>2. QED
  BY <1>1 DEF Capacity

(* Doubling an array doubles its capacity, whether the cell past it has    *)
(* been written or not.                                                    *)
LEMMA IncreaseRefs ==
  ASSUME NEW s \in Seq(Cells), Len(s) > 1
  PROVE  /\ Increase(s) \in Seq(Cells) /\ Len(s) \in Nat /\ Len(Increase(s)) \in Nat
         /\ Len(Increase(s)) = 2 * Capacity(s) /\ Len(Increase(s)) > Len(s)
         /\ Capacity(Increase(s)) = 2 * Capacity(s)
<1>1. Len(s) \in Nat /\ Capacity(s) \in Nat /\ Capacity(s) > 1
      /\ Capacity(s) <= Len(s) /\ Len(s) <= Capacity(s) + 1
  BY LenProperties, CapacityIs
<1>2. PICK n \in Nat : n = 2 * Capacity(s) - Len(s)
  BY <1>1
<1>3. [i \in 1 .. n |-> NoLba] \in Seq(Cells) /\ Len([i \in 1 .. n |-> NoLba]) = n
  BY <1>2, CellsHold
<1>4. Increase(s) \in Seq(Cells) /\ Len(Increase(s)) = Len(s) + n
  BY <1>2, <1>3, ConcatProperties DEF Increase
<1>5. Len(Increase(s)) = 2 * Capacity(s) /\ Len(Increase(s)) \in Nat
  BY <1>1, <1>2, <1>4
<1>6. Capacity(Increase(s)) = 2 * Capacity(s)
  BY <1>1, <1>5, EvenLength
<1>7. QED
  BY <1>1, <1>4, <1>5, <1>6

(* Writing the cell past an array changes nothing but that cell.           *)
LEMMA ReachingRefs ==
  ASSUME NEW s \in Seq(Cells), Len(s) > 1, NEW k \in Nat
  PROVE  /\ Reaching(s, k) \in Seq(Cells) /\ Capacity(Reaching(s, k)) = Capacity(s)
         /\ Len(Reaching(s, k)) \in Nat /\ Len(s) <= Len(Reaching(s, k))
         /\ k <= Capacity(s) + 1 => k <= Len(Reaching(s, k))
         /\ \A i \in 1 .. Len(s) : Reaching(s, k)[i] = s[i]
         /\ \A i \in 1 .. Len(Reaching(s, k)) : i \in 1 .. Len(s) \/ Reaching(s, k)[i] = NoLba
<1>1. Len(s) \in Nat /\ Capacity(s) \in Nat /\ Capacity(s) > 1
      /\ Capacity(s) <= Len(s) /\ Len(s) <= Capacity(s) + 1
  BY LenProperties, CapacityIs
<1>2. CASE Len(s) = Capacity(s) /\ Capacity(s) < k
  <2>1. Reaching(s, k) = Append(s, NoLba)
    BY <1>2 DEF Reaching
  <2>2. Append(s, NoLba) \in Seq(Cells) /\ Len(Append(s, NoLba)) = Len(s) + 1
        /\ (\A i \in 1 .. Len(s) : Append(s, NoLba)[i] = s[i])
        /\ Append(s, NoLba)[Len(s) + 1] = NoLba
    BY CellsHold, AppendProperties
  <2>3. Capacity(Append(s, NoLba)) = Capacity(s)
    <3>1. PICK n \in Nat : n = Len(s) \div 2
      BY <1>1
    <3>2. Len(Append(s, NoLba)) = 2 * n + 1 /\ Capacity(s) = 2 * n
      BY <1>2, <2>2, <3>1 DEF Capacity
    <3>3. Len(Append(s, NoLba)) \in Nat
      BY <1>1, <2>2
    <3> DEFINE t == Append(s, NoLba)
    <3> HIDE DEF t
    <3>4. Len(t) \in Nat /\ Len(t) = 2 * n + 1
      BY <3>2, <3>3 DEF t
    <3>5. Capacity(t) = 2 * n
      BY <3>4, EvenLength
    <3>6. QED
      BY <3>2, <3>5 DEF t
  <2>4. QED
    BY <1>1, <1>2, <2>1, <2>2, <2>3
<1>3. CASE ~(Len(s) = Capacity(s) /\ Capacity(s) < k)
  <2>1. Reaching(s, k) = s
    BY <1>3 DEF Reaching
  <2>2. k <= Capacity(s) + 1 => k <= Len(s)
    BY <1>1, <1>3
  <2>3. QED
    BY <1>1, <2>1, <2>2
<1>4. QED
  BY <1>2, <1>3

(* What a flush is about when the turn of a block with owner l and content *)
(* h begins.                                                               *)
IsTurn(c) == c \in Instructions /\ c.lba \in LBAs /\ c.i = 0 /\ c.n = 1 /\ c.hash \in Hashes
LEMMA TurnIs ==
  ASSUME NEW l \in LBAs, NEW h \in Hashes
  PROVE  IsTurn([NoInstruction EXCEPT !.lba = l, !.hash = h])
<1>1. NoInstruction \in Instructions /\ l \in 0 .. L
  BY Geometry, LogicalNumAssumption, TraceAssumption DEF NoInstruction, Instructions, Tracks, LBAs
<1>2. [NoInstruction EXCEPT !.lba = l, !.hash = h] \in Instructions
  BY <1>1 DEF Instructions
<1>3. QED
  BY <1>1, <1>2 DEF NoInstruction, IsTurn

(* A block of the buffer that has content can have its turn. *)
LEMMA TurnType ==
  ASSUME NEW i \in BufIndex, buf' \in [BufIndex -> BufferBlocks],
         buf'[i].hash \in Hashes, buf'[i].lba # <<>>
  PROVE  IsTurn(Turn(i))
<1>1. buf'[i].lba[1] \in LBAs
  <2>1. buf'[i].lba \in Seq(LBAs)
    BY DEF BufferBlocks
  <2>2. QED
    BY <2>1
<1>2. QED
  BY <1>1, TurnIs DEF Turn

LEMMA InstructionBasics ==
  ASSUME TypeOK
  PROVE  /\ cur \in Instructions /\ cur.pba \in Tracks /\ cur.i \in Nat /\ cur.n \in Nat
         /\ cur.lba \in Nat /\ cur.pass \in BOOLEAN /\ NoInstruction \in Instructions
         /\ NoInstruction.hash = NoHash /\ NoInstruction.i = 0 /\ NoInstruction.n = 1
<1>1. cur \in Instructions /\ NoInstruction \in Instructions
  BY InstructionType DEF TypeOK
<1>2. QED
  BY <1>1, LogicalNumAssumption, TraceAssumption DEF Instructions, NoInstruction

(* One cell of one array of owners is set, after it has grown to g, or to  *)
(* h, which has the cell past it.                                          *)
LEMMA OwnerPut ==
  ASSUME TypeOK, NEW p \in Tracks, NEW g \in Seq(Cells), NEW h \in Seq(Cells),
         NEW k, NEW i, NEW l \in LBAs, Capacity(h) = Capacity(g), Len(g) > 1, Len(h) > 1,
         lba_list' = [lba_list EXCEPT ![p] = IF i = 0 THEN [h EXCEPT ![k] = l]
                                            ELSE IF i <= Len(g) THEN [g EXCEPT ![i] = l] ELSE g]
  PROVE  /\ lba_list' \in [Tracks -> Seq(Cells)]
         /\ Capacity(lba_list'[p]) = Capacity(g) /\ Len(lba_list'[p]) > 1
         /\ \A q \in Tracks \ {p} : lba_list'[q] = lba_list[q]
<1>1. /\ \A j : [g EXCEPT ![j] = l] \in Seq(Cells) /\ Len([g EXCEPT ![j] = l]) = Len(g)
      /\ \A j : [h EXCEPT ![j] = l] \in Seq(Cells) /\ Len([h EXCEPT ![j] = l]) = Len(h)
  BY PutType, CellsHold
<1> DEFINE new == IF i = 0 THEN [h EXCEPT ![k] = l]
                  ELSE IF i <= Len(g) THEN [g EXCEPT ![i] = l] ELSE g
<1>2. new \in Seq(Cells) /\ Len(new) \in {Len(g), Len(h)}
  BY <1>1
<1>3. lba_list' = [lba_list EXCEPT ![p] = new]
  OBVIOUS
<1> HIDE DEF new
<1>4. Capacity(new) = Capacity(g) /\ Len(new) > 1
  <2>1. CASE Len(new) = Len(g)
    BY <2>1 DEF Capacity
  <2>2. CASE Len(new) = Len(h)
    BY <2>2 DEF Capacity
  <2>3. QED
    BY <1>2, <2>1, <2>2
<1>5. QED
  BY <1>2, <1>3, <1>4 DEF TypeOK

(* A flush goes to the block whose turn is next, or comes to its end.      *)
LEMMA FlushStarts ==
  ASSUME NEW held_up \in Instructions, StartFlush(held_up), buf' \in [BufIndex -> BufferBlocks],
         \A i \in BufIndex : buf'[i].hash \in Hashes /\ buf'[i].lba # <<>>
  PROVE  /\ fi' = 1 /\ fi' \in 0 .. BufNum /\ after' = held_up /\ pc' = "search"
         /\ IsTurn(cur')
<1>1. IsTurn(Turn(1))
  BY BufferBounds, TurnType
<1>2. QED
  BY <1>1, BufferBounds DEF StartFlush

LEMMA FlushGoesOn ==
  ASSUME NewTypeOK, BufferInv, TurnInv, fi > 0, NextBlock
  PROVE  /\ buf' = buf /\ used' \in 0 .. BufNum /\ fi' \in 0 .. BufNum
         /\ after' \in Instructions /\ cur' \in Instructions
         /\ \/ /\ fi < BufNum /\ fi' = fi + 1 /\ used' = used /\ after' = after
               /\ pc' = "search" /\ IsTurn(cur')
            \/ /\ fi = BufNum /\ fi' = 0 /\ used' = 0 /\ after' = NoInstruction
               /\ \/ after = NoInstruction /\ pc' = "idle" /\ cur' = NoInstruction
                  \/ after # NoInstruction /\ pc' = "search" /\ cur' = after
<1>1. fi \in 0 .. BufNum /\ used \in 0 .. BufNum /\ after \in Instructions
      /\ buf \in [BufIndex -> BufferBlocks]
  BY NewBasics
<1>2. NoInstruction \in Instructions
  BY NewBasics, InstructionBasics
<1>3. CASE fi < BufNum
  <2>1. fi + 1 \in BufIndex /\ fi + 1 \in 0 .. BufNum
    BY <1>1, <1>3, BufferBounds DEF BufIndex
  <2>2. fi' = fi + 1 /\ used' = used /\ after' = after /\ pc' = "search" /\ cur' = Turn(fi + 1)
        /\ buf' = buf
    BY <1>3 DEF NextBlock
  <2>3. buf'[fi + 1].hash \in Hashes /\ buf'[fi + 1].lba # <<>>
    BY <2>1, <2>2 DEF BufferInv
  <2>4. IsTurn(Turn(fi + 1))
    BY <1>1, <2>1, <2>2, <2>3, TurnType
  <2>5. QED
    BY <1>1, <1>3, <2>1, <2>2, <2>4 DEF IsTurn
<1>4. CASE ~(fi < BufNum)
  <2>1. fi = BufNum
    BY <1>1, <1>4, BufferBounds
  <2>2. fi' = 0 /\ used' = 0 /\ after' = NoInstruction /\ buf' = buf
        /\ IF after = NoInstruction THEN Finish ELSE pc' = "search" /\ cur' = after
    BY <1>4 DEF NextBlock
  <2>3. QED
    BY <1>1, <1>2, <2>1, <2>2, BufferBounds DEF Finish
<1>5. QED
  BY <1>3, <1>4

(* What putting a block into the buffer, or joining one, makes of it.      *)
LEMMA BlockFilled ==
  ASSUME NewTypeOK, BufferInv, FillBlock, Target \in LBAs, cur.hash \in Hashes
  PROVE  /\ used + 1 \in BufIndex /\ used' = used + 1
         /\ buf' \in [BufIndex -> BufferBlocks]
         /\ \A i \in BufIndex \ {used + 1} : buf'[i] = buf[i]
         /\ buf'[used + 1].hash = cur.hash /\ buf'[used + 1].lba = <<Target>>
         /\ buf'[used + 1].cap = buf[used + 1].cap
<1>1. used + 1 \in BufIndex /\ used' = used + 1
  BY NewBasics, BufferBounds DEF BufferInv, FillBlock, Buffering, Phase1Write, BufIndex
<1>2. buf \in [BufIndex -> BufferBlocks]
  BY NewBasics
<1>3. buf' = [buf EXCEPT ![used + 1] =
                [[buf[used + 1] EXCEPT !.hash = cur.hash] EXCEPT !.lba = <<Target>>]]
  BY <1>1, <1>2 DEF FillBlock
<1> DEFINE new == [[buf[used + 1] EXCEPT !.hash = cur.hash] EXCEPT !.lba = <<Target>>]
<1>4. <<Target>> \in Seq(LBAs) /\ cur.hash \in Hashes \cup {NoHash}
  OBVIOUS
<1>5. [buf[used + 1] EXCEPT !.hash = cur.hash] \in BufferBlocks
  BY <1>1, <1>2, <1>4 DEF BufferBlocks
<1>6. new \in BufferBlocks /\ new.hash = cur.hash /\ new.lba = <<Target>>
      /\ new.cap = buf[used + 1].cap
  BY <1>1, <1>2, <1>4, <1>5 DEF BufferBlocks
<1> HIDE DEF new
<1>7. buf' = [buf EXCEPT ![used + 1] = new]
  BY <1>3 DEF new
<1>8. QED
  BY <1>1, <1>2, <1>6, <1>7

LEMMA BlockJoined ==
  ASSUME NewTypeOK, BufferInv, JoinBuffered, Target \in LBAs
  PROVE  /\ buf' \in [BufIndex -> BufferBlocks]
         /\ \A i \in BufIndex :
              /\ buf'[i].hash = buf[i].hash /\ buf'[i].lba # <<>>
              /\ Len(buf'[i].lba) <= buf'[i].cap + 1 /\ buf'[i].cap > 0
<1>1. buf \in [BufIndex -> BufferBlocks] /\ 1 .. used \subseteq BufIndex
  <2>1. used \in 0 .. BufNum /\ buf \in [BufIndex -> BufferBlocks]
    BY NewBasics
  <2>2. QED
    BY <2>1, BufferBounds DEF BufIndex
<1>2. PICK i \in 1 .. used :
        buf' = [buf EXCEPT ![i].lba = Append(@, Target), ![i].cap = JoinedCap(i)]
  BY DEF JoinBuffered, FirstOf, InBuffer
<1> DEFINE b == buf[i]
           cap == JoinedCap(i)
           new == [[b EXCEPT !.lba = Append(b.lba, Target)] EXCEPT !.cap = cap]
<1>3. i \in BufIndex /\ b \in BufferBlocks
  BY <1>1
<1>4. b.lba \in Seq(LBAs) /\ b.cap \in Nat /\ Len(b.lba) \in Nat /\ b.cap > 0
      /\ Len(b.lba) <= b.cap + 1
  BY <1>3, LenProperties DEF BufferBlocks, BufferInv
<1>5. Append(b.lba, Target) \in Seq(LBAs) /\ Len(Append(b.lba, Target)) = Len(b.lba) + 1
      /\ Append(b.lba, Target) # <<>>
  BY <1>4, AppendProperties, EmptySeq
<1>6. cap \in Nat /\ cap > 0 /\ Len(b.lba) + 1 <= cap + 1
  BY <1>4 DEF JoinedCap
<1>7. [b EXCEPT !.lba = Append(b.lba, Target)] \in BufferBlocks
  BY <1>3, <1>5 DEF BufferBlocks
<1>8. new \in BufferBlocks /\ new.hash = b.hash /\ new.lba = Append(b.lba, Target)
      /\ new.cap = cap
  BY <1>3, <1>5, <1>6, <1>7 DEF BufferBlocks
<1>9. buf' = [buf EXCEPT ![i] = new]
  BY <1>1, <1>2, <1>3
<1> HIDE DEF new, cap, b
<1>10. \A j \in BufIndex : buf'[j] = IF j = i THEN new ELSE buf[j]
  BY <1>1, <1>9
<1>11. ASSUME NEW j \in BufIndex
       PROVE  /\ buf'[j].hash = buf[j].hash /\ buf'[j].lba # <<>>
              /\ Len(buf'[j].lba) <= buf'[j].cap + 1 /\ buf'[j].cap > 0
  <2>1. CASE j = i
    BY <1>5, <1>6, <1>8, <1>10, <2>1 DEF b
  <2>2. CASE j # i
    BY <1>10, <2>2 DEF BufferInv
  <2>3. QED
    BY <2>1, <2>2
<1>12. QED
  BY <1>1, <1>3, <1>8, <1>9, <1>11

LEMMA NothingNewType ==
  ASSUME NewTypeOK, TypeOK', UNCHANGED newVars
  PROVE  NewTypeOK'
  BY DEF NewTypeOK, newVars, codeVars

LEMMA ShareType ==
  ASSUME NewTypeOK, RoomInv, InProgress, ShareOnDisk
  PROVE  TypeOK'
<1>0. TypeOK /\ cur.hash \in Hashes /\ Target \in LBAs
  BY NewBasics DEF ShareOnDisk, Phase1Write, InProgress, Running
<1>1. PICK p \in FirstOf(Stored(cur.hash)) :
       LET count == IF status[p] = "trimed" THEN refs[p] ELSE refs[p] + 1
           s == lba_list[p]
           grown == IF count + 1 > Capacity(s) THEN Increase(s) ELSE s IN
       /\ refs' = [refs EXCEPT ![p] = count]
       /\ ltp' = [ltp EXCEPT ![Target] = Mapped(p, cur.hash)]
       /\ \E i \in Positions(grown, refs'[0] + 1, Target) :
            lba_list' = [lba_list EXCEPT ![p] =
                           IF i = 0 THEN [grown EXCEPT ![count + 1] = Target]
                           ELSE IF i <= Len(grown) THEN [grown EXCEPT ![i] = Target] ELSE grown]
  BY DEF ShareOnDisk
<1> DEFINE count == IF status[p] = "trimed" THEN refs[p] ELSE refs[p] + 1
           s == lba_list[p]
           grown == IF count + 1 > Capacity(s) THEN Increase(s) ELSE s
<1>2. p \in Tracks
  BY DEF FirstOf, Stored
<1>3. count \in Nat /\ s \in Seq(Cells) /\ Len(s) > 1
  BY <1>0, <1>2 DEF TypeOK, RoomInv
<1>4. grown \in Seq(Cells) /\ Len(grown) > 1
  BY <1>3, IncreaseRefs
<1>5. PICK i : lba_list' = [lba_list EXCEPT ![p] =
                           IF i = 0 THEN [grown EXCEPT ![count + 1] = Target]
                           ELSE IF i <= Len(grown) THEN [grown EXCEPT ![i] = Target] ELSE grown]
  BY <1>1
<1>6. refs' = [refs EXCEPT ![p] = count] /\ ltp' = [ltp EXCEPT ![Target] = Mapped(p, cur.hash)]
  BY <1>1
<1> HIDE DEF grown, count, s
<1>7. lba_list' \in [Tracks -> Seq(Cells)]
  BY <1>0, <1>2, <1>4, <1>5, OwnerPut
<1>8. refs' \in [Tracks -> Nat] /\ ltp' \in [LBAs -> Entries]
  BY <1>0, <1>2, <1>3, <1>6, MappedType DEF TypeOK
<1>9. pc' = "idle" /\ cur' \in Instructions
  BY <1>0, InstructionBasics DEF ShareOnDisk, Finish
<1>10. QED
  BY <1>0, <1>7, <1>8, <1>9 DEF ShareOnDisk, TypeOK

(* A track is written. *)
LEMMA TrackWritten ==
  ASSUME TypeOK, NEW p \in Tracks, WriteTrack(p)
  PROVE  status' \in [Tracks -> Statuses] /\ current_use' \in 0 .. UseCap
<1>1. current_use' \in 0 .. UseCap
  BY AddUseType DEF TypeOK, WriteTrack
<1>2. QED
  BY <1>1 DEF TypeOK, WriteTrack, Statuses

LEMMA NewStoreType ==
  ASSUME NewTypeOK, RoomInv, InProgress, NewStoreShared \/ NewStoreOwned
  PROVE  TypeOK'
<1>0. TypeOK /\ cur.hash \in Hashes /\ Target \in LBAs /\ cur.pba \in Tracks /\ cur.lba \in LBAs
  <2>1. pc = "store" /\ TypeOK
    BY NewBasics DEF NewStoreShared, Sharing, NewStoreOwned
  <2>2. QED
    BY <2>1, InstructionBasics, LogicalNumAssumption DEF InProgress, Running, Target, LBAs
<1>1. CASE NewStoreShared
  <2> DEFINE s == lba_list[cur.pba]
             grown == IF refs[cur.pba] > Capacity(s) THEN Increase(s) ELSE s
  <2>1. s \in Seq(Cells) /\ Len(s) > 1
    BY <1>0 DEF TypeOK, RoomInv
  <2>2. grown \in Seq(Cells) /\ Len(grown) > 1
    BY <2>1, IncreaseRefs
  <2> DEFINE k == refs[cur.pba] + 1
  <2>3. PICK i : lba_list' = [lba_list EXCEPT ![cur.pba] =
                      IF i = 0 THEN [Reaching(grown, k) EXCEPT ![k] = cur.lba]
                      ELSE IF i <= Len(grown) THEN [grown EXCEPT ![i] = cur.lba] ELSE grown]
    <3>1. k - 1 = refs[cur.pba] /\ k \in Nat
      BY <1>0 DEF TypeOK
    <3>2. QED
      BY <1>1, <3>1 DEF NewStoreShared
  <2>k. k \in Nat
    BY <1>0 DEF TypeOK
  <2>r. Reaching(grown, k) \in Seq(Cells) /\ Capacity(Reaching(grown, k)) = Capacity(grown)
        /\ Len(Reaching(grown, k)) > 1
    BY <2>2, <2>k, ReachingRefs, LenProperties
  <2> HIDE DEF grown, s, k
  <2>4. lba_list' \in [Tracks -> Seq(Cells)]
    BY <1>0, <2>2, <2>3, <2>r, OwnerPut
  <2>5. QED
    BY <1>0, <1>1, <2>4, InstructionBasics DEF NewStoreShared, Sharing, Finish, StoreUnchanged,
      TypeOK
<1>2. CASE NewStoreOwned
  <2>1. [lba_list[cur.pba] EXCEPT ![1] = Target] \in Seq(Cells)
    BY <1>0, CellsHold, PutType DEF TypeOK
  <2>2. hash' \in [Tracks -> Hashes \cup {NoHash}] /\ lba_list' \in [Tracks -> Seq(Cells)]
    BY <1>0, <1>2, <2>1 DEF NewStoreOwned, TypeOK
  <2>3. status' \in [Tracks -> Statuses] /\ current_use' \in 0 .. UseCap
    BY <1>0, <1>2, TrackWritten DEF NewStoreOwned, TypeOK
  <2>4. cur' \in Instructions /\ pc' \in {"idle"} \cup Running \cup Stopped
    <3>1. CASE cur.i + 1 < cur.n
      BY <1>0, <1>2, <3>1, InstructionType DEF NewStoreOwned, TypeOK, Running
    <3>2. CASE ~(cur.i + 1 < cur.n)
      BY <1>0, <1>2, <3>2, InstructionBasics DEF NewStoreOwned, Finish
    <3>3. QED
      BY <3>1, <3>2
  <2>5. QED
    BY <1>0, <1>2, <2>2, <2>3, <2>4 DEF NewStoreOwned, TypeOK
<1>3. QED
  BY <1>1, <1>2

LEMMA WriteType ==
  ASSUME NewIInv, WriteStep
  PROVE  NewTypeOK'
<1>0. NewTypeOK /\ TypeOK /\ InProgress /\ BufferInv /\ RoomInv
  BY NewBasics DEF NewIInv, NewUseInv, UseInv
<1>n. NoInstruction \in Instructions /\ cur \in Instructions
  BY <1>0, InstructionBasics
<1>1. CASE ShareOnDisk
  BY <1>0, <1>1, ShareType, NothingNewType DEF ShareOnDisk
<1>2. CASE JoinBuffered
  <2>1. Target \in LBAs
    BY <1>2 DEF JoinBuffered, Buffering, Phase1Write
  <2>2. buf' \in [BufIndex -> BufferBlocks]
    BY <1>0, <1>2, <2>1, BlockJoined
  <2>3. TypeOK'
    BY <1>0, <1>2, <1>n DEF JoinBuffered, Finish, TypeOK, blocks
  <2>4. QED
    BY <1>0, <1>2, <2>2, <2>3, NewBasics, NewTypeFrom DEF JoinBuffered
<1>3. CASE FillBlock
  <2>1. Target \in LBAs /\ cur.hash \in Hashes
    BY <1>0, <1>3 DEF FillBlock, Buffering, Phase1Write, InProgress, Running
  <2>2. /\ used + 1 \in BufIndex /\ used' = used + 1
        /\ buf' \in [BufIndex -> BufferBlocks]
        /\ \A i \in BufIndex \ {used + 1} : buf'[i] = buf[i]
        /\ buf'[used + 1].hash = cur.hash /\ buf'[used + 1].lba = <<Target>>
    BY <1>0, <1>3, <2>1, BlockFilled
  <2>3. used' \in 0 .. BufNum
    BY <2>2, BufferBounds DEF BufIndex
  <2>4. /\ fi' \in 0 .. BufNum /\ after' \in Instructions /\ cur' \in Instructions
        /\ pc' \in {"idle", "search"}
    <3>1. CASE used' = BufNum
      <4>1. \A i \in BufIndex : buf'[i].hash \in Hashes /\ buf'[i].lba # <<>>
        <5>1. \A i \in BufIndex \ {used + 1} : i \in 1 .. used
          BY <2>2, <3>1, NewBasics, <1>0, BufferBounds DEF BufIndex
        <5>2. QED
          BY <1>0, <2>1, <2>2, <5>1 DEF BufferInv
      <4>2. StartFlush(NoInstruction)
        BY <1>3, <3>1 DEF FillBlock
      <4>3. QED
        BY <1>n, <2>2, <4>1, <4>2, FlushStarts DEF IsTurn
    <3>2. CASE used' # BufNum
      BY <1>0, <1>3, <1>n, <3>2, NewBasics DEF FillBlock, Finish
    <3>3. QED
      BY <3>1, <3>2
  <2>5. TypeOK'
    BY <1>0, <1>3, <2>4 DEF FillBlock, TypeOK, blocks, Running
  <2>6. QED
    BY <1>0, <1>3, <2>2, <2>3, <2>4, <2>5, NewBasics, NewTypeFrom DEF FillBlock
<1>4. CASE BeyondTable
  BY <1>0, <1>4, SearchType, NothingNewType DEF BeyondTable, Search
<1>5. CASE FlushAgain
  <2>1. buf' = buf /\ used' = used /\ StartFlush(cur) /\ zinfo.phases > 1
    BY <1>5 DEF FlushAgain
  <2>2. \A i \in BufIndex : buf'[i].hash \in Hashes /\ buf'[i].lba # <<>>
    BY <1>0, <2>1 DEF BufferInv
  <2>3. fi' \in 0 .. BufNum /\ after' \in Instructions /\ pc' = "search" /\ cur' \in Instructions
    BY <1>0, <1>n, <2>1, <2>2, FlushStarts, NewBasics DEF IsTurn
  <2>4. TypeOK'
    BY <1>0, <1>5, <2>3 DEF FlushAgain, TypeOK, blocks, Running
  <2>5. QED
    BY <1>0, <1>5, <2>1, <2>3, <2>4, NewBasics, NewTypeFrom DEF FlushAgain
<1>6. CASE Lookup
  BY <1>0, <1>6, SearchType, NothingNewType DEF Lookup
<1>7. CASE NewMismatch
  BY <1>0, <1>7, StoreType, NothingNewType DEF NewMismatch
<1>8. CASE NewStoreShared
  BY <1>0, <1>8, NewStoreType, NothingNewType DEF NewStoreShared
<1>9. CASE NewStoreOwned
  BY <1>0, <1>9, NewStoreType, NothingNewType DEF NewStoreOwned
<1>10. QED
  BY <1>1, <1>2, <1>3, <1>4, <1>5, <1>6, <1>7, <1>8, <1>9 DEF WriteStep

(* All owners of a buffer block are mapped to a track. *)
LEMMA AllMapped ==
  ASSUME TypeOK, NEW owners \in Seq(LBAs), NEW p \in Tracks, cur.hash \in Hashes, MapAll(owners, p)
  PROVE  /\ ltp' \in [LBAs -> Entries]
         /\ \A l \in LBAs : ltp'[l] = Mapped(p, cur.hash) \/ ltp'[l] = ltp[l]
  BY MappedType DEF TypeOK, MapAll

(* The block's owners go to the array of a track, from cell first on. *)
LEMMA OwnersListedFrom ==
  ASSUME NEW s \in Seq(Cells), NEW owners \in Seq(LBAs), NEW first \in Nat,
         NEW t, t = [i \in 1 .. Len(s) |-> IF i - first + 1 \in 1 .. Len(owners)
                                             THEN owners[i - first + 1] ELSE s[i]]
  PROVE  t \in Seq(Cells) /\ Len(t) = Len(s)
<1>1. Len(s) \in Nat /\ \A i \in 1 .. Len(s) : s[i] \in Cells
  BY LenProperties, ElementOfSeq
<1>2. \A j \in 1 .. Len(owners) : owners[j] \in Cells
  BY ElementOfSeq, CellsHold
<1>3. QED
  BY <1>1, <1>2

(* The owners of a block take the place of those of a track, which may be  *)
(* one less than there are cells now.                                      *)
LEMMA WithOwnersRefs ==
  ASSUME NEW s \in Seq(Cells), Len(s) > 1, NEW owners \in Seq(LBAs),
         Len(owners) <= Capacity(s) + 1
  PROVE  /\ WithOwners(s, owners) \in Seq(Cells)
         /\ Capacity(WithOwners(s, owners)) = Capacity(s)
         /\ Len(WithOwners(s, owners)) \in Nat /\ Len(WithOwners(s, owners)) > 1
         /\ Len(owners) <= Len(WithOwners(s, owners)) /\ Len(s) <= Len(WithOwners(s, owners))
         /\ \A i \in 1 .. Len(WithOwners(s, owners)) :
              WithOwners(s, owners)[i] = IF i <= Len(owners) THEN owners[i]
                                         ELSE IF i <= Len(s) THEN s[i] ELSE NoLba
<1> DEFINE array == Reaching(s, Len(owners))
           new == [i \in 1 .. Len(array) |-> IF i <= Len(owners) THEN owners[i] ELSE array[i]]
<1>1. Len(owners) \in Nat /\ Len(s) \in Nat
  BY LenProperties
<1>2. /\ array \in Seq(Cells) /\ Capacity(array) = Capacity(s) /\ Len(array) \in Nat
      /\ Len(s) <= Len(array) /\ Len(owners) <= Len(array)
      /\ \A i \in 1 .. Len(s) : array[i] = s[i]
      /\ \A i \in 1 .. Len(array) : i \in 1 .. Len(s) \/ array[i] = NoLba
  BY <1>1, ReachingRefs
<1>3. WithOwners(s, owners) = new
  BY DEF WithOwners
<1> HIDE DEF array
<1>4. \A i \in 1 .. Len(owners) : owners[i] \in Cells
  BY ElementOfSeq, CellsHold
<1>5. \A i \in 1 .. Len(array) : array[i] \in Cells
  BY <1>2, ElementOfSeq
<1>6. new \in Seq(Cells) /\ Len(new) = Len(array)
  BY <1>1, <1>2, <1>4, <1>5
<1>7. \A i \in 1 .. Len(new) : new[i] = IF i <= Len(owners) THEN owners[i]
                                       ELSE IF i <= Len(s) THEN s[i] ELSE NoLba
  BY <1>1, <1>2, <1>6
<1> HIDE DEF new
<1>8. Capacity(new) = Capacity(s)
  BY <1>2, <1>6 DEF Capacity
<1>9. Len(new) \in Nat /\ Len(new) > 1
  BY <1>1, <1>2, <1>6
<1>10. QED
  BY <1>2, <1>3, <1>6, <1>7, <1>8, <1>9

LEMMA FlushBasics ==
  ASSUME NewIInv, fi > 0, pc \in Running
  PROVE  /\ TypeOK /\ fi \in BufIndex /\ buf[fi] \in BufferBlocks
         /\ buf[fi].lba \in Seq(LBAs) /\ Len(buf[fi].lba) \in Nat /\ Len(buf[fi].lba) > 0
         /\ cur.hash \in Hashes /\ cur.pba \in Tracks /\ Target \in LBAs /\ Target = cur.lba
         /\ lba_list[cur.pba] \in Seq(Cells) /\ Len(lba_list[cur.pba]) \in Nat
         /\ Len(lba_list[cur.pba]) > 1 /\ refs[cur.pba] \in Nat
<1>1. NewTypeOK /\ TypeOK /\ BufferInv /\ TurnInv /\ RoomInv
  BY NewBasics DEF NewIInv
<1>2. fi \in BufIndex /\ buf[fi] \in BufferBlocks
  BY <1>1, NewBasics, BufferBounds DEF BufIndex
<1>3. buf[fi].lba \in Seq(LBAs) /\ buf[fi].lba # <<>>
  BY <1>1, <1>2 DEF BufferBlocks, BufferInv
<1>4. Len(buf[fi].lba) \in Nat /\ Len(buf[fi].lba) > 0
  BY <1>3, LenProperties, EmptySeq
<1>5. cur.pba \in Tracks /\ cur.hash \in Hashes /\ Target = cur.lba /\ Target \in LBAs
  BY <1>1, InstructionBasics DEF TurnInv, Target
<1>6. lba_list[cur.pba] \in Seq(Cells) /\ refs[cur.pba] \in Nat /\ Len(lba_list[cur.pba]) > 1
  BY <1>1, <1>5 DEF TypeOK, RoomInv
<1>7. QED
  BY <1>1, <1>2, <1>3, <1>4, <1>5, <1>6, LenProperties

(* Where the owners of a block go to a track, its array has a cell for     *)
(* each but the last.                                                      *)
LEMMA StoringBasics ==
  ASSUME NewIInv, Storing
  PROVE  /\ pc \in Running /\ Len(buf[fi].lba) <= Capacity(lba_list[cur.pba]) + 1
         /\ Capacity(lba_list[cur.pba]) \in Nat
<1>1. fi > 0 /\ pc \in Running
  BY DEF Storing, Running
<1>2. Len(buf[fi].lba) \in Nat /\ Capacity(lba_list[cur.pba]) \in Nat
  BY <1>1, FlushBasics, CapacityIs
<1>3. QED
  BY <1>1, <1>2 DEF Storing, NeededToStore

LEMMA FlushType ==
  ASSUME NewIInv, FlushStep
  PROVE  NewTypeOK'
<1>0. NewTypeOK /\ TypeOK /\ InProgress /\ BufferInv /\ TurnInv /\ RoomInv /\ fi > 0 /\ pc \in Running
  BY NewBasics DEF NewIInv, NewUseInv, UseInv, FlushStep, FlushUpdate, FlushRestore, FlushNew,
    FlushGrow, FlushJoin, FlushStore, Storing, FlushTurn, Searching, Running
<1>b. /\ fi \in BufIndex /\ buf[fi] \in BufferBlocks
      /\ buf[fi].lba \in Seq(LBAs) /\ Len(buf[fi].lba) \in Nat /\ Len(buf[fi].lba) > 0
      /\ cur.hash \in Hashes /\ cur.pba \in Tracks /\ Target \in LBAs /\ Target = cur.lba
      /\ lba_list[cur.pba] \in Seq(Cells) /\ Len(lba_list[cur.pba]) \in Nat
      /\ Len(lba_list[cur.pba]) > 1 /\ refs[cur.pba] \in Nat
  BY <1>0, FlushBasics
<1>1. CASE FlushUpdate
  <2>1. Updating
    BY <1>1 DEF FlushUpdate, FlushTurn, Updating, NeverWritten, Deleted, Present
  <2>2. QED
    BY <1>0, <1>1, <2>1, UpdateType, NothingNewType DEF FlushUpdate
<1>2. CASE FlushRestore
  <2>1. ltp[Target].pba \in Tracks
    BY <1>0, <1>b DEF TypeOK, Entries
  <2>2. \A q \in Holding(cur.hash) : q \in Tracks
    BY HoldingType
  <2>3. PICK q \in Tracks : cur' = [cur EXCEPT !.pba = q] /\ pc' \in {"store", "flush"}
    BY <1>2, <2>1, <2>2 DEF FlushRestore, FirstOf
  <2>4. cur' \in Instructions
    BY <1>0, <2>3 DEF TypeOK, Instructions
  <2>5. TypeOK'
    BY <1>0, <1>2, <2>3, <2>4 DEF FlushRestore, TypeOK, blocks, Running
  <2>6. QED
    BY <1>0, <1>2, <2>5, NothingNewType DEF FlushRestore
<1>3. CASE FlushNew
  <2>1. TypeOK'
    BY <1>0, <1>3 DEF FlushNew, TypeOK, blocks, Running
  <2>2. QED
    BY <1>0, <1>3, <2>1, NothingNewType DEF FlushNew
<1>4. CASE FlushGrow
  <2>1. Increase(lba_list[cur.pba]) \in Seq(Cells)
    BY <1>b, IncreaseRefs
  <2>2. lba_list' \in [Tracks -> Seq(Cells)]
    BY <1>0, <1>b, <1>4, <2>1 DEF FlushGrow, TypeOK
  <2>3. TypeOK'
    BY <1>0, <1>4, <2>2 DEF FlushGrow, TypeOK
  <2>4. QED
    BY <1>0, <1>4, <2>3, NothingNewType DEF FlushGrow
<1>5. CASE FlushJoin
  <2> DEFINE p == cur.pba
             owners == buf[fi].lba
             first == refs[p] + 3
             joined == [i \in 1 .. Len(lba_list[p]) |->
                          IF i - first + 1 \in 1 .. Len(owners)
                          THEN owners[i - first + 1] ELSE lba_list[p][i]]
  <2>1. refs' = [refs EXCEPT ![p] = refs[p] + Len(owners) + 1]
        /\ lba_list' = [lba_list EXCEPT ![p] = joined]
        /\ MapAll(owners, p) /\ NextBlock
    BY <1>5 DEF FlushJoin
  <2>2. joined \in Seq(Cells)
    <3>1. first \in Nat
      BY <1>b
    <3>2. QED
      BY <1>b, <3>1, OwnersListedFrom
  <2> HIDE DEF joined
  <2>3. lba_list' \in [Tracks -> Seq(Cells)] /\ refs' \in [Tracks -> Nat]
    BY <1>0, <1>b, <2>1, <2>2 DEF TypeOK
  <2>4. ltp' \in [LBAs -> Entries]
    BY <1>0, <1>b, <2>1, AllMapped
  <2>5. buf' = buf /\ used' \in 0 .. BufNum /\ fi' \in 0 .. BufNum /\ after' \in Instructions
        /\ cur' \in Instructions /\ pc' \in {"idle", "search"}
    BY <1>0, <2>1, FlushGoesOn
  <2>6. TypeOK'
    BY <1>0, <1>5, <2>3, <2>4, <2>5 DEF FlushJoin, TypeOK, Running
  <2>7. QED
    BY <1>0, <1>5, <2>5, <2>6, NewBasics, NewTypeFrom DEF FlushJoin
<1>6. CASE FlushStore
  <2> DEFINE p == cur.pba
             owners == buf[fi].lba
             stored == WithOwners(lba_list[p], owners)
  <2>1. refs' = [refs EXCEPT ![p] = Len(owners) - 1]
        /\ hash' = [hash EXCEPT ![p] = cur.hash]
        /\ lba_list' = [lba_list EXCEPT ![p] = stored]
        /\ MapAll(owners, p) /\ WriteTrack(p) /\ NextBlock
    BY <1>6 DEF FlushStore
  <2>2. stored \in Seq(Cells)
    BY <1>b, <1>6, StoringBasics, WithOwnersRefs DEF FlushStore
  <2> HIDE DEF stored
  <2>3. /\ lba_list' \in [Tracks -> Seq(Cells)] /\ refs' \in [Tracks -> Nat]
        /\ hash' \in [Tracks -> Hashes \cup {NoHash}]
    BY <1>0, <1>b, <2>1, <2>2 DEF TypeOK
  <2>4. ltp' \in [LBAs -> Entries]
    BY <1>0, <1>b, <2>1, AllMapped
  <2>5. status' \in [Tracks -> Statuses] /\ current_use' \in 0 .. UseCap
    BY <1>0, <1>b, <2>1, TrackWritten
  <2>6. buf' = buf /\ used' \in 0 .. BufNum /\ fi' \in 0 .. BufNum /\ after' \in Instructions
        /\ cur' \in Instructions /\ pc' \in {"idle", "search"}
    BY <1>0, <2>1, FlushGoesOn
  <2>7. TypeOK'
    BY <1>0, <1>6, <2>3, <2>4, <2>5, <2>6 DEF FlushStore, TypeOK, Running
  <2>8. QED
    BY <1>0, <1>6, <2>6, <2>7, NewBasics, NewTypeFrom DEF FlushStore
<1>7. QED
  BY <1>1, <1>2, <1>3, <1>4, <1>5, <1>6 DEF FlushStep

(* From phase 2 on the allocator is DedupWrite's, with its invariant.      *)
LEMMA LaterAllocator ==
  ASSUME NewIInv, zinfo.phases > 1
  PROVE  AllocatorInv
  BY DEF NewIInv, NewAllocatorInv, AllocatorInv, Phase1Frontier

NewPhase1Step == NewPhase1 \/ NewPhase1Last \/ NewPhase1Full
LaterStep == AllocPhase2 \/ AllocPhase3 \/ AllocPhase3Over \/ AllocPhase4 \/ AllocDiskFull

LEMMA AllocateCases ==
  ASSUME NewIInv, NewAllocate
  PROVE  \/ NewPhase1Step /\ zinfo.phases = 1
         \/ LaterStep /\ Alloc /\ zinfo.phases > 1 /\ AllocatorInv /\ UNCHANGED newVars
<1>1. CASE NewPhase1Step
  BY <1>1 DEF NewPhase1Step, NewPhase1, NewPhase1Last, NewPhase1Full, Allocating
<1>2. CASE LaterStep /\ UNCHANGED newVars
  <2>1. zinfo.phases > 1
    <3>1. /\ AllocPhase2 => Allocating(2)
          /\ AllocPhase3 => Allocating(3)
          /\ AllocPhase3Over => Allocating(3)
          /\ AllocPhase4 => Allocating(4)
          /\ AllocDiskFull => Allocating(4)
      BY DEF AllocPhase2, AllocPhase3, AllocPhase3Over, AllocPhase4, AllocDiskFull
    <3>2. QED
      BY <1>2, <3>1 DEF LaterStep, Allocating
  <2>2. QED
    BY <1>2, <2>1, LaterAllocator DEF LaterStep, Alloc
<1>3. QED
  BY <1>1, <1>2 DEF NewAllocate, NewPhase1Step, LaterStep

LEMMA AllocateType ==
  ASSUME NewIInv, NewAllocate
  PROVE  NewTypeOK'
<1>0. NewTypeOK /\ TypeOK /\ InProgress /\ zinfo \in Allocators /\ NewFrontier
  BY NewBasics DEF NewIInv, NewUseInv, UseInv, TypeOK, NewAllocatorInv
<1>1. ASSUME status' \in [Tracks -> Statuses], ltp' \in [LBAs -> Entries], cur' \in Instructions,
             pc' \in {"idle"} \cup Running \cup Stopped, zinfo' \in Allocators,
             next_bottom' \in Nat, NewAllocUnchanged
      PROVE  NewTypeOK'
  <2>1. TypeOK'
    BY <1>0, <1>1 DEF TypeOK, NewAllocUnchanged, AllocUnchanged
  <2>2. QED
    BY <1>0, <1>1, <2>1, NewBasics, NewTypeFrom DEF NewAllocUnchanged, buffer
<1>2. CASE NewPhase1
  <2>1. next_bottom \in Tracks /\ next_bottom \in Nat /\ next_bottom + 2 \in Nat
    BY <1>0, <1>2, NewBasics, TracksNat DEF NewPhase1, Allocating, NewFrontier, Bottoms
  <2>2. QED
    BY <1>0, <1>1, <1>2, <2>1, TryType DEF NewPhase1, Allocating
<1>3. CASE NewPhase1Last \/ NewPhase1Full
  <2>1. phase1_start \in Tracks /\ phase1_end \in Tracks
    BY Geometry DEF Tracks
  <2>2. zinfo.current_track \in Tracks
    BY <1>0, <1>3, <2>1 DEF NewPhase1Last, NewPhase1Full, Allocating, NewFrontier
  <2>3. next_bottom' \in Nat /\ NewAllocUnchanged /\ pc = "alloc"
    BY <1>0, <1>3, NewBasics DEF NewPhase1Last, NewPhase1Full, Allocating
  <2>4. CASE NewPhase1Last
    <3>1. zinfo' \in Allocators
      BY <1>0, <2>4, <2>2, TracksNat, AllocatorType DEF NewPhase1Last
    <3>2. QED
      BY <1>0, <1>1, <2>2, <2>3, <2>4, <3>1, TryType DEF NewPhase1Last
  <2>5. CASE NewPhase1Full
    <3>1. ASSUME NEW t \in Tracks, Book(t),
                 zinfo' = [zinfo EXCEPT !.current_track = t, !.phase1_is_full = FALSE]
          PROVE  NewTypeOK'
      <4>1. zinfo' \in Allocators
        BY <1>0, <3>1, TracksNat, AllocatorType
      <4>2. QED
        BY <1>0, <1>1, <2>3, <3>1, <4>1, BookType
    <3>2. ASSUME TryTrack(zinfo.current_track),
                 zinfo' = [zinfo EXCEPT !.phases = 2, !.current_track = phase2_start]
          PROVE  NewTypeOK'
      <4>1. phase2_start \in Nat /\ 2 \in 1 .. 4
        BY Geometry
      <4>2. zinfo' \in Allocators
        BY <1>0, <3>2, <4>1, AllocatorType
      <4>3. QED
        BY <1>0, <1>1, <2>2, <2>3, <3>2, <4>2, TryType
    <3>3. QED
      BY <2>5, <3>1, <3>2 DEF NewPhase1Full, FirstOf, Free, EveryOther
  <2>6. QED
    BY <1>3, <2>4, <2>5
<1>4. CASE Alloc /\ AllocatorInv /\ UNCHANGED newVars
  BY <1>0, <1>4, AllocType, NothingNewType
<1>5. QED
  BY <1>2, <1>3, <1>4, AllocateCases DEF NewPhase1Step

(* A write past an array ends a write or a flush and changes nothing else. *)
LEMMA OverrunFacts ==
  ASSUME NewIInv, Overrun
  PROVE  /\ pc' = "undefined" /\ pc' \notin Running /\ pc \in {"search", "store"}
         /\ UNCHANGED <<blocks, ltp, zinfo, current_use, gbtable, cur, newVars>>
         /\ fi = 0 /\ pc = "store" => refs[cur.pba] = Capacity(lba_list[cur.pba])
<1>1. fi > 0 => fi # 0
  BY SMT
<1>2. QED
  BY <1>1 DEF Overrun, Buffering, Phase1Write, Sharing, SharesPast, Storing, Running

LEMMA NewNextType ==
  ASSUME NewIInv, [NewNext]_allVars
  PROVE  NewTypeOK'
<1>0. NewTypeOK /\ TypeOK
  BY NewBasics DEF NewIInv
<1>1. ASSUME NEW l \in 0 .. L, NEW n \in 1 .. MaxBlocks, NEW h \in Hashes, NewStartWrite(l, n, h)
      PROVE  NewTypeOK'
  <2>1. TypeOK'
    BY <1>0, <1>1, StartType DEF NewStartWrite
  <2>2. plain' \in BOOLEAN /\ budget' \in Nat
    BY <1>0, <1>1, NewBasics DEF NewStartWrite, CountInstruction
  <2>3. QED
    BY <1>0, <1>1, <2>1, <2>2, NewBasics, NewTypeFrom DEF NewStartWrite, codeVars
<1>2. ASSUME NEW l \in LBAs, NewTrim(l)
      PROVE  NewTypeOK'
  <2>1. TypeOK'
    BY <1>0, <1>2, TrimType DEF NewTrim
  <2>2. plain' \in BOOLEAN /\ budget' \in Nat
    BY <1>0, <1>2, NewBasics DEF NewTrim, CountInstruction
  <2>3. QED
    BY <1>0, <1>2, <2>1, <2>2, NewBasics, NewTypeFrom DEF NewTrim, codeVars
<1>3. CASE UNCHANGED allVars
  BY <1>0, <1>3 DEF allVars, vars, newVars, codeVars, NewTypeOK, TypeOK
<1>4. CASE Overrun
  <2>1. TypeOK'
    BY <1>0, <1>4, OverrunFacts DEF TypeOK, blocks, Stopped
  <2>2. QED
    BY <1>0, <1>4, <2>1, OverrunFacts, NothingNewType
<1>5. QED
  BY <1>1, <1>2, <1>3, <1>4, WriteType, FlushType, AllocateType DEF NewNext, NewProgress

-----------------------------------------------------------------------------
(* Which tracks are free, and the allocator.                               *)

LEMMA WriteFree ==
  ASSUME NewIInv, WriteStep
  PROVE  SameFree /\ zinfo' = zinfo /\ next_bottom' = next_bottom /\ pc' # "disk_full"
<1>0. TypeOK /\ UseInv
  BY NewBasics DEF NewIInv, NewUseInv
<1>1. CASE ShareOnDisk \/ JoinBuffered \/ NewStoreShared
  BY <1>1 DEF ShareOnDisk, JoinBuffered, NewStoreShared, StoreUnchanged, SameFree, blocks, Finish,
    newVars, codeVars
<1>2. CASE FillBlock \/ FlushAgain
  BY <1>2 DEF FillBlock, FlushAgain, StartFlush, SameFree, blocks, Finish
<1>3. CASE BeyondTable \/ Lookup
  <2>1. Search /\ UNCHANGED newVars
    BY <1>3 DEF BeyondTable, Lookup, Search
  <2>2. zinfo' = zinfo /\ pc' \in {"store", "alloc", "undefined"}
    BY <2>1 DEF Search, Overwrites, SearchOverwriteInPlace, UpdateInPlace, SearchOverwriteSwapped,
      UpdateSwapped, SearchRestore, SearchRestoreMoved, SearchSame, SearchShare, SearchTakeOver,
      SearchNew, SearchBeyond, Found
  <2>3. QED
    BY <1>0, <2>1, <2>2, SearchFree DEF newVars, codeVars
<1>4. CASE NewMismatch
  BY <1>4 DEF NewMismatch, StoreMismatch, StoreUnchanged, SameFree, newVars, codeVars
<1>5. CASE NewStoreOwned
  <2>1. cur.pba \in Tracks /\ status[cur.pba] # "free"
    BY <1>0, <1>5, InstructionBasics DEF NewStoreOwned, UseInv, InProgress
  <2>2. status' \in {status, [status EXCEPT ![cur.pba] = "in_use"]}
    BY <1>5 DEF NewStoreOwned, WriteTrack
  <2>3. SameFree
    BY <1>0, <2>1, <2>2 DEF SameFree, TypeOK
  <2>4. QED
    BY <1>5, <2>3 DEF NewStoreOwned, Finish, newVars, codeVars
<1>6. QED
  BY <1>1, <1>2, <1>3, <1>4, <1>5 DEF WriteStep

LEMMA FlushFree ==
  ASSUME NewIInv, FlushStep
  PROVE  SameFree /\ zinfo' = zinfo /\ next_bottom' = next_bottom /\ pc' # "disk_full"
<1>0. NewTypeOK /\ TypeOK /\ UseInv /\ BufferInv /\ TurnInv
  BY NewBasics DEF NewIInv, NewUseInv
<1>1. CASE FlushUpdate
  <2>1. Updating
    BY <1>1 DEF FlushUpdate, FlushTurn, Updating, NeverWritten, Deleted, Present
  <2>2. zinfo' = zinfo /\ pc' = "store"
    BY <2>1 DEF Updating, UpdateInPlace, UpdateSwapped, Found
  <2>3. QED
    BY <1>0, <1>1, <2>1, <2>2, UpdateFree DEF FlushUpdate, newVars, codeVars
<1>2. CASE FlushRestore
  <2>1. pc' \in {"store", "flush"}
    BY <1>2 DEF FlushRestore
  <2>2. QED
    BY <1>2, <2>1 DEF FlushRestore, SameFree, blocks, newVars, codeVars
<1>3. CASE FlushNew \/ FlushGrow
  BY <1>3 DEF FlushNew, FlushGrow, SameFree, blocks, newVars, codeVars
<1>4. CASE FlushJoin \/ FlushStore
  <2>1. fi > 0 /\ NextBlock
    BY <1>4 DEF FlushJoin, FlushStore, Storing
  <2>2. pc' \in {"idle", "search"}
    BY <1>0, <2>1, FlushGoesOn
  <2>3. CASE FlushJoin
    BY <2>2, <2>3 DEF FlushJoin, SameFree
  <2>4. CASE FlushStore
    <3>1. cur.pba \in Tracks /\ status[cur.pba] # "free"
      BY <1>0, <2>4, InstructionBasics DEF FlushStore, Storing, UseInv, InProgress
    <3>2. status' = [status EXCEPT ![cur.pba] = "in_use"]
      BY <2>4 DEF FlushStore, WriteTrack
    <3>3. SameFree
      BY <1>0, <3>1, <3>2 DEF SameFree, TypeOK
    <3>4. QED
      BY <2>2, <2>4, <3>3 DEF FlushStore
  <2>5. QED
    BY <1>4, <2>3, <2>4
<1>5. QED
  BY <1>1, <1>2, <1>3, <1>4 DEF FlushStep

LEMMA NewAllocatorKept ==
  ASSUME NewAllocatorInv, SameFree, zinfo' = zinfo, next_bottom' = next_bottom, pc' # "disk_full"
  PROVE  NewAllocatorInv'
  BY DEF NewAllocatorInv, NewFrontier, TopPhases, FullMeansFull, SameFree, Bottoms

(* Phase 1 keeps the agreement of counter and tracks, and leaves no bottom *)
(* track to phase 2.                                                       *)
LEMMA Phase1Allocator ==
  ASSUME NewIInv, NewPhase1Step, zinfo.phases = 1
  PROVE  NewAllocatorInv'
<1>0. /\ TypeOK /\ NewFrontier /\ pc = "alloc" /\ zinfo \in Allocators
      /\ next_bottom \in Bottoms /\ next_bottom \in Tracks /\ next_bottom \in Nat
      /\ zinfo.current_track \in {phase1_start, phase1_end}
  BY NewBasics, TracksNat DEF NewIInv, NewAllocatorInv, NewFrontier, TypeOK, Bottoms, NewPhase1Step,
    NewPhase1, NewPhase1Last, NewPhase1Full, Allocating
<1>e. /\ phase1_start \in Bottoms /\ phase1_end \in Bottoms /\ phase1_start # phase1_end
      /\ phase1_start \in Tracks /\ phase1_end \in Tracks
      /\ phase1_end \in Nat /\ phase1_start = 0
  <2>1. N \in Nat /\ N >= 4 /\ N % 4 = 0 /\ phase1_start = 0 /\ phase1_end = N - 2
    BY Geometry, TrackNumAssumption
  <2>2. QED
    BY <2>1 DEF Bottoms, Tracks, is_toptrack
<1>1. CASE NewPhase1
  <2> DEFINE c == next_bottom
  <2>1. c < phase1_end /\ ~zinfo.phase1_is_full /\ TryTrack(c) /\ zinfo' = zinfo
        /\ next_bottom' = c + 2
    BY <1>1 DEF NewPhase1, BottomLeft
  <2>2. zinfo.current_track = phase1_start
    BY <1>0, <1>e, <2>1 DEF NewFrontier
  <2>3. \A t \in Tracks : status[t] = "free" <=> is_toptrack(t) \/ t >= c
    BY <1>0, <2>2 DEF NewFrontier
  <2>4. status[c] = "free"
    BY <1>0, <2>3
  <2>5. status' = [status EXCEPT ![c] = "booked"] /\ pc' = "store"
    BY <2>1, <2>4 DEF TryTrack, Book, Found
  <2>6. \A t \in Tracks : status'[t] = "free" <=> is_toptrack(t) \/ (t >= c /\ t # c)
    BY <1>0, <2>3, <2>5 DEF TypeOK, Bottoms
  <2>7. c + 2 \in Bottoms
    BY <1>0, <1>e, <2>1, NextBottomTrack
  <2>8. \A t \in Bottoms : t >= c /\ t # c <=> t >= c + 2
    <3>1. \A t \in Bottoms : t >= c <=> t = c \/ t >= c + 2
      BY <1>0, NextBottomTrack
    <3>2. QED
      BY <1>0, <3>1
  <2>9. \A t \in Tracks : status'[t] = "free" <=> is_toptrack(t) \/ t >= c + 2
    BY <2>6, <2>8 DEF Bottoms
  <2>10. QED
    BY <1>e, <2>1, <2>2, <2>5, <2>7, <2>9
      DEF NewAllocatorInv, NewFrontier, TopPhases, FullMeansFull
<1>2. CASE NewPhase1Last
  <2> DEFINE c == zinfo.current_track
  <2>1. ~(next_bottom < phase1_end) /\ TryTrack(c) /\ next_bottom' = next_bottom
        /\ zinfo' = [zinfo EXCEPT !.phase1_is_full = TRUE]
    BY <1>2 DEF NewPhase1Last, BottomLeft
  <2>2. next_bottom <= phase1_end
    BY <1>0, NextBottomTrack
  <2>3. next_bottom = phase1_end
    BY <1>0, <1>e, <2>1, <2>2
  <2>4. status[c] # "free"
    <3>1. CASE c = phase1_start
      <4>1. ~(phase1_start >= phase1_end)
        BY <1>e
      <4>2. QED
        BY <1>0, <1>e, <2>3, <3>1, <4>1 DEF NewFrontier, Bottoms
    <3>2. CASE c = phase1_end
      BY <1>0, <1>e, <3>2 DEF NewFrontier, Bottoms
    <3>3. QED
      BY <1>0, <3>1, <3>2
  <2>5. status' = status /\ pc' = pc
    BY <2>1, <2>4 DEF TryTrack
  <2>6. zinfo'.phases = 1 /\ zinfo'.current_track = c /\ zinfo'.phase1_is_full
    BY <1>0, <2>1 DEF Allocators
  <2>7. QED
    BY <1>0, <1>e, <2>1, <2>3, <2>5, <2>6 DEF NewAllocatorInv, NewFrontier, TopPhases, FullMeansFull
<1>3. CASE NewPhase1Full
  <2>1. next_bottom = phase1_end /\ next_bottom' = next_bottom
    BY <1>0, <1>3 DEF NewPhase1Full, NewFrontier
  <2>2. Free(EveryOther(phase1_start, phase1_end)) = {t \in Bottoms : status[t] = "free"}
    BY EveryOtherBottom DEF Free
  <2>3. ASSUME NEW t \in FirstOf(Free(EveryOther(phase1_start, phase1_end))), Book(t),
               zinfo' = [zinfo EXCEPT !.current_track = t, !.phase1_is_full = FALSE]
        PROVE  NewAllocatorInv'
    <3>1. t \in Bottoms /\ t \in Tracks /\ status[t] = "free"
      BY <2>2 DEF FirstOf, Bottoms
    <3>2. zinfo.current_track = phase1_start /\ t >= phase1_end
      BY <1>0, <2>1, <3>1 DEF NewFrontier, Bottoms
    <3>3. t <= phase1_end /\ \A u \in Bottoms : u <= phase1_end
      BY <1>e, <3>1, NextBottomTrack
    <3>4. t = phase1_end
      BY <1>e, <3>1, <3>2, <3>3, TracksNat
    <3>5. status' = [status EXCEPT ![t] = "booked"] /\ pc' = "store"
      BY <2>3 DEF Book, Found
    <3>6. \A u \in Tracks : status[u] = "free" <=> is_toptrack(u) \/ u >= phase1_end
      BY <1>0, <2>1, <3>2 DEF NewFrontier
    <3>7. \A u \in Bottoms : u >= phase1_end => u = t
      BY <1>e, <3>3, <3>4, TracksNat DEF Bottoms
    <3>8. \A u \in Tracks : status'[u] = "free" <=> is_toptrack(u)
      BY <1>0, <3>1, <3>5, <3>6, <3>7 DEF TypeOK, Bottoms
    <3>9. zinfo'.phases = 1 /\ zinfo'.current_track = phase1_end /\ ~zinfo'.phase1_is_full
      BY <1>0, <1>e, <2>3, <3>4 DEF Allocators
    <3>10. QED
      BY <1>e, <2>1, <3>5, <3>8, <3>9 DEF NewAllocatorInv, NewFrontier, TopPhases, FullMeansFull
  <2>4. CASE Free(EveryOther(phase1_start, phase1_end)) = {}
    <3>1. \A t \in Bottoms : status[t] # "free"
      BY <2>2, <2>4
    <3>2. TryTrack(zinfo.current_track)
          /\ zinfo' = [zinfo EXCEPT !.phases = 2, !.current_track = phase2_start]
      BY <1>3, <2>4 DEF NewPhase1Full
    <3>3. status' = status /\ pc' = pc
      BY <1>0, <1>e, <3>1, <3>2 DEF TryTrack
    <3>4. zinfo'.phases = 2 /\ zinfo'.current_track = phase2_start
      BY <1>0, <3>2 DEF Allocators
    <3>5. QED
      BY <1>0, <3>1, <3>3, <3>4, NextTopTrack
        DEF NewAllocatorInv, NewFrontier, TopPhases, FullMeansFull
  <2>5. QED
    BY <1>3, <2>3, <2>4 DEF NewPhase1Full
<1>4. QED
  BY <1>1, <1>2, <1>3 DEF NewPhase1Step

(* A later phase is never left for the first, and its allocations end in   *)
(* the store or without a track.                                           *)
LEMMA LaterPhases ==
  ASSUME NewIInv, LaterStep, Alloc, zinfo.phases > 1
  PROVE  zinfo'.phases > 1 /\ pc' \in {"alloc", "store", "disk_full", "undefined"}
<1>0. zinfo \in Allocators /\ zinfo.phases \in 1 .. 4
  BY NewBasics DEF NewIInv, TypeOK, Allocators
<1>1. ASSUME NEW t, TryTrack(t) \/ TryShared(t) \/ Book(t), pc = "alloc"
      PROVE  pc' \in {"alloc", "store"}
  BY <1>1 DEF TryTrack, TryShared, Book, Found
<1>2. CASE AllocPhase2
  <2>1. pc = "alloc" /\ TryShared(zinfo.current_track)
    BY <1>2 DEF AllocPhase2, Allocating
  <2>2. zinfo' = [zinfo EXCEPT !.phases = 3, !.current_track = phase3_start]
        \/ zinfo' = [zinfo EXCEPT !.current_track = @ - 4]
    BY <1>2 DEF AllocPhase2
  <2>3. zinfo'.phases \in {3, zinfo.phases}
    BY <1>0, <2>2 DEF Allocators
  <2>4. QED
    BY <1>0, <1>1, <2>1, <2>3
<1>3. CASE AllocPhase3
  <2>1. pc = "alloc" /\ TryShared(zinfo.current_track)
    BY <1>3 DEF AllocPhase3, Allocating
  <2>2. zinfo' = [zinfo EXCEPT !.current_track = @ + 4]
    BY <1>3 DEF AllocPhase3
  <2>3. zinfo'.phases = zinfo.phases
    BY <1>0, <2>2 DEF Allocators
  <2>4. QED
    BY <1>1, <2>1, <2>3
<1>4. CASE AllocPhase3Over
  <2>1. zinfo' = [zinfo EXCEPT !.phases = 4, !.current_track = phase4_start] /\ pc = "alloc"
        /\ pc' \in {pc, "undefined"}
    BY <1>4 DEF AllocPhase3Over, Allocating
  <2>2. zinfo'.phases = 4
    BY <1>0, <2>1 DEF Allocators
  <2>3. QED
    BY <2>1, <2>2
<1>5. CASE AllocPhase4
  <2>1. PICK t : Book(t) /\ zinfo' = [zinfo EXCEPT !.current_track = t] /\ pc = "alloc"
    BY <1>5 DEF AllocPhase4, Allocating
  <2>2. zinfo'.phases = zinfo.phases
    BY <1>0, <2>1 DEF Allocators
  <2>3. QED
    BY <1>1, <2>1, <2>2
<1>6. CASE AllocDiskFull
  BY <1>6 DEF AllocDiskFull
<1>7. QED
  BY <1>2, <1>3, <1>4, <1>5, <1>6 DEF LaterStep

LEMMA NewNextAllocator ==
  ASSUME NewIInv, [NewNext]_allVars
  PROVE  NewAllocatorInv'
<1>0. NewAllocatorInv /\ TypeOK
  BY NewBasics DEF NewIInv
<1>1. CASE WriteStep \/ FlushStep
  BY <1>0, <1>1, WriteFree, FlushFree, NewAllocatorKept
<1>2. CASE NewAllocate
  <2>1. CASE NewPhase1Step /\ zinfo.phases = 1
    BY <2>1, Phase1Allocator
  <2>2. CASE LaterStep /\ Alloc /\ zinfo.phases > 1 /\ AllocatorInv
    <3>1. AllocatorInv'
      BY <1>0, <2>2, AllocAllocator
    <3>2. zinfo'.phases > 1
      BY <2>2, LaterPhases
    <3>3. QED
      BY <3>1, <3>2 DEF AllocatorInv, NewAllocatorInv, NewFrontier
  <2>3. QED
    BY <1>2, <2>1, <2>2, AllocateCases
<1>3. ASSUME NEW l \in 0 .. L, NEW n \in 1 .. MaxBlocks, NEW h \in Hashes, NewStartWrite(l, n, h)
      PROVE  NewAllocatorInv'
  <2>1. SameFree /\ zinfo' = zinfo /\ next_bottom' = next_bottom /\ pc' # "disk_full"
    BY <1>3 DEF NewStartWrite, StartWrite, SameFree, blocks, codeVars
  <2>2. QED
    BY <1>0, <2>1, NewAllocatorKept
<1>4. ASSUME NEW l \in LBAs, NewTrim(l)
      PROVE  NewAllocatorInv'
  <2>1. SameFree
    BY <1>0, <1>4, TrimFree DEF NewTrim
  <2>2. zinfo' = zinfo /\ next_bottom' = next_bottom /\ pc' # "disk_full"
    BY <1>4 DEF NewTrim, Trim, TrimBadStatus, TrimNotListed, TrimListed, Trimming, codeVars
  <2>3. QED
    BY <1>0, <2>1, <2>2, NewAllocatorKept
<1>5. CASE UNCHANGED allVars
  BY <1>0, <1>5 DEF allVars, vars, newVars, codeVars, NewAllocatorInv, NewFrontier, TopPhases,
    FullMeansFull, Free
<1>6. CASE Overrun
  BY <1>0, <1>6, OverrunFacts, NewAllocatorKept DEF SameFree, blocks, newVars, codeVars
<1>7. QED
  BY <1>1, <1>2, <1>3, <1>4, <1>5, <1>6 DEF NewNext, NewProgress

-----------------------------------------------------------------------------
(* Which tracks are in use.                                                *)

(* The track the allocator looks at when its loop goes round in phase 1.   *)
LEMMA Phase1Track ==
  ASSUME NewIInv, NewPhase1Step
  PROVE  \E t \in Tracks : (Book(t) \/ TryTrack(t)) /\ pc = "alloc" /\ zinfo.phases = 1
                           /\ NewAllocUnchanged
<1>0. TypeOK /\ NewFrontier
  BY NewBasics DEF NewIInv, NewAllocatorInv
<1>1. CASE NewPhase1
  BY <1>0, <1>1 DEF NewPhase1, Allocating, NewFrontier, Bottoms
<1>2. CASE NewPhase1Last \/ NewPhase1Full
  <2>1. pc = "alloc" /\ zinfo.phases = 1 /\ NewAllocUnchanged
    BY <1>2 DEF NewPhase1Last, NewPhase1Full, Allocating
  <2>2. phase1_start \in Tracks /\ phase1_end \in Tracks
    BY Geometry DEF Tracks
  <2>3. zinfo.current_track \in Tracks
    BY <1>0, <2>1, <2>2 DEF NewFrontier
  <2>4. QED
    BY <1>2, <2>1, <2>3 DEF NewPhase1Last, NewPhase1Full, FirstOf, Free, EveryOther
<1>3. QED
  BY <1>1, <1>2 DEF NewPhase1Step

LEMMA AllocStays ==
  ASSUME NewIInv, NewAllocate
  PROVE  Stays
<1>0. TypeOK
  BY NewBasics DEF NewIInv
<1>1. ASSUME NEW t \in Tracks, TryTrack(t) \/ TryShared(t) \/ Book(t)
      PROVE  Stays
  <2>1. (\A u \in Tracks \ {t} : status'[u] = status[u]) /\ status'[t] \in {"booked", status[t]}
    BY <1>0, <1>1, TriedFree
  <2>2. QED
    BY <2>1 DEF Stays
<1>2. CASE NewPhase1Step
  BY <1>1, <1>2, Phase1Track
<1>3. CASE LaterStep /\ Alloc /\ AllocatorInv
  <2>1. CASE status' = status
    BY <2>1 DEF Stays
  <2>2. CASE status' # status
    <3>1. PICK t \in Tracks : TryTrack(t) \/ TryShared(t) \/ Book(t)
      BY <1>0, <1>3, <2>2, TrackTried, TopOrBottom
        DEF LaterStep, AllocPhase2, AllocPhase3, AllocPhase3Over, AllocPhase4, AllocDiskFull,
            Allocating, FirstOf, Free, EveryOther
    <3>2. QED
      BY <1>1, <3>1
  <2>3. QED
    BY <2>1, <2>2
<1>4. QED
  BY <1>2, <1>3, AllocateCases

(* An allocated track stays allocated.                                     *)
LEMMA NewStays ==
  ASSUME NewIInv, [NewNext]_allVars
  PROVE  Stays
<1>0. TypeOK
  BY NewBasics DEF NewIInv
<1>1. SameFree => Stays
  BY DEF SameFree, Stays
<1>2. CASE \E l \in 0 .. L, n \in 1 .. MaxBlocks, h \in Hashes : NewStartWrite(l, n, h)
  BY <1>2 DEF NewStartWrite, StartWrite, blocks, Stays
<1>3. CASE \E l \in LBAs : NewTrim(l)
  BY <1>0, <1>1, <1>3, TrimFree DEF NewTrim
<1>4. CASE NewProgress
  <2>1. Overrun => Stays
    BY OverrunFacts DEF blocks, Stays
  <2>2. QED
    BY <1>1, <1>4, <2>1, WriteFree, FlushFree, AllocStays DEF NewProgress
<1>5. CASE UNCHANGED allVars
  BY <1>5 DEF allVars, vars, Stays
<1>6. QED
  BY <1>2, <1>3, <1>4, <1>5 DEF NewNext

(* Entries that lead to allocated tracks, and content on allocated tracks. *)
LEMMA UseKept ==
  ASSUME TypeOK, NewUseInv, Stays, gbtable' = gbtable, InProgress',
         \A l \in LBAs : \/ ltp'[l] = ltp[l]
                         \/ ltp'[l].pba \in Tracks /\ status[ltp'[l].pba] # "free",
         \A t \in Tracks : hash'[t] = hash[t] \/ status[t] # "free"
  PROVE  NewUseInv'
<1>1. \A l \in LBAs : ltp[l].pba \in Tracks
  BY DEF TypeOK, Entries
<1>2. MappedAllocated'
  BY <1>1 DEF NewUseInv, UseInv, MappedAllocated, Stays
<1>3. HashAllocated'
  BY DEF NewUseInv, UseInv, HashAllocated, Stays
<1>4. BatchAllocated' /\ gbtable' = {}
  BY DEF NewUseInv, BatchAllocated
<1>5. QED
  BY <1>2, <1>3, <1>4 DEF NewUseInv, UseInv

LEMMA TurnInProgress ==
  ASSUME pc' \notin {"alloc", "store"},
         IsTurn(cur') \/ (pc' \notin Running /\ cur' = NoInstruction)
  PROVE  InProgress'
  BY DEF InProgress, IsTurn, NoInstruction

(* What a lookup in the middle of a flush finds is allocated.              *)
LEMMA RestoredTo ==
  ASSUME NewIInv, FlushRestore
  PROVE  \E q \in Tracks : /\ status[q] # "free" /\ cur' = [cur EXCEPT !.pba = q]
                           /\ pc' \in {"store", "flush"}
<1>0. TypeOK /\ UseInv
  BY NewBasics DEF NewIInv, NewUseInv
<1>1. Target \in LBAs /\ ~NeverWritten(Target)
  BY DEF FlushRestore, FlushTurn, Searching, NeverWritten
<1>2. ltp[Target].pba \in Tracks /\ status[ltp[Target].pba] # "free"
  BY <1>0, <1>1, EntryAllocated DEF UseInv
<1>3. \A q \in Holding(cur.hash) : q \in Tracks
  BY HoldingType
<1>4. QED
  BY <1>2, <1>3 DEF FlushRestore, FirstOf

(* Where an instruction or a flush ends, nothing is in progress.           *)
LEMMA FinishedUse ==
  ASSUME Finish
  PROVE  InProgress'
  BY TurnInProgress DEF Finish, Running

LEMMA WriteUse ==
  ASSUME NewIInv, Stays, WriteStep
  PROVE  NewUseInv'
<1>0. NewTypeOK /\ TypeOK /\ UseInv /\ NewUseInv /\ BufferInv /\ InProgress
  BY NewBasics DEF NewIInv, NewUseInv, UseInv
<1>1. CASE ShareOnDisk
  <2>1. PICK p \in Tracks : hash[p] = cur.hash /\ ltp' = [ltp EXCEPT ![Target] = Mapped(p, cur.hash)]
    BY <1>1 DEF ShareOnDisk, FirstOf, Stored
  <2>2. cur.hash \in Hashes
    BY <1>0, <1>1 DEF ShareOnDisk, Phase1Write, InProgress, Running
  <2>3. status[p] # "free"
    BY <1>0, <2>1, <2>2, HashAssumption DEF UseInv, HashAllocated
  <2>4. \A l \in LBAs : ltp'[l] = ltp[l] \/ ltp'[l].pba = p
    BY <1>0, <2>1 DEF TypeOK, Mapped
  <2>5. Finish /\ gbtable' = gbtable /\ hash' = hash
    BY <1>1 DEF ShareOnDisk
  <2>6. QED
    BY <1>0, <2>3, <2>4, <2>5, FinishedUse, UseKept
<1>2. CASE JoinBuffered \/ NewStoreShared
  <2>1. Finish /\ UNCHANGED <<gbtable, hash, ltp>>
    BY <1>2 DEF JoinBuffered, NewStoreShared, StoreUnchanged, blocks
  <2>2. QED
    BY <1>0, <2>1, FinishedUse, UseKept
<1>3. CASE FillBlock
  <2>1. UNCHANGED <<gbtable, hash, ltp>>
    BY <1>3 DEF FillBlock, blocks
  <2>2. Target \in LBAs /\ cur.hash \in Hashes
    BY <1>0, <1>3 DEF FillBlock, Buffering, Phase1Write, InProgress, Running
  <2>3. CASE Finish
    BY <1>0, <2>1, <2>3, FinishedUse, UseKept
  <2>4. CASE StartFlush(NoInstruction)
    <3>1. pc' = "search" /\ cur' = Turn(1) /\ 1 \in BufIndex
      BY <2>4, BufferBounds DEF StartFlush
    <3>2. buf' \in [BufIndex -> BufferBlocks] /\ used + 1 \in BufIndex
          /\ (\A i \in BufIndex \ {used + 1} : buf'[i] = buf[i])
          /\ buf'[used + 1].hash = cur.hash /\ buf'[used + 1].lba = <<Target>>
      BY <1>0, <1>3, <2>2, BlockFilled
    <3>3. buf'[1].hash \in Hashes /\ buf'[1].lba # <<>>
      <4>1. CASE used = 0
        <5>1. used + 1 = 1 /\ <<Target>> # <<>>
          BY <4>1
        <5>2. buf'[1].hash = cur.hash /\ buf'[1].lba = <<Target>>
          BY <3>2, <5>1
        <5>3. QED
          BY <2>2, <5>1, <5>2
      <4>2. CASE used # 0
        <5>1. used \in Nat /\ 1 \in 1 .. used /\ 1 # used + 1
          BY <1>0, <4>2, NewBasics
        <5>2. buf'[1] = buf[1]
          BY <3>1, <3>2, <5>1
        <5>3. buf[1].hash \in Hashes /\ buf[1].lba # <<>>
          BY <1>0, <3>1, <5>1 DEF BufferInv
        <5>4. QED
          BY <5>2, <5>3
      <4>3. QED
        BY <4>1, <4>2
    <3>4. IsTurn(cur')
      BY <3>1, <3>2, <3>3, TurnType
    <3>5. QED
      BY <1>0, <2>1, <3>1, <3>4, TurnInProgress, UseKept
  <2>5. QED
    BY <1>3, <2>3, <2>4 DEF FillBlock
<1>4. CASE BeyondTable \/ Lookup
  <2>1. Search
    BY <1>4 DEF BeyondTable, Lookup, Search
  <2>2. gbtable' = gbtable
    BY <2>1 DEF Search, Overwrites, SearchOverwriteInPlace, UpdateInPlace, SearchOverwriteSwapped,
      UpdateSwapped, SearchRestore, SearchRestoreMoved, SearchSame, SearchShare, SearchTakeOver,
      SearchNew, SearchBeyond
  <2>3. QED
    BY <1>0, <2>1, <2>2, SearchUse DEF NewUseInv
<1>5. CASE FlushAgain
  <2>1. UNCHANGED <<gbtable, hash, ltp>> /\ StartFlush(cur) /\ buf' = buf /\ zinfo.phases > 1
    BY <1>5 DEF FlushAgain, blocks
  <2>2. buf \in [BufIndex -> BufferBlocks] /\ cur \in Instructions
    BY <1>0, NewBasics, InstructionBasics
  <2>3. \A i \in BufIndex : buf'[i].hash \in Hashes /\ buf'[i].lba # <<>>
    BY <1>0, <2>1 DEF BufferInv
  <2>4. pc' = "search" /\ IsTurn(cur')
    BY <2>1, <2>2, <2>3, FlushStarts
  <2>5. QED
    BY <1>0, <2>1, <2>4, TurnInProgress, UseKept
<1>6. CASE NewMismatch
  <2>1. StoreMismatch /\ gbtable' = gbtable
    BY <1>6 DEF NewMismatch, StoreMismatch
  <2>2. QED
    BY <1>0, <2>1, StoreUse DEF NewUseInv
<1>7. CASE NewStoreOwned
  <2>1. cur.pba \in Tracks /\ status[cur.pba] # "free" /\ cur.i \in Nat /\ cur.n \in Nat
        /\ cur \in Instructions /\ cur.hash \in Hashes
    BY <1>0, <1>7, InstructionBasics DEF NewStoreOwned, InProgress, Running
  <2>2. gbtable' = gbtable /\ ltp' = ltp /\ hash' \in {hash, [hash EXCEPT ![cur.pba] = cur.hash]}
    BY <1>7 DEF NewStoreOwned
  <2>3. \A t \in Tracks : hash'[t] = hash[t] \/ status[t] # "free"
    BY <1>0, <2>1, <2>2 DEF TypeOK
  <2>4. InProgress'
    <3>1. CASE cur.i + 1 < cur.n
      <4>1. pc' = "search" /\ cur' = [cur EXCEPT !.i = @ + 1, !.pba = 0]
        BY <1>7, <3>1 DEF NewStoreOwned
      <4>2. cur'.i = cur.i + 1 /\ cur'.n = cur.n /\ cur'.hash = cur.hash
        BY <2>1, <4>1 DEF Instructions
      <4>3. QED
        BY <2>1, <3>1, <4>1, <4>2 DEF InProgress
    <3>2. CASE ~(cur.i + 1 < cur.n)
      BY <1>7, <3>2, FinishedUse DEF NewStoreOwned
    <3>3. QED
      BY <3>1, <3>2
  <2>5. QED
    BY <1>0, <2>2, <2>3, <2>4, UseKept
<1>8. QED
  BY <1>1, <1>2, <1>3, <1>4, <1>5, <1>6, <1>7 DEF WriteStep

LEMMA FlushUse ==
  ASSUME NewIInv, Stays, FlushStep
  PROVE  NewUseInv'
<1>0. /\ NewTypeOK /\ TypeOK /\ UseInv /\ NewUseInv /\ BufferInv /\ InProgress /\ TurnInv
      /\ fi > 0 /\ pc \in Running
  BY NewBasics DEF NewIInv, NewUseInv, UseInv, FlushStep, FlushUpdate, FlushRestore, FlushNew,
    FlushGrow, FlushJoin, FlushStore, Storing, FlushTurn, Searching, Running
<1>b. /\ buf[fi].lba \in Seq(LBAs) /\ cur.hash \in Hashes /\ cur.pba \in Tracks
      /\ Target \in LBAs /\ cur.i \in Nat /\ cur.n \in Nat /\ cur \in Instructions
  BY <1>0, FlushBasics, InstructionBasics
<1>1. CASE FlushUpdate
  <2>1. Updating
    BY <1>1 DEF FlushUpdate, FlushTurn, Updating, NeverWritten, Deleted, Present
  <2>2. gbtable' = gbtable
    BY <2>1 DEF Updating, UpdateInPlace, UpdateSwapped
  <2>3. QED
    BY <1>0, <2>1, <2>2, UpdateUse DEF NewUseInv
<1>2. CASE FlushRestore
  <2>1. PICK q \in Tracks : /\ status[q] # "free" /\ cur' = [cur EXCEPT !.pba = q]
                            /\ pc' \in {"store", "flush"}
    BY <1>2, RestoredTo
  <2>2. cur'.lba = cur.lba /\ cur'.i = cur.i /\ cur'.n = cur.n /\ cur'.hash = cur.hash
        /\ cur'.pba = q
    BY <1>b, <2>1 DEF Instructions
  <2>3. UNCHANGED <<gbtable, hash, ltp, status>>
    BY <1>2 DEF FlushRestore, blocks
  <2>4. InProgress'
    BY <1>0, <1>b, <2>1, <2>2, <2>3 DEF InProgress, Target
  <2>5. QED
    BY <1>0, <2>3, <2>4, UseKept
<1>3. CASE FlushNew
  <2>1. UNCHANGED <<gbtable, hash, ltp, cur>> /\ pc' = "alloc"
    BY <1>3 DEF FlushNew, blocks
  <2>2. InProgress'
    BY <1>0, <1>b, <2>1 DEF InProgress, Target
  <2>3. QED
    BY <1>0, <2>1, <2>2, UseKept
<1>4. CASE FlushGrow
  <2>1. UNCHANGED <<gbtable, hash, ltp, cur, pc, status>>
    BY <1>4 DEF FlushGrow
  <2>2. InProgress'
    BY <1>0, <2>1 DEF InProgress, Target
  <2>3. QED
    BY <1>0, <2>1, <2>2, UseKept
<1>5. CASE FlushJoin \/ FlushStore
  <2>1. MapAll(buf[fi].lba, cur.pba) /\ NextBlock /\ gbtable' = gbtable
    BY <1>5 DEF FlushJoin, FlushStore
  <2>2. status[cur.pba] # "free"
    BY <1>0, <1>5 DEF FlushJoin, FlushStore, Storing, TurnInv, InProgress
  <2>3. \A l \in LBAs : ltp'[l] = Mapped(cur.pba, cur.hash) \/ ltp'[l] = ltp[l]
    BY <1>0, <1>b, <2>1, AllMapped
  <2>4. \A l \in LBAs : ltp'[l].pba = cur.pba \/ ltp'[l] = ltp[l]
    BY <2>3 DEF Mapped
  <2>5. hash' \in {hash, [hash EXCEPT ![cur.pba] = cur.hash]}
    BY <1>5 DEF FlushJoin, FlushStore
  <2>6. \A t \in Tracks : hash'[t] = hash[t] \/ status[t] # "free"
    BY <1>0, <1>b, <2>2, <2>5 DEF TypeOK
  <2>7. InProgress'
    <3>1. \/ pc' = "search" /\ IsTurn(cur')
          \/ pc' = "idle" /\ cur' = NoInstruction
          \/ pc' = "search" /\ after # NoInstruction /\ cur' = after
      BY <1>0, <2>1, FlushGoesOn
    <3>2. CASE pc' = "search" /\ IsTurn(cur')
      BY <3>2, TurnInProgress
    <3>3. CASE pc' = "idle" /\ cur' = NoInstruction
      BY <3>3, TurnInProgress DEF Running
    <3>4. CASE pc' = "search" /\ after # NoInstruction /\ cur' = after
      BY <1>0, <3>4 DEF InProgress, TurnInv
    <3>5. QED
      BY <3>1, <3>2, <3>3, <3>4
  <2>8. QED
    BY <1>0, <1>b, <2>1, <2>2, <2>4, <2>6, <2>7, UseKept
<1>6. QED
  BY <1>1, <1>2, <1>3, <1>4, <1>5 DEF FlushStep

LEMMA AllocateUse ==
  ASSUME NewIInv, Stays, NewAllocate
  PROVE  NewUseInv'
<1>0. TypeOK /\ UseInv /\ NewUseInv /\ InProgress
  BY NewBasics DEF NewIInv, NewUseInv, UseInv
<1>1. CASE NewPhase1Step
  <2>1. PICK t \in Tracks : (Book(t) \/ TryTrack(t)) /\ pc = "alloc" /\ NewAllocUnchanged
    BY <1>1, Phase1Track
  <2>2. Target \in LBAs /\ hash' = hash /\ gbtable' = gbtable
    BY <1>0, <2>1 DEF InProgress, NewAllocUnchanged, AllocUnchanged
  <2>3. CASE Book(t)
    <3>1. status'[t] # "free"
      BY <1>0, <2>3 DEF Book, TypeOK
    <3>2. UseInv'
      BY <1>0, <2>1, <2>2, <2>3, <3>1, MappedKept DEF Book, Stays
    <3>3. QED
      BY <1>0, <2>2, <3>2 DEF NewUseInv
  <2>4. CASE UNCHANGED <<status, ltp, pc, cur>>
    <3>1. InProgress'
      BY <1>0, <2>4 DEF InProgress, Target
    <3>2. QED
      BY <1>0, <2>2, <2>4, <3>1, UseKept
  <2>5. QED
    BY <2>1, <2>3, <2>4 DEF TryTrack
<1>2. CASE LaterStep /\ Alloc /\ AllocatorInv
  <2>1. gbtable' = gbtable
    BY <1>2 DEF LaterStep, AllocPhase2, AllocPhase3, AllocPhase3Over, AllocPhase4, AllocDiskFull,
      AllocUnchanged
  <2>2. QED
    BY <1>0, <1>2, <2>1, AllocUse DEF NewUseInv
<1>3. QED
  BY <1>1, <1>2, AllocateCases

LEMMA NewNextUse ==
  ASSUME NewIInv, [NewNext]_allVars
  PROVE  NewUseInv'
<1>0. TypeOK /\ UseInv /\ NewUseInv /\ Stays
  BY NewBasics, NewStays DEF NewIInv, NewUseInv
<1>1. ASSUME NEW l \in 0 .. L, NEW n \in 1 .. MaxBlocks, NEW h \in Hashes, NewStartWrite(l, n, h)
      PROVE  NewUseInv'
  BY <1>0, <1>1, StartUse DEF NewStartWrite, StartWrite, NewUseInv
<1>2. ASSUME NEW l \in LBAs, NewTrim(l)
      PROVE  NewUseInv'
  <2>1. gbtable' = gbtable
    BY <1>2 DEF NewTrim, Trim, TrimBadStatus, TrimNotListed, TrimListed, Trimming
  <2>2. QED
    BY <1>0, <1>2, <2>1, TrimUse DEF NewTrim, NewUseInv
<1>3. CASE UNCHANGED allVars
  BY <1>0, <1>3 DEF allVars, vars, NewUseInv, UseInv, MappedAllocated, HashAllocated,
    BatchAllocated, InProgress, Target
<1>4. CASE Overrun
  <2>1. pc' = "undefined" /\ UNCHANGED <<gbtable, hash, ltp, cur>>
    BY <1>4, OverrunFacts DEF blocks
  <2>2. InProgress'
    BY <1>0, <2>1 DEF UseInv, InProgress, Running
  <2>3. QED
    BY <1>0, <2>1, <2>2, UseKept
<1>5. QED
  BY <1>0, <1>1, <1>2, <1>3, <1>4, WriteUse, FlushUse, AllocateUse DEF NewNext, NewProgress

-----------------------------------------------------------------------------
(* The buffer, and the turns of a flush.                                   *)

LEMMA BufferKept ==
  ASSUME NewTypeOK, BufferInv, buf' = buf, used' \in {0, used}, fi' = 0 => used' < BufNum,
         zinfo'.phases > 1 \/ fi' > 0 => zinfo.phases > 1 \/ fi > 0
  PROVE  BufferInv'
<1>1. used \in Nat /\ 1 .. used' \subseteq 1 .. used
  BY NewBasics
<1>2. QED
  BY <1>1 DEF BufferInv

(* Outside of a flush. *)
LEMMA TurnFinished ==
  ASSUME fi' = 0, after' = NoInstruction, pc' # "flush",
         zinfo'.phases = 1 => pc' \notin {"alloc", "store"} /\ ~buffer_flushed'
  PROVE  TurnInv'
  BY DEF TurnInv

(* In a flush: the block's turn begins, or goes on. *)
TurnData(c) == c.lba \in LBAs /\ c.i = 0 /\ c.n = 1 /\ c.hash \in Hashes
HeldUp == after # NoInstruction => buffer_flushed /\ after.i < after.n /\ after.hash \in Hashes
LEMMA TurnTaken ==
  ASSUME fi' > 0, pc' # "idle", TurnData(cur'), pc' = "flush" => status'[cur'.pba] # "free",
         HeldUp', zinfo'.phases = 1 => ~buffer_flushed'
  PROVE  TurnInv'
<1>1. fi' # 0
  BY SMT
<1>2. QED
  BY <1>1 DEF TurnInv, HeldUp, TurnData

LEMMA TurnFacts ==
  ASSUME TurnInv
  PROVE  HeldUp /\ (zinfo.phases = 1 => ~buffer_flushed)
  BY DEF TurnInv, HeldUp

LEMMA TurnBegins == ASSUME IsTurn(cur') PROVE TurnData(cur')
  BY DEF IsTurn, TurnData

LEMMA WriteTurns ==
  ASSUME NewIInv, WriteStep
  PROVE  BufferInv' /\ TurnInv'
<1>0. /\ NewTypeOK /\ TypeOK /\ BufferInv /\ TurnInv /\ InProgress /\ fi = 0
      /\ after = NoInstruction
      /\ zinfo.phases = 1 => ~buffer_flushed
  <2>1. NewTypeOK /\ TypeOK /\ BufferInv /\ TurnInv /\ InProgress
    BY NewBasics DEF NewIInv, NewUseInv, UseInv
  <2>2. fi = 0
    BY DEF WriteStep, ShareOnDisk, JoinBuffered, FillBlock, Buffering, Phase1Write, BeyondTable,
      FlushAgain, Lookup, NewMismatch, NewStoreShared, Sharing, NewStoreOwned
  <2>3. QED
    BY <2>1, <2>2 DEF TurnInv
<1>t. used < BufNum
  BY <1>0 DEF BufferInv
<1>z. zinfo' = zinfo
  BY WriteFree
<1>1. CASE ShareOnDisk
  <2>1. UNCHANGED <<buf, used, fi, after, buffer_flushed>> /\ pc' = "idle"
    BY <1>1 DEF ShareOnDisk, newVars, codeVars, Finish
  <2>2. QED
    BY <1>0, <1>t, <1>z, <2>1, BufferKept, TurnFinished
<1>2. CASE JoinBuffered
  <2>1. UNCHANGED <<used, fi, after, buffer_flushed>> /\ pc' = "idle" /\ Target \in LBAs
    BY <1>2 DEF JoinBuffered, Buffering, Phase1Write, Finish
  <2>2. \A i \in BufIndex :
              /\ buf'[i].hash = buf[i].hash /\ buf'[i].lba # <<>>
              /\ Len(buf'[i].lba) <= buf'[i].cap + 1 /\ buf'[i].cap > 0
    BY <1>0, <1>2, <2>1, BlockJoined
  <2>3. 1 .. used \subseteq BufIndex
    BY <1>0, NewBasics, BufferBounds DEF BufIndex
  <2>4. BufferInv'
    BY <1>0, <1>z, <2>1, <2>2, <2>3 DEF BufferInv
  <2>5. QED
    BY <1>0, <1>z, <2>1, <2>4, TurnFinished
<1>3. CASE FillBlock
  <2>1. Target \in LBAs /\ cur.hash \in Hashes /\ zinfo.phases = 1 /\ buffer_flushed' = buffer_flushed
    BY <1>0, <1>3 DEF FillBlock, Buffering, Phase1Write, InProgress, Running
  <2>2. /\ used + 1 \in BufIndex /\ used' = used + 1
        /\ buf' \in [BufIndex -> BufferBlocks]
        /\ \A i \in BufIndex \ {used + 1} : buf'[i] = buf[i]
        /\ buf'[used + 1].hash = cur.hash /\ buf'[used + 1].lba = <<Target>>
        /\ buf'[used + 1].cap = buf[used + 1].cap
    BY <1>0, <1>3, <2>1, BlockFilled
  <2>n. used \in Nat /\ BufNum \in Nat
    BY <1>0, NewBasics, BufferBounds
  <2>3. \A i \in 1 .. used' : buf'[i].hash \in Hashes
    <3>1. ASSUME NEW i \in 1 .. used' PROVE buf'[i].hash \in Hashes
      <4>1. CASE i = used + 1
        BY <2>1, <2>2, <4>1
      <4>2. CASE i # used + 1
        <5>1. i \in 1 .. used /\ i \in BufIndex
          BY <1>t, <2>2, <2>n, <4>2 DEF BufIndex
        <5>2. buf'[i] = buf[i]
          BY <2>2, <4>2, <5>1
        <5>3. QED
          BY <1>0, <5>1, <5>2 DEF BufferInv
      <4>3. QED
        BY <4>1, <4>2
    <3>2. QED
      BY <3>1
  <2>4. \A i \in BufIndex :
          buf'[i].lba # <<>> /\ Len(buf'[i].lba) <= buf'[i].cap + 1 /\ buf'[i].cap > 0
    <3>1. ASSUME NEW i \in BufIndex
          PROVE  buf'[i].lba # <<>> /\ Len(buf'[i].lba) <= buf'[i].cap + 1 /\ buf'[i].cap > 0
      <4>1. CASE i = used + 1
        <5>1. buf[i] \in BufferBlocks /\ buf[i].cap \in Nat /\ buf[i].cap > 0
          BY <1>0, NewBasics DEF BufferBlocks, BufferInv
        <5>2. <<Target>> # <<>> /\ Len(<<Target>>) = 1
          OBVIOUS
        <5>3. buf'[i].lba = <<Target>> /\ buf'[i].cap = buf[i].cap
          BY <2>2, <4>1
        <5>4. QED
          BY <5>1, <5>2, <5>3
      <4>2. CASE i # used + 1
        <5>1. buf'[i] = buf[i]
          BY <2>2, <4>2
        <5>2. QED
          BY <1>0, <5>1 DEF BufferInv
      <4>3. QED
        BY <4>1, <4>2
    <3>2. QED
      BY <3>1
  <2>5. CASE used' = BufNum
    <3>1. StartFlush(NoInstruction)
      BY <1>3, <2>5 DEF FillBlock
    <3>2. \A i \in BufIndex : buf'[i].hash \in Hashes
      BY <2>3, <2>5 DEF BufIndex
    <3>3. NoInstruction \in Instructions
      BY <1>0, InstructionBasics
    <3>4. fi' = 1 /\ after' = NoInstruction /\ pc' = "search" /\ IsTurn(cur')
      BY <2>2, <2>4, <3>1, <3>2, <3>3, FlushStarts
    <3>5. BufferInv'
      BY <2>3, <2>4, <3>2, <3>4 DEF BufferInv
    <3>6. HeldUp'
      BY <3>4 DEF HeldUp
    <3>7. QED
      BY <1>0, <1>z, <2>1, <3>4, <3>5, <3>6, TurnBegins, TurnTaken
  <2>6. CASE used' # BufNum
    <3>1. fi' = 0 /\ after' = NoInstruction /\ pc' = "idle"
      BY <1>0, <1>3, <2>6 DEF FillBlock, Finish
    <3>2. used' < BufNum
      BY <2>2, <2>6, <2>n, <1>t
    <3>3. BufferInv'
      BY <1>z, <2>1, <2>3, <2>4, <3>1, <3>2 DEF BufferInv
    <3>4. QED
      BY <1>0, <1>z, <2>1, <3>1, <3>3, TurnFinished
  <2>7. QED
    BY <2>5, <2>6
<1>4. CASE FlushAgain
  <2>1. /\ UNCHANGED <<buf, used>> /\ StartFlush(cur) /\ buffer_flushed' = TRUE /\ zinfo.phases > 1
        /\ pc = "search"
    BY <1>4 DEF FlushAgain
  <2>2. buf \in [BufIndex -> BufferBlocks] /\ cur \in Instructions
    BY <1>0, NewBasics, InstructionBasics
  <2>3. \A i \in BufIndex : buf'[i].hash \in Hashes /\ buf'[i].lba # <<>>
    BY <1>0, <2>1 DEF BufferInv
  <2>4. fi' = 1 /\ after' = cur /\ pc' = "search" /\ IsTurn(cur')
    BY <2>1, <2>2, <2>3, FlushStarts
  <2>5. BufferInv'
    BY <1>0, <2>1, <2>4, BufferKept
  <2>6. HeldUp'
    BY <1>0, <2>1, <2>4 DEF HeldUp, InProgress, Running
  <2>7. zinfo'.phases # 1
    BY <1>z, <2>1
  <2>8. QED
    BY <2>4, <2>5, <2>6, <2>7, TurnBegins, TurnTaken
<1>5. CASE BeyondTable \/ Lookup \/ NewMismatch
  <2>1. UNCHANGED <<buf, used, fi, after, buffer_flushed>>
    BY <1>5 DEF BeyondTable, Lookup, NewMismatch, newVars, codeVars
  <2>2. CASE BeyondTable \/ NewMismatch
    <3>1. pc' \in {"undefined", "mismatch"}
      BY <2>2 DEF BeyondTable, SearchBeyond, NewMismatch, StoreMismatch
    <3>2. QED
      BY <1>0, <1>t, <1>z, <2>1, <3>1, BufferKept, TurnFinished
  <2>3. CASE Lookup
    <3>1. pc' \in {"store", "alloc", "undefined"}
      BY <2>3 DEF Lookup, Search, Overwrites, SearchOverwriteInPlace, UpdateInPlace,
        SearchOverwriteSwapped, UpdateSwapped, SearchRestore, SearchRestoreMoved, SearchSame,
        SearchShare, SearchTakeOver, SearchNew, SearchBeyond, Found
    <3>2. zinfo'.phases # 1
      BY <1>z, <2>3 DEF Lookup
    <3>3. QED
      BY <1>0, <1>t, <1>z, <2>1, <3>1, <3>2, BufferKept, TurnFinished
  <2>4. QED
    BY <1>5, <2>2, <2>3
<1>6. CASE NewStoreShared \/ NewStoreOwned
  <2>1. UNCHANGED <<buf, used, fi, after, buffer_flushed>> /\ pc = "store"
        /\ pc' \in {"idle", "search"}
    BY <1>6 DEF NewStoreShared, Sharing, NewStoreOwned, newVars, codeVars, Finish
  <2>2. QED
    BY <1>0, <1>t, <1>z, <2>1, BufferKept, TurnFinished
<1>7. QED
  BY <1>1, <1>2, <1>3, <1>4, <1>5, <1>6 DEF WriteStep

LEMMA FlushTurns ==
  ASSUME NewIInv, FlushStep
  PROVE  BufferInv' /\ TurnInv'
<1>0. /\ NewTypeOK /\ TypeOK /\ BufferInv /\ TurnInv /\ fi > 0 /\ pc \in Running
  BY NewBasics DEF NewIInv, FlushStep, FlushUpdate, FlushRestore, FlushNew,
    FlushGrow, FlushJoin, FlushStore, Storing, FlushTurn, Searching, Running
<1>n. fi \in Nat /\ fi # 0 /\ cur \in Instructions /\ BufNum > 0 /\ BufNum \in Nat
  BY <1>0, NewBasics, InstructionBasics, BufferBounds
<1>c. TurnData(cur) /\ HeldUp /\ (zinfo.phases = 1 => ~buffer_flushed)
  BY <1>0, TurnFacts DEF TurnInv, TurnData
<1>z. zinfo' = zinfo
  BY FlushFree
<1>1. ASSUME UNCHANGED <<buf, used, fi, after, buffer_flushed>>, TurnData(cur'), pc' # "idle",
             pc' = "flush" => status'[cur'.pba] # "free"
      PROVE  BufferInv' /\ TurnInv'
  <2>1. BufferInv'
    BY <1>0, <1>1, <1>n, BufferKept
  <2>2. HeldUp'
    BY <1>1, <1>c DEF HeldUp
  <2>3. QED
    BY <1>0, <1>1, <1>c, <1>z, <2>1, <2>2, TurnTaken
<1>2. CASE FlushUpdate
  <2>1. UNCHANGED <<buf, used, fi, after, buffer_flushed>>
    BY <1>2 DEF FlushUpdate, newVars, codeVars
  <2>2. PICK t : Found(t, cur.pass)
    BY <1>2 DEF FlushUpdate, UpdateInPlace, UpdateSwapped
  <2>3. pc' = "store" /\ cur' = [cur EXCEPT !.pba = t, !.pass = cur.pass]
    BY <2>2 DEF Found
  <2>4. TurnData(cur')
    BY <1>c, <1>n, <2>3 DEF TurnData, Instructions
  <2>5. QED
    BY <1>1, <2>1, <2>3, <2>4
<1>3. CASE FlushRestore
  <2>1. UNCHANGED <<buf, used, fi, after, buffer_flushed, status>>
    BY <1>3 DEF FlushRestore, newVars, codeVars, blocks
  <2>2. PICK q \in Tracks : /\ status[q] # "free" /\ cur' = [cur EXCEPT !.pba = q]
                            /\ pc' \in {"store", "flush"}
    BY <1>3, RestoredTo
  <2>3. TurnData(cur') /\ cur'.pba = q
    BY <1>c, <1>n, <2>2 DEF TurnData, Instructions
  <2>4. QED
    BY <1>1, <2>1, <2>2, <2>3
<1>4. CASE FlushNew
  BY <1>1, <1>c, <1>4 DEF FlushNew, newVars, codeVars
<1>5. CASE FlushGrow
  BY <1>0, <1>1, <1>c, <1>5 DEF FlushGrow, newVars, codeVars, TurnInv, Running
<1>6. CASE FlushJoin \/ FlushStore
  <2>1. NextBlock /\ buffer_flushed' = buffer_flushed
    BY <1>6 DEF FlushJoin, FlushStore
  <2>2. buf' = buf
    BY <1>0, <2>1, FlushGoesOn
  <2>3. CASE fi < BufNum /\ fi' = fi + 1 /\ used' = used /\ after' = after
             /\ pc' = "search" /\ IsTurn(cur')
    <3>1. fi' > 0
      BY <1>n, <2>3
    <3>2. BufferInv'
      BY <1>0, <1>n, <2>2, <2>3, <3>1, BufferKept
    <3>3. HeldUp'
      BY <1>c, <2>1, <2>3 DEF HeldUp
    <3>4. QED
      BY <1>c, <1>z, <2>1, <2>3, <3>1, <3>2, <3>3, TurnBegins, TurnTaken
  <2>4. CASE fi' = 0 /\ used' = 0 /\ after' = NoInstruction /\ pc' \in {"idle", "search"}
    <3>1. BufferInv'
      BY <1>0, <1>n, <2>2, <2>4, BufferKept
    <3>2. QED
      BY <1>c, <1>z, <2>1, <2>4, <3>1, TurnFinished
  <2>5. QED
    BY <1>0, <2>1, <2>3, <2>4, FlushGoesOn
<1>7. QED
  BY <1>2, <1>3, <1>4, <1>5, <1>6 DEF FlushStep

LEMMA AllocateTurns ==
  ASSUME NewIInv, NewAllocate
  PROVE  BufferInv' /\ TurnInv'
<1>0. /\ NewTypeOK /\ TypeOK /\ BufferInv /\ TurnInv /\ fi \in Nat /\ cur \in Instructions
      /\ zinfo \in Allocators
  BY NewBasics, InstructionBasics, BufferBounds DEF NewIInv, TypeOK
<1>h. HeldUp /\ (zinfo.phases = 1 => ~buffer_flushed)
  BY <1>0, TurnFacts
<1>1. CASE NewPhase1Step
  <2>1. PICK t \in Tracks : (Book(t) \/ TryTrack(t)) /\ pc = "alloc" /\ zinfo.phases = 1
                            /\ NewAllocUnchanged
    BY <1>1, Phase1Track
  <2>2. UNCHANGED <<buf, used, fi, after, buffer_flushed>>
    BY <2>1 DEF NewAllocUnchanged, buffer
  <2>3. fi > 0 /\ TurnData(cur)
    BY <1>0, <2>1 DEF TurnInv, TurnData
  <2>4. pc' \in {"alloc", "store"} /\ (cur' = cur \/ cur' = [cur EXCEPT !.pba = t, !.pass = cur.pass])
    BY <2>1 DEF TryTrack, Book, Found
  <2>5. TurnData(cur')
    BY <1>0, <2>3, <2>4 DEF TurnData, Instructions
  <2>6. BufferInv'
    BY <1>0, <2>2, <2>3, BufferKept
  <2>7. HeldUp'
    BY <1>h, <2>2 DEF HeldUp
  <2>8. QED
    BY <1>h, <2>1, <2>2, <2>3, <2>4, <2>5, <2>6, <2>7, TurnTaken
<1>2. CASE LaterStep /\ Alloc /\ zinfo.phases > 1 /\ UNCHANGED newVars
  <2>1. UNCHANGED <<buf, used, fi, after, buffer_flushed>>
    BY <1>2 DEF newVars, codeVars
  <2>2. zinfo'.phases > 1 /\ zinfo'.phases # 1
        /\ pc' \in {"alloc", "store", "disk_full", "undefined"}
    BY <1>2, LaterPhases
  <2>3. BufferInv'
    BY <1>0, <1>2, <2>1, BufferKept DEF BufferInv
  <2>4. CASE fi = 0
    BY <1>0, <2>1, <2>2, <2>3, <2>4, TurnFinished DEF TurnInv
  <2>5. CASE fi # 0
    <3>1. fi > 0 /\ TurnData(cur)
      BY <1>0, <2>5 DEF TurnInv, TurnData
    <3>2. \/ cur' = cur
          \/ \E t : cur' = [cur EXCEPT !.pba = t, !.pass = cur.pass]
      BY <1>2 DEF LaterStep, AllocPhase2, AllocPhase3, AllocPhase3Over, AllocPhase4, AllocDiskFull,
        TryShared, TryTrack, Book, Found
    <3>3. TurnData(cur')
      BY <1>0, <3>1, <3>2 DEF TurnData, Instructions
    <3>4. HeldUp'
      BY <1>h, <2>1 DEF HeldUp
    <3>5. QED
      BY <2>1, <2>2, <2>3, <3>1, <3>3, <3>4, TurnTaken
  <2>6. QED
    BY <2>4, <2>5
<1>3. QED
  BY <1>1, <1>2, AllocateCases

LEMMA NewNextTurns ==
  ASSUME NewIInv, [NewNext]_allVars
  PROVE  BufferInv' /\ TurnInv'
<1>0. NewTypeOK /\ BufferInv /\ TurnInv
  BY DEF NewIInv
<1>1. ASSUME UNCHANGED codeVars, zinfo' = zinfo, pc = "idle",
             pc' \in {"idle", "search", "out_of_range", "bad_status", "not_listed"}
      PROVE  BufferInv' /\ TurnInv'
  <2>1. UNCHANGED <<buf, used, fi, after, buffer_flushed>> /\ fi = 0 /\ after = NoInstruction
    BY <1>0, <1>1 DEF codeVars, TurnInv
  <2>2. BufferInv'
    BY <1>0, <1>1, <2>1, BufferKept DEF BufferInv
  <2>3. QED
    BY <1>0, <1>1, <2>1, <2>2, TurnFinished DEF TurnInv
<1>2. ASSUME NEW l \in 0 .. L, NEW n \in 1 .. MaxBlocks, NEW h \in Hashes, NewStartWrite(l, n, h)
      PROVE  BufferInv' /\ TurnInv'
  BY <1>1, <1>2 DEF NewStartWrite, StartWrite
<1>3. ASSUME NEW l \in LBAs, NewTrim(l)
      PROVE  BufferInv' /\ TurnInv'
  BY <1>1, <1>3 DEF NewTrim, Trim, TrimBadStatus, TrimNotListed, TrimListed, Trimming
<1>4. CASE UNCHANGED allVars
  BY <1>0, <1>4 DEF allVars, vars, newVars, codeVars, BufferInv, TurnInv
<1>5. CASE Overrun
  <2>1. pc' = "undefined" /\ UNCHANGED <<zinfo, cur, buf, used, fi, after, buffer_flushed>>
    BY <1>5, OverrunFacts DEF newVars, codeVars
  <2>2. QED
    BY <1>0, <2>1 DEF BufferInv, TurnInv
<1>6. QED
  BY <1>2, <1>3, <1>4, <1>5, WriteTurns, FlushTurns, AllocateTurns DEF NewNext, NewProgress

-----------------------------------------------------------------------------
(* The arrays of owners.                                                   *)

(* As it is before a lookup, after a store, and all through a flush. *)
Roomy == \A p \in Tracks : Len(lba_list[p]) > 1 /\ refs[p] <= Capacity(lba_list[p])

LEMMA RoomyEnough ==
  ASSUME TypeOK
  PROVE  /\ Roomy => RoomInv
         /\ RoomInv /\ (pc \notin {"store", "mismatch"} \/ fi > 0) => Roomy
<1>1. \A p \in Tracks : refs[p] \in Nat /\ Len(lba_list[p]) \in Nat
  BY LenProperties DEF TypeOK
<1>2. fi > 0 => fi # 0
  BY SMT
<1>3. \A p \in Tracks : Len(lba_list[p]) > 1 => Capacity(lba_list[p]) \in Nat
  BY <1>1, CapacityIs
<1>4. QED
  BY <1>1, <1>2, <1>3 DEF Roomy, RoomInv

(* Arrays that keep their length keep their capacity. *)
LEMMA RoomyLike ==
  ASSUME Roomy, \A p \in Tracks : \E q \in Tracks :
                   Len(lba_list'[p]) = Len(lba_list[q]) /\ refs'[p] = refs[q]
  PROVE  Roomy'
<1>1. \A p \in Tracks : \E q \in Tracks :
        /\ Capacity(lba_list'[p]) = Capacity(lba_list[q])
        /\ Len(lba_list'[p]) = Len(lba_list[q]) /\ refs'[p] = refs[q]
  BY DEF Capacity
<1>2. QED
  BY <1>1 DEF Roomy

(* One array and one count change. *)
LEMMA RoomyAt ==
  ASSUME TypeOK, Roomy, NEW p \in Tracks, NEW s \in Seq(Cells), NEW k \in Nat,
         Len(s) > 1, k <= Capacity(s),
         lba_list' = [lba_list EXCEPT ![p] = s], refs' = [refs EXCEPT ![p] = k]
  PROVE  Roomy'
<1>1. \A q \in Tracks : /\ lba_list'[q] = IF q = p THEN s ELSE lba_list[q]
                        /\ refs'[q] = IF q = p THEN k ELSE refs[q]
  BY DEF TypeOK
<1>2. QED
  BY <1>1 DEF Roomy

LEMMA RoomyThen ==
  ASSUME TypeOK', Roomy'
  PROVE  RoomInv'
<1>1. \A p \in Tracks : refs'[p] \in Nat /\ Len(lba_list'[p]) \in Nat
  BY LenProperties DEF TypeOK
<1>2. \A p \in Tracks : Capacity(lba_list'[p]) \in Nat
  BY <1>1, CapacityIs DEF Roomy
<1>3. QED
  BY <1>1, <1>2 DEF Roomy, RoomInv

LEMMA ShareRoom ==
  ASSUME NewIInv, ShareOnDisk
  PROVE  Roomy'
<1>0. TypeOK /\ Roomy /\ Target \in LBAs
  BY NewBasics, RoomyEnough DEF NewIInv, ShareOnDisk, Phase1Write
<1>1. PICK p \in FirstOf(Stored(cur.hash)) :
       LET count == IF status[p] = "trimed" THEN refs[p] ELSE refs[p] + 1
           s == lba_list[p]
           grown == IF count + 1 > Capacity(s) THEN Increase(s) ELSE s IN
       /\ refs' = [refs EXCEPT ![p] = count]
       /\ \E i \in Positions(grown, refs'[0] + 1, Target) :
            lba_list' = [lba_list EXCEPT ![p] =
                           IF i = 0 THEN [grown EXCEPT ![count + 1] = Target]
                           ELSE IF i <= Len(grown) THEN [grown EXCEPT ![i] = Target] ELSE grown]
  BY DEF ShareOnDisk
<1> DEFINE count == IF status[p] = "trimed" THEN refs[p] ELSE refs[p] + 1
           s == lba_list[p]
           grown == IF count + 1 > Capacity(s) THEN Increase(s) ELSE s
<1>2. p \in Tracks
  BY DEF FirstOf, Stored
<1>3. refs[p] \in Nat /\ s \in Seq(Cells) /\ Len(s) \in Nat /\ Len(s) > 1
      /\ refs[p] <= Capacity(s)
  BY <1>0, <1>2, LenProperties DEF TypeOK, Roomy
<1>4. grown \in Seq(Cells) /\ Len(grown) > 1 /\ count <= Capacity(grown) /\ count \in Nat
  <2>1. Increase(s) \in Seq(Cells) /\ Capacity(Increase(s)) = 2 * Capacity(s)
        /\ Len(Increase(s)) \in Nat /\ Len(Increase(s)) > Len(s)
    BY <1>3, IncreaseRefs
  <2>2. count \in Nat /\ count <= refs[p] + 1 /\ Capacity(s) \in Nat /\ Capacity(s) > 1
    BY <1>3, CapacityIs
  <2> HIDE DEF count, s
  <2>3. CASE count + 1 > Capacity(s)
    BY <1>3, <2>1, <2>2, <2>3
  <2>4. CASE ~(count + 1 > Capacity(s))
    BY <1>3, <2>2, <2>4
  <2>5. QED
    BY <2>3, <2>4
<1>5. PICK i : lba_list' = [lba_list EXCEPT ![p] =
                           IF i = 0 THEN [grown EXCEPT ![count + 1] = Target]
                           ELSE IF i <= Len(grown) THEN [grown EXCEPT ![i] = Target] ELSE grown]
  BY <1>1
<1>6. refs' = [refs EXCEPT ![p] = count]
  BY <1>1
<1> HIDE DEF grown, count, s
<1>7. Capacity(lba_list'[p]) = Capacity(grown) /\ Len(lba_list'[p]) > 1
      /\ \A q \in Tracks \ {p} : lba_list'[q] = lba_list[q]
  BY <1>0, <1>2, <1>4, <1>5, OwnerPut
<1>8. refs'[p] = count /\ \A q \in Tracks \ {p} : refs'[q] = refs[q]
  BY <1>0, <1>2, <1>6 DEF TypeOK
<1>9. QED
  BY <1>0, <1>4, <1>7, <1>8 DEF Roomy

LEMMA SearchRoom ==
  ASSUME NewIInv, NewTypeOK', Search, fi = 0, fi' = 0
  PROVE  RoomInv'
<1>0. TypeOK /\ UseInv /\ Roomy
  <2>1. pc = "search"
    BY DEF Search, Overwrites, SearchOverwriteInPlace, UpdateInPlace, SearchOverwriteSwapped,
      UpdateSwapped, SearchRestore, SearchRestoreMoved, SearchSame, SearchShare, SearchTakeOver,
      SearchNew, SearchBeyond, Searching
  <2>2. QED
    BY <2>1, NewBasics, RoomyEnough DEF NewIInv, NewUseInv
<1>n. \A p \in Tracks : /\ refs[p] \in Nat /\ Len(lba_list[p]) \in Nat
                       /\ lba_list[p] \in Seq(Cells) /\ Capacity(lba_list[p]) \in Nat
  BY <1>0, LenProperties, CapacityIs DEF TypeOK, Roomy
<1>t. Roomy' => RoomInv'
  <2>1. TypeOK'
    BY DEF NewTypeOK
  <2>2. QED
    BY <2>1, RoomyThen
<1>1. CASE UNCHANGED <<refs, lba_list>>
  BY <1>0, <1>t, <1>1 DEF Roomy
<1>2. CASE SearchOverwriteInPlace \/ SearchOverwriteSwapped
  <2>1. \A p \in Tracks : \E q \in Tracks : refs'[p] = refs[q] /\ lba_list'[p] = lba_list[q]
    BY <1>0, <1>2, UpdateLists DEF Updating, Overwrites, SearchOverwriteInPlace, SearchOverwriteSwapped
  <2>2. QED
    BY <1>0, <1>t, <2>1, RoomyLike
<1>3. CASE SearchRestoreMoved \/ SearchShare
  <2>1. PICK p : \/ refs' = [refs EXCEPT ![p] = @ + 1] /\ cur'.pba = p /\ pc' = "store"
                 \/ refs' = refs
    BY <1>0, <1>3 DEF SearchRestoreMoved, SearchShare, Found, TypeOK, Instructions
  <2>2. lba_list' = lba_list
    BY <1>3 DEF SearchRestoreMoved, SearchShare
  <2>3. CASE refs' = refs
    BY <1>1, <2>2, <2>3
  <2>4. CASE refs' # refs
    <3>1. cur'.pba = p /\ pc' = "store" /\ refs' = [refs EXCEPT ![p] = @ + 1]
      BY <2>1, <2>4
    <3>2. \A q \in Tracks : refs'[q] = IF q = p THEN refs[q] + 1 ELSE refs[q]
      BY <1>0, <3>1 DEF TypeOK
    <3>3. \A k, n \in Nat : n <= k /\ n + 1 > k => n + 1 = k + 1
      OBVIOUS
    <3>4. \A k, n \in Nat : n <= k => ~(n > k)
      OBVIOUS
    <3>5. QED
      BY <1>0, <1>n, <2>2, <3>1, <3>2, <3>3, <3>4 DEF Roomy, RoomInv
  <2>5. QED
    BY <2>3, <2>4
<1>4. CASE SearchTakeOver
  <2>1. PICK p \in Tracks : lba_list' = [lba_list EXCEPT ![p][1] = Target] /\ refs' = refs
    BY <1>4, HoldingType DEF SearchTakeOver, FirstOf
  <2>2. Target \in Cells
    BY <1>4 DEF SearchTakeOver, Searching, Cells
  <2>3. Len([lba_list[p] EXCEPT ![1] = Target]) = Len(lba_list[p])
    BY <1>n, <2>2, PutType
  <2>4. \A q \in Tracks : Len(lba_list'[q]) = Len(lba_list[q])
    BY <1>0, <2>1, <2>3 DEF TypeOK
  <2>5. QED
    BY <1>0, <1>t, <2>1, <2>4, RoomyLike
<1>5. QED
  BY <1>1, <1>2, <1>3, <1>4 DEF Search, Overwrites, SearchOverwriteInPlace, UpdateInPlace,
    SearchRestore, SearchSame, SearchNew, SearchBeyond, blocks

LEMMA NewStoreRoom ==
  ASSUME NewIInv, NewStoreShared \/ NewStoreOwned
  PROVE  Roomy'
<1>0. TypeOK /\ RoomInv /\ InProgress /\ pc = "store" /\ fi = 0
  BY NewBasics DEF NewIInv, NewUseInv, UseInv, NewStoreShared, Sharing, NewStoreOwned
<1>b. cur.pba \in Tracks /\ Target \in LBAs /\ cur.lba \in LBAs
  BY <1>0, InstructionBasics, LogicalNumAssumption DEF InProgress, Target, LBAs
<1>n. \A p \in Tracks : /\ refs[p] \in Nat /\ Len(lba_list[p]) \in Nat
                       /\ lba_list[p] \in Seq(Cells) /\ Capacity(lba_list[p]) \in Nat
                       /\ Len(lba_list[p]) > 1 /\ Capacity(lba_list[p]) > 1
  BY <1>0, LenProperties, CapacityIs DEF TypeOK, RoomInv
<1>o. \A p \in Tracks \ {cur.pba} : Len(lba_list[p]) > 1 /\ refs[p] <= Capacity(lba_list[p])
  BY <1>0, <1>n DEF RoomInv
<1>1. CASE NewStoreShared
  <2> DEFINE k == refs[cur.pba] + 1
             s == lba_list[cur.pba]
             grown == IF refs[cur.pba] > Capacity(s) THEN Increase(s) ELSE s
  <2>1. s \in Seq(Cells) /\ Len(s) > 1 /\ refs[cur.pba] <= Capacity(s) + 1 /\ k \in Nat
        /\ Capacity(s) \in Nat /\ Capacity(s) > 1
    BY <1>0, <1>b, <1>n DEF RoomInv
  <2>2. Increase(s) \in Seq(Cells) /\ Capacity(Increase(s)) = 2 * Capacity(s)
        /\ Len(Increase(s)) > 1
    BY <2>1, IncreaseRefs
  <2>3. PICK i : lba_list' = [lba_list EXCEPT ![cur.pba] =
                      IF i = 0 THEN [Reaching(grown, k) EXCEPT ![k] = cur.lba]
                      ELSE IF i <= Len(grown) THEN [grown EXCEPT ![i] = cur.lba] ELSE grown]
    <3>1. k - 1 = refs[cur.pba]
      BY <1>b, <1>n
    <3>2. QED
      BY <1>1, <3>1 DEF NewStoreShared
  <2>4. refs' = refs
    BY <1>1 DEF NewStoreShared, StoreUnchanged
  <2> HIDE DEF s
  <2>5. grown \in Seq(Cells) /\ Len(grown) > 1 /\ refs[cur.pba] <= Capacity(grown)
    <3>1. CASE refs[cur.pba] > Capacity(s)
      BY <1>b, <1>n, <2>1, <2>2, <3>1
    <3>2. CASE ~(refs[cur.pba] > Capacity(s))
      BY <1>b, <1>n, <2>1, <3>2
    <3>3. QED
      BY <3>1, <3>2
  <2> HIDE DEF grown
  <2>r. Reaching(grown, k) \in Seq(Cells) /\ Capacity(Reaching(grown, k)) = Capacity(grown)
        /\ Len(Reaching(grown, k)) > 1
    BY <2>1, <2>5, ReachingRefs, LenProperties
  <2> HIDE DEF k
  <2>6. Capacity(lba_list'[cur.pba]) = Capacity(grown) /\ Len(lba_list'[cur.pba]) > 1
        /\ \A q \in Tracks \ {cur.pba} : lba_list'[q] = lba_list[q]
    BY <1>0, <1>b, <2>3, <2>5, <2>r, OwnerPut
  <2>7. QED
    BY <1>o, <2>4, <2>5, <2>6 DEF Roomy
<1>2. CASE NewStoreOwned
  <2>1. refs' = refs /\ refs[cur.pba] = 0
        /\ lba_list' \in {lba_list, [lba_list EXCEPT ![cur.pba][1] = Target]}
    BY <1>2 DEF NewStoreOwned
  <2>2. Target \in Cells
    BY <1>b, CellsHold
  <2>3. Len([lba_list[cur.pba] EXCEPT ![1] = Target]) = Len(lba_list[cur.pba])
    BY <1>n, <1>b, <2>2, PutType
  <2>4. \A p \in Tracks : Len(lba_list'[p]) = Len(lba_list[p])
    BY <1>0, <1>b, <2>1, <2>3 DEF TypeOK
  <2>5. \A p \in Tracks : Capacity(lba_list'[p]) = Capacity(lba_list[p])
    BY <2>4 DEF Capacity
  <2>6. refs[cur.pba] <= Capacity(lba_list[cur.pba])
    BY <1>b, <1>n, <2>1
  <2>7. QED
    BY <1>b, <1>n, <1>o, <2>1, <2>4, <2>5, <2>6 DEF Roomy
<1>3. QED
  BY <1>1, <1>2

LEMMA FlushRoom ==
  ASSUME NewIInv, FlushStep
  PROVE  Roomy'
<1>0. /\ TypeOK /\ UseInv /\ fi > 0 /\ pc \in Running /\ Roomy
  BY NewBasics, RoomyEnough DEF NewIInv, NewUseInv, FlushStep, FlushUpdate, FlushRestore, FlushNew,
    FlushGrow, FlushJoin, FlushStore, Storing, FlushTurn, Searching, Running
<1>b. /\ buf[fi].lba \in Seq(LBAs) /\ Len(buf[fi].lba) \in Nat /\ Len(buf[fi].lba) > 0
      /\ cur.pba \in Tracks /\ refs[cur.pba] \in Nat
      /\ lba_list[cur.pba] \in Seq(Cells) /\ Len(lba_list[cur.pba]) \in Nat
      /\ Len(lba_list[cur.pba]) > 1
  BY <1>0, FlushBasics
<1>c. Capacity(lba_list[cur.pba]) \in Nat
  BY <1>b, CapacityIs
<1>1. CASE FlushUpdate
  <2>1. Updating
    BY <1>1 DEF FlushUpdate, FlushTurn, Updating, NeverWritten, Deleted, Present
  <2>2. \A p \in Tracks : \E q \in Tracks : refs'[p] = refs[q] /\ lba_list'[p] = lba_list[q]
    BY <1>0, <2>1, UpdateLists
  <2>3. QED
    BY <1>0, <2>2, RoomyLike
<1>2. CASE FlushRestore \/ FlushNew
  BY <1>0, <1>2 DEF FlushRestore, FlushNew, blocks, Roomy
<1>3. CASE FlushGrow
  <2> DEFINE s == Increase(lba_list[cur.pba])
  <2>1. s \in Seq(Cells) /\ Len(s) > 1 /\ Capacity(s) = 2 * Capacity(lba_list[cur.pba])
    BY <1>b, IncreaseRefs
  <2>2. lba_list' = [lba_list EXCEPT ![cur.pba] = s] /\ refs' = refs
    BY <1>3 DEF FlushGrow
  <2>3. refs[cur.pba] <= Capacity(lba_list[cur.pba])
    BY <1>0, <1>b DEF Roomy
  <2> HIDE DEF s
  <2>4. refs[cur.pba] <= Capacity(s)
    BY <1>b, <1>c, <2>1, <2>3
  <2>5. \A q \in Tracks : lba_list'[q] = IF q = cur.pba THEN s ELSE lba_list[q]
    BY <1>0, <2>2 DEF TypeOK
  <2>6. QED
    BY <1>0, <2>1, <2>2, <2>4, <2>5 DEF Roomy
<1>4. CASE FlushJoin
  <2> DEFINE p == cur.pba
             owners == buf[fi].lba
             first == refs[p] + 3
             joined == [i \in 1 .. Len(lba_list[p]) |->
                          IF i - first + 1 \in 1 .. Len(owners)
                          THEN owners[i - first + 1] ELSE lba_list[p][i]]
  <2>1. refs' = [refs EXCEPT ![p] = refs[p] + Len(owners) + 1]
        /\ lba_list' = [lba_list EXCEPT ![p] = joined]
        /\ Capacity(lba_list[p]) >= NeededToJoin
    BY <1>4 DEF FlushJoin
  <2>2. joined \in Seq(Cells) /\ Len(joined) = Len(lba_list[p])
    <3>1. first \in Nat
      BY <1>b
    <3>2. joined \in Seq(Cells)
      BY <1>b, <3>1, OwnersListedFrom
    <3>3. Len(joined) = Len(lba_list[p])
      BY <1>b
    <3>4. QED
      BY <3>2, <3>3
  <2> HIDE DEF joined
  <2>3. refs[p] + Len(owners) + 1 \in Nat /\ refs[p] + Len(owners) + 1 <= Capacity(joined)
    <3>1. Capacity(lba_list[p]) >= refs[p] + Len(owners) + 2
      BY <2>1 DEF NeededToJoin
    <3>2. Capacity(joined) = Capacity(lba_list[p])
      BY <2>2 DEF Capacity
    <3>3. \A j, k, n \in Nat : n >= j + k + 2 => j + k + 1 \in Nat /\ j + k + 1 <= n
      OBVIOUS
    <3>4. QED
      BY <1>b, <1>c, <3>1, <3>2, <3>3
  <2>4. QED
    BY <1>0, <1>b, <2>1, <2>2, <2>3, RoomyAt
<1>5. CASE FlushStore
  <2> DEFINE p == cur.pba
             owners == buf[fi].lba
             stored == WithOwners(lba_list[p], owners)
  <2>1. refs' = [refs EXCEPT ![p] = Len(owners) - 1] /\ lba_list' = [lba_list EXCEPT ![p] = stored]
    BY <1>5 DEF FlushStore
  <2>s. Len(owners) <= Capacity(lba_list[p]) + 1
    BY <1>5, StoringBasics DEF FlushStore
  <2>2. stored \in Seq(Cells) /\ Len(stored) > 1 /\ Capacity(stored) = Capacity(lba_list[p])
    BY <1>b, <2>s, WithOwnersRefs
  <2> HIDE DEF stored
  <2>3. Len(owners) - 1 \in Nat /\ Len(owners) - 1 <= Capacity(stored)
    BY <1>b, <1>c, <2>s, <2>2
  <2>4. QED
    BY <1>0, <1>b, <2>1, <2>2, <2>3, RoomyAt
<1>6. QED
  BY <1>1, <1>2, <1>3, <1>4, <1>5 DEF FlushStep

LEMMA TrimRoom ==
  ASSUME TypeOK, Roomy, NEW l \in LBAs, Trim(l)
  PROVE  Roomy'
<1>0. \A p \in Tracks : /\ refs[p] \in Nat /\ Len(lba_list[p]) \in Nat
                       /\ lba_list[p] \in Seq(Cells) /\ Capacity(lba_list[p]) \in Nat
  BY LenProperties, CapacityIs DEF TypeOK, Roomy
<1>1. CASE UNCHANGED <<refs, lba_list>>
  BY <1>1 DEF Roomy
<1>2. CASE TrimListed(l)
  <2> DEFINE p == ltp[l].pba
  <2>1. p \in Tracks
    BY DEF TypeOK, Entries
  <2>2. PICK i : lba_list' = [lba_list EXCEPT ![p] = DeleteAt(@, i, refs[p] + 1)]
    BY <1>2 DEF TrimListed
  <2>3. \A q \in Tracks : Len(lba_list'[q]) = Len(lba_list[q])
    BY <1>0, <2>1, <2>2, DeleteAtType DEF TypeOK
  <2>4. \A q \in Tracks : refs'[q] \in {refs[q], refs[q] - 1}
    BY <1>2, <2>1 DEF TrimListed, Vacate, TypeOK
  <2>5. \A k, n, m \in Int : n <= k /\ m \in {n, n - 1} => m <= k
    OBVIOUS
  <2>6. \A q \in Tracks : Capacity(lba_list'[q]) = Capacity(lba_list[q])
    BY <2>3 DEF Capacity
  <2>7. QED
    BY <1>0, <2>3, <2>4, <2>5, <2>6 DEF Roomy
<1>3. QED
  BY <1>1, <1>2 DEF Trim, TrimBadStatus, TrimNotListed

LEMMA NewNextRoom ==
  ASSUME NewIInv, [NewNext]_allVars
  PROVE  RoomInv'
<1>0. NewTypeOK /\ TypeOK /\ RoomInv /\ TurnInv /\ NewTypeOK'
  BY NewBasics, NewNextType DEF NewIInv
<1>t. Roomy' => RoomInv'
  <2>1. TypeOK'
    BY <1>0 DEF NewTypeOK
  <2>2. QED
    BY <2>1, RoomyThen
<1>s. ASSUME Roomy, UNCHANGED <<refs, lba_list>>
      PROVE  RoomInv'
  BY <1>t, <1>s DEF Roomy
<1>1. CASE ShareOnDisk \/ NewStoreShared \/ NewStoreOwned
  BY <1>t, <1>1, ShareRoom, NewStoreRoom
<1>2. CASE FlushStep
  BY <1>t, <1>2, FlushRoom
<1>3. CASE BeyondTable \/ Lookup
  <2>1. Search /\ fi = 0 /\ fi' = 0
    BY <1>3 DEF BeyondTable, Lookup, Search, newVars, codeVars
  <2>2. QED
    BY <1>0, <2>1, SearchRoom
<1>4. CASE JoinBuffered \/ FillBlock \/ FlushAgain
  <2>1. pc = "search" /\ UNCHANGED <<refs, lba_list>>
    BY <1>4 DEF JoinBuffered, FillBlock, FlushAgain, Buffering, Phase1Write, blocks
  <2>2. QED
    BY <1>0, <1>s, <2>1, RoomyEnough
<1>5. CASE NewMismatch
  BY <1>0, <1>5 DEF NewMismatch, StoreMismatch, StoreUnchanged, newVars, codeVars, RoomInv
<1>6. CASE NewAllocate
  <2>1. pc = "alloc" /\ UNCHANGED <<refs, lba_list>>
    BY <1>6 DEF NewAllocate, NewPhase1, NewPhase1Last, NewPhase1Full, NewAllocUnchanged,
      AllocPhase2, AllocPhase3, AllocPhase3Over, AllocPhase4, AllocDiskFull, Allocating,
      AllocUnchanged
  <2>2. QED
    BY <1>0, <1>s, <2>1, RoomyEnough
<1>7. ASSUME NEW l \in 0 .. L, NEW n \in 1 .. MaxBlocks, NEW h \in Hashes, NewStartWrite(l, n, h)
      PROVE  RoomInv'
  <2>1. pc = "idle" /\ UNCHANGED <<refs, lba_list>>
    BY <1>7 DEF NewStartWrite, StartWrite, blocks
  <2>2. QED
    BY <1>0, <1>s, <2>1, RoomyEnough
<1>8. ASSUME NEW l \in LBAs, NewTrim(l)
      PROVE  RoomInv'
  <2>1. pc = "idle" /\ Trim(l)
    BY <1>8 DEF NewTrim, Trim, TrimBadStatus, TrimNotListed, TrimListed, Trimming
  <2>2. Roomy
    BY <1>0, <2>1, RoomyEnough
  <2>3. QED
    BY <1>0, <1>t, <2>1, <2>2, TrimRoom
<1>9. CASE UNCHANGED allVars
  BY <1>0, <1>9 DEF allVars, vars, newVars, codeVars, RoomInv
<1>10. CASE Overrun
  <2>1. UNCHANGED <<refs, lba_list>> /\ pc \in {"search", "store"}
        /\ (fi = 0 /\ pc = "store" => refs[cur.pba] = Capacity(lba_list[cur.pba]))
    BY <1>10, OverrunFacts DEF blocks
  <2>2. Roomy
    <3>1. CASE fi = 0 /\ pc = "store"
      <4>1. \A p \in Tracks : /\ Capacity(lba_list[p]) \in Nat /\ refs[p] \in Nat
                             /\ Len(lba_list[p]) > 1
        BY <1>0, LenProperties, CapacityIs DEF TypeOK, RoomInv
      <4>2. \A p \in Tracks : refs[p] > Capacity(lba_list[p]) => p = cur.pba
        BY <1>0 DEF RoomInv
      <4>3. QED
        BY <2>1, <3>1, <4>1, <4>2 DEF Roomy
    <3>2. CASE ~(fi = 0 /\ pc = "store")
      <4>1. fi \in Nat
        BY <1>0, NewBasics, BufferBounds
      <4>2. pc \notin {"store", "mismatch"} \/ fi > 0
        BY <2>1, <3>2, <4>1
      <4>3. QED
        BY <1>0, <4>2, RoomyEnough
    <3>3. QED
      BY <3>1, <3>2
  <2>3. QED
    BY <1>s, <2>1, <2>2
<1>11. QED
  BY <1>1, <1>2, <1>3, <1>4, <1>5, <1>6, <1>7, <1>8, <1>9, <1>10
    DEF NewNext, NewProgress, WriteStep

-----------------------------------------------------------------------------
(* The theorems.                                                           *)

LEMMA NewInitInv == NewInit => NewIInv
<1> SUFFICES ASSUME NewInit PROVE NewIInv
  OBVIOUS
<1>b. BufNum \in Nat /\ BufNum > 0 /\ BufCap \in Nat /\ BufCap > 0
  BY BufferBounds
<1>1. TypeOK
  <2>1. 0 \in Tracks
    BY Geometry DEF Tracks
  <2>2. <<NoLba, NoLba>> \in Seq(Cells)
    BY CellsHold
  <2>3. NoInstruction \in Instructions
    BY <2>1, LogicalNumAssumption, TraceAssumption DEF NoInstruction, Instructions
  <2>4. zinfo \in Allocators
    BY Geometry DEF NewInit, Allocators
  <2>5. ltp \in [LBAs -> Entries]
    BY <2>1 DEF NewInit, Entries
  <2>6. current_use \in 0 .. UseCap
    BY UseBound DEF NewInit
  <2>7. QED
    BY <2>2, <2>3, <2>4, <2>5, <2>6 DEF NewInit, TypeOK, Statuses
<1>2. buf \in [BufIndex -> BufferBlocks]
      /\ \A i \in BufIndex : buf[i].lba = <<0>> /\ buf[i].cap = BufCap
  <2>1. 0 \in LBAs
    BY LogicalNumAssumption DEF LBAs
  <2>2. <<0>> \in Seq(LBAs)
    BY <2>1
  <2>3. QED
    BY <1>b, <2>2 DEF NewInit, BufferBlocks
<1>3. NewTypeOK
  <2>1. NoInstruction \in Instructions
    BY <1>1, InstructionBasics
  <2>2. QED
    <3>1. /\ used = 0 /\ fi = 0 /\ after = NoInstruction /\ next_bottom = 0
          /\ buffer_flushed = FALSE /\ plain \in Plain /\ budget = MaxInstr
      BY DEF NewInit
    <3>2. used \in 0 .. BufNum /\ fi \in 0 .. BufNum /\ next_bottom \in Nat
      BY <1>b, <3>1
    <3>3. plain \in BOOLEAN /\ budget \in Nat /\ buffer_flushed \in BOOLEAN /\ after \in Instructions
      BY <2>1, <3>1, BoundAssumption
    <3>4. QED
      BY <1>1, <1>2, <3>2, <3>3 DEF NewTypeOK, BufferBlocks
<1>4. NewAllocatorInv
  <2>1. 0 \in Bottoms
    BY Geometry DEF Bottoms, Tracks, is_toptrack
  <2>2. phase1_start = 0 /\ phase1_end # 0
    BY Geometry
  <2>3. QED
    BY <2>1, <2>2, TracksNat DEF NewInit, NewAllocatorInv, NewFrontier, TopPhases, FullMeansFull,
      Bottoms
<1>5. NewUseInv
  BY TraceAssumption DEF NewInit, NewUseInv, UseInv, MappedAllocated, HashAllocated,
    BatchAllocated, InProgress, NoInstruction, Running
<1>6. BufferInv
  <2>1. <<0>> # <<>> /\ Len(<<0>>) = 1
    OBVIOUS
  <2>2. QED
    <3>1. used = 0 /\ fi = 0 /\ zinfo.phases = 1
      BY DEF NewInit
    <3>2. \A i \in BufIndex :
            buf[i].lba # <<>> /\ Len(buf[i].lba) <= buf[i].cap + 1 /\ buf[i].cap > 0
      <4>1. 1 <= BufCap + 1
        BY <1>b
      <4>2. QED
        <5>1. ASSUME NEW i \in BufIndex
              PROVE  buf[i].lba # <<>> /\ Len(buf[i].lba) <= buf[i].cap + 1 /\ buf[i].cap > 0
          <6>1. buf[i].lba = <<0>> /\ buf[i].cap = BufCap
            BY <1>2
          <6>2. Len(buf[i].lba) = 1
            BY <2>1, <6>1, Zenon
          <6>3. buf[i].lba # <<>>
            BY <2>1, <6>1, Zenon
          <6>4. QED
            BY <1>b, <4>1, <6>1, <6>2, <6>3
        <5>2. QED
          BY <5>1
    <3>3. 1 .. used = {} /\ used < BufNum
      BY <1>b, <3>1
    <3>4. ~(zinfo.phases > 1 \/ fi > 0)
      BY <3>1
    <3>5. QED
      BY <3>2, <3>3, <3>4 DEF BufferInv
<1>7. TurnInv
  BY DEF NewInit, TurnInv
<1>8. RoomInv
  <2>1. Len(<<NoLba, NoLba>>) = 2
    OBVIOUS
  <2>2. Capacity(<<NoLba, NoLba>>) = 2
    BY <2>1 DEF Capacity
  <2>3. QED
    BY <2>1, <2>2 DEF NewInit, RoomInv
<1>9. QED
  BY <1>3, <1>4, <1>5, <1>6, <1>7, <1>8 DEF NewIInv

LEMMA NewNextInv == NewIInv /\ [NewNext]_allVars => NewIInv'
  BY NewNextType, NewNextAllocator, NewNextUse, NewNextTurns, NewNextRoom DEF NewIInv

(* The inductive invariant holds in every reachable state. *)
THEOREM NewInvariant == NewSpec => []NewIInv
<1>1. QED
  BY NewInitInv, NewNextInv, PTL DEF NewSpec

(* No step of the new_alloc build leaves the types: the buffer's counter and  *)
(* the flush stay within the buffer, every owner that is flushed is a block   *)
(* of the table (lba.c:774-1003).                                             *)
THEOREM NewTypeCorrect == NewSpec => []NewTypeOK
<1>1. NewIInv => NewTypeOK
  BY DEF NewIInv
<1>2. QED
  BY <1>1, NewInvariant, PTL

(* On every disk the counter of phase 1 and the status of the bottom tracks   *)
(* agree, although the last track is booked behind the counter's back         *)
(* (pba.c:51-100).                                                            *)
THEOREM CounterAgrees == NewSpec => []NewFrontier
<1>1. NewIInv => NewFrontier
  BY DEF NewIInv, NewAllocatorInv
<1>2. QED
  BY <1>1, NewInvariant, PTL

(* Whatever the size of the buffer, a flush never writes a block that nothing *)
(* was put into, although it writes all of them without looking at how many   *)
(* are used (lba.c:926).                                                      *)
THEOREM NothingEmptyFlushed == NewSpec => []FlushesFullBuffer
<1>1. NewIInv => FlushesFullBuffer
  BY HashAssumption DEF NewIInv, BufferInv, FlushesFullBuffer
<1>2. QED
  BY <1>1, NewInvariant, PTL

(* However many owners a block of the buffer or a track collects, the program *)
(* never writes further past an array than the one cell, and that cell is all *)
(* it needs of malloc: an array that holds one owner too many is doubled      *)
(* before the next (lba.c:848-853, 862-866, 895-902, 957-967, 985-997).       *)
THEOREM OverrunsByOneCell == NewSpec => []OneCellPast
<1>1. NewIInv => OneCellPast
  BY DEF NewIInv, BufferInv, RoomInv, OneCellPast
<1>2. QED
  BY <1>1, NewInvariant, PTL

-----------------------------------------------------------------------------
(* Every write ends.                                                       *)

(* The lexicographic order, spelled out for the measure.                   *)
LEMMA LessAtSix ==
  ASSUME NEW a1, NEW a2, NEW a3, NEW a4, NEW a5, NEW a6,
         NEW b1, NEW b2, NEW b3, NEW b4, NEW b5, NEW b6,
         \/ a1 < b1
         \/ a1 = b1 /\ a2 < b2
         \/ a1 = b1 /\ a2 = b2 /\ a3 < b3
         \/ a1 = b1 /\ a2 = b2 /\ a3 = b3 /\ a4 < b4
         \/ a1 = b1 /\ a2 = b2 /\ a3 = b3 /\ a4 = b4 /\ a5 < b5
         \/ a1 = b1 /\ a2 = b2 /\ a3 = b3 /\ a4 = b4 /\ a5 = b5 /\ a6 < b6
  PROVE  LessWork(<<a1, a2, a3, a4, a5, a6>>, <<b1, b2, b3, b4, b5, b6>>)
<1> DEFINE v == <<a1, a2, a3, a4, a5, a6>>
           u == <<b1, b2, b3, b4, b5, b6>>
<1>1. /\ Len(v) = 6 /\ v[1] = a1 /\ v[2] = a2 /\ v[3] = a3 /\ v[4] = a4 /\ v[5] = a5 /\ v[6] = a6
      /\ u[1] = b1 /\ u[2] = b2 /\ u[3] = b3 /\ u[4] = b4 /\ u[5] = b5 /\ u[6] = b6
  OBVIOUS
<1> SUFFICES \E i \in 1 .. 6 : v[i] < u[i] /\ \A j \in 1 .. i - 1 : v[j] = u[j]
  BY <1>1 DEF LessWork
<1> HIDE DEF v, u
<1>2. ASSUME NEW i \in 1 .. 6, v[i] < u[i], \A j \in 1 .. i - 1 : v[j] = u[j]
      PROVE  \E k \in 1 .. 6 : v[k] < u[k] /\ \A j \in 1 .. k - 1 : v[j] = u[j]
  BY <1>2
<1>3. CASE a1 < b1
  <2>1. v[1] < u[1] /\ \A j \in 1 .. 1 - 1 : v[j] = u[j]
    BY <1>1, <1>3
  <2>2. QED
    BY <1>2, <2>1
<1>4. CASE a1 = b1 /\ a2 < b2
  <2>1. v[2] < u[2] /\ \A j \in 1 .. 2 - 1 : v[j] = u[j]
    BY <1>1, <1>4
  <2>2. QED
    BY <1>2, <2>1
<1>5. CASE a1 = b1 /\ a2 = b2 /\ a3 < b3
  <2>1. v[3] < u[3] /\ \A j \in 1 .. 3 - 1 : v[j] = u[j]
    BY <1>1, <1>5
  <2>2. QED
    BY <1>2, <2>1
<1>6. CASE a1 = b1 /\ a2 = b2 /\ a3 = b3 /\ a4 < b4
  <2>1. v[4] < u[4] /\ \A j \in 1 .. 4 - 1 : v[j] = u[j]
    BY <1>1, <1>6
  <2>2. QED
    BY <1>2, <2>1
<1>7. CASE a1 = b1 /\ a2 = b2 /\ a3 = b3 /\ a4 = b4 /\ a5 < b5
  <2>1. v[5] < u[5] /\ \A j \in 1 .. 5 - 1 : v[j] = u[j]
    BY <1>1, <1>7
  <2>2. QED
    BY <1>2, <2>1
<1>8. CASE a1 = b1 /\ a2 = b2 /\ a3 = b3 /\ a4 = b4 /\ a5 = b5 /\ a6 < b6
  <2>1. v[6] < u[6] /\ \A j \in 1 .. 6 - 1 : v[j] = u[j]
    BY <1>1, <1>8
  <2>2. QED
    BY <1>2, <2>1
<1>9. QED
  BY <1>3, <1>4, <1>5, <1>6, <1>7, <1>8

(* The measure is made of natural numbers.                                 *)
BlocksLeft == instruction.n - instruction.i
NewWorkIsNat == /\ BlocksLeft \in Nat /\ FlushesLeft \in Nat /\ StagesLeft \in Nat
                /\ PhasesLeft \in Nat /\ TracksLeft(next_bottom) \in Nat /\ CapacityLacking \in Nat

LEMMA InstructionLeft ==
  ASSUME NewIInv
  PROVE  /\ instruction \in Instructions /\ instruction.n \in Nat /\ instruction.i \in Nat
         /\ instruction.i < instruction.n
<1>1. NewTypeOK /\ TypeOK /\ InProgress /\ TurnInv
  BY NewBasics DEF NewIInv, NewUseInv, UseInv
<1>2. instruction \in Instructions
  BY <1>1, NewBasics, InstructionBasics DEF instruction
<1>3. instruction.n \in Nat /\ instruction.i \in Nat
  BY <1>2, TraceAssumption DEF Instructions
<1>4. instruction.i < instruction.n
  <2>1. CASE fi = 0
    BY <1>1, <2>1 DEF instruction, InProgress
  <2>2. CASE fi # 0 /\ after # NoInstruction
    BY <1>1, <2>2 DEF instruction, TurnInv
  <2>3. CASE fi # 0 /\ after = NoInstruction
    <3>1. NoInstruction.i = 0 /\ NoInstruction.n = 1
      BY DEF NoInstruction
    <3>2. QED
      BY <2>3, <3>1 DEF instruction
  <2>4. QED
    BY <2>1, <2>2, <2>3
<1>5. QED
  BY <1>2, <1>3, <1>4

LEMMA CapacityFacts ==
  ASSUME NewIInv
  PROVE  /\ Capacity(lba_list[cur.pba]) \in Nat /\ CapacityNeeded \in Int /\ CapacityLacking \in Nat
<1>1. NewTypeOK /\ TypeOK /\ RoomInv
  BY NewBasics DEF NewIInv
<1>2. cur.pba \in Tracks
  BY <1>1, InstructionBasics
<1>3. Len(lba_list[cur.pba]) \in Nat /\ Len(lba_list[cur.pba]) > 1 /\ refs[cur.pba] \in Nat
  BY <1>1, <1>2, LenProperties DEF TypeOK, RoomInv
<1>4. Capacity(lba_list[cur.pba]) \in Nat
  BY <1>3, CapacityIs
<1>5. CapacityNeeded \in Int
  <2>1. CASE fi > 0 /\ pc \in Running
    <3>1. Len(buf[fi].lba) \in Nat
      BY <2>1, FlushBasics
    <3>2. NeededToJoin \in Int /\ NeededToStore \in Int
      BY <1>3, <3>1 DEF NeededToJoin, NeededToStore
    <3>3. QED
      BY <3>2 DEF CapacityNeeded
  <2>2. CASE ~(fi > 0 /\ pc \in Running)
    BY <2>2 DEF CapacityNeeded, Running
  <2>3. QED
    BY <2>1, <2>2
<1>6. QED
  BY <1>4, <1>5 DEF CapacityLacking

LEMMA NewWorkNat == NewIInv => NewWorkIsNat
<1> SUFFICES ASSUME NewIInv PROVE NewWorkIsNat
  OBVIOUS
<1>1. NewTypeOK /\ TypeOK /\ NewFrontier /\ TopPhases
  BY NewBasics DEF NewIInv, NewAllocatorInv
<1>2. BlocksLeft \in Nat
  BY InstructionLeft DEF BlocksLeft
<1>3. FlushesLeft \in Nat
  BY <1>1, NewBasics, BufferBounds DEF FlushesLeft
<1>4. zinfo.phases \in 1 .. 4 /\ zinfo.current_track \in Nat /\ N \in Nat
  BY <1>1, TrackNumAssumption DEF TypeOK, Allocators
<1>5. zinfo.phases = 1 => next_bottom \in Nat /\ next_bottom < N
  BY <1>1, <1>4 DEF NewFrontier, Bottoms, Tracks
<1>6. zinfo.phases = 3 => zinfo.current_track <= N + 1
  BY <1>1 DEF TopPhases
<1>7. TracksLeft(next_bottom) \in Nat
  BY <1>4, <1>5, <1>6 DEF TracksLeft
<1>8. StagesLeft \in Nat /\ PhasesLeft \in Nat
  BY <1>4 DEF StagesLeft, PhasesLeft
<1>9. QED
  BY <1>2, <1>3, <1>7, <1>8, CapacityFacts DEF NewWorkIsNat

(* What makes less work: fewer blocks, fewer flushes, an earlier stage, or *)
(* within the stage less left for the allocator or of the array to grow.   *)
SameBlocks == BlocksLeft' = BlocksLeft /\ FlushesLeft' = FlushesLeft
Closer ==
  \/ BlocksLeft' < BlocksLeft
  \/ BlocksLeft' = BlocksLeft /\ FlushesLeft' < FlushesLeft
  \/ SameBlocks /\ StagesLeft' < StagesLeft
  \/ SameBlocks /\ StagesLeft' = StagesLeft /\ PhasesLeft' < PhasesLeft
  \/ /\ SameBlocks /\ StagesLeft' = StagesLeft /\ PhasesLeft' = PhasesLeft
     /\ TracksLeft(next_bottom)' < TracksLeft(next_bottom)
  \/ /\ SameBlocks /\ StagesLeft' = StagesLeft /\ PhasesLeft' = PhasesLeft
     /\ TracksLeft(next_bottom)' = TracksLeft(next_bottom)
     /\ CapacityLacking' < CapacityLacking

LEMMA CloserIsLess ==
  ASSUME NewWorkIsNat, NewWorkIsNat', Closer
  PROVE  NewStepCloser
<1>1. NewWorkLeft' \in Seq(Nat)
  BY DEF NewWorkIsNat, NewWorkLeft, BlocksLeft
<1>2. LessWork(NewWorkLeft', NewWorkLeft)
  BY LessAtSix DEF NewWorkLeft, Closer, SameBlocks, BlocksLeft
<1>3. QED
  BY <1>1, <1>2 DEF NewStepCloser

(* The same instruction and the same block of a flush.                     *)
LEMMA SameTurn ==
  ASSUME UNCHANGED <<fi, after, buffer_flushed>>, cur'.n = cur.n, cur'.i = cur.i
  PROVE  SameBlocks
  BY DEF SameBlocks, BlocksLeft, FlushesLeft, instruction

LEMMA WriteCloser ==
  ASSUME NewIInv, WriteStep, pc \in Running, pc' \in Running
  PROVE  Closer
<1>0. NewTypeOK /\ TypeOK /\ TurnInv /\ BufNum \in Nat /\ BufNum > 0
  BY NewBasics, BufferBounds DEF NewIInv
<1>b. cur \in Instructions /\ cur.n \in Nat /\ cur.i \in Nat
  BY <1>0, InstructionBasics
<1>1. CASE ShareOnDisk \/ JoinBuffered \/ BeyondTable \/ NewMismatch \/ NewStoreShared
  BY <1>1 DEF ShareOnDisk, JoinBuffered, BeyondTable, SearchBeyond, NewMismatch, StoreMismatch,
    NewStoreShared, Finish, Running
<1>2. CASE FillBlock
  <2>1. fi = 0 /\ zinfo.phases = 1 /\ buffer_flushed' = buffer_flushed /\ StartFlush(NoInstruction)
    BY <1>2 DEF FillBlock, Buffering, Phase1Write, Finish, Running
  <2>2. fi' = 1 /\ after' = NoInstruction
    BY <2>1 DEF StartFlush
  <2>3. ~buffer_flushed
    BY <1>0, <2>1 DEF TurnInv
  <2>4. FlushesLeft = BufNum + 1 /\ FlushesLeft' = BufNum + 1 - 1
    BY <2>1, <2>2, <2>3 DEF FlushesLeft
  <2>5. instruction = cur /\ instruction' = NoInstruction
    BY <2>1, <2>2 DEF instruction
  <2>6. BlocksLeft' = 1 /\ BlocksLeft \in Nat /\ BlocksLeft >= 1
    <3>1. NoInstruction.n - NoInstruction.i = 1
      BY DEF NoInstruction
    <3>2. QED
      BY <2>5, <3>1, InstructionLeft DEF BlocksLeft
  <2>7. QED
    BY <1>0, <2>4, <2>6 DEF Closer
<1>3. CASE FlushAgain
  <2>1. fi = 0 /\ ~buffer_flushed /\ StartFlush(cur)
    BY <1>3 DEF FlushAgain, Flushed
  <2>2. fi' = 1 /\ after' = cur
    BY <2>1 DEF StartFlush
  <2>3. FlushesLeft = BufNum + 1 /\ FlushesLeft' = BufNum + 1 - 1
    BY <2>1, <2>2 DEF FlushesLeft
  <2>4. instruction' = instruction
    BY <2>1, <2>2 DEF instruction
  <2>5. QED
    BY <1>0, <2>3, <2>4 DEF Closer, BlocksLeft
<1>4. CASE Lookup
  <2>1. UNCHANGED <<fi, after, buffer_flushed>>
    BY <1>4 DEF Lookup, newVars, codeVars
  <2>2. pc = "search" /\ pc' \in {"alloc", "store"} /\ cur'.n = cur.n /\ cur'.i = cur.i
    BY <1>b, <1>4 DEF Lookup, Search, Overwrites, SearchOverwriteInPlace, UpdateInPlace,
      SearchOverwriteSwapped, UpdateSwapped, SearchRestore, SearchRestoreMoved, SearchSame,
      SearchShare, SearchTakeOver, SearchNew, SearchBeyond, Searching, Found, Running, Instructions
  <2>3. SameBlocks
    BY <2>1, <2>2, SameTurn
  <2>4. QED
    BY <2>2, <2>3 DEF Closer, StagesLeft
<1>5. CASE NewStoreOwned
  <2>1. fi = 0 /\ fi' = 0 /\ cur' = [cur EXCEPT !.i = @ + 1, !.pba = 0]
    BY <1>5 DEF NewStoreOwned, Finish, Running, newVars, codeVars
  <2>2. cur'.n = cur.n /\ cur'.i = cur.i + 1
    BY <1>b, <2>1 DEF Instructions
  <2>3. QED
    BY <1>b, <2>1, <2>2 DEF Closer, BlocksLeft, instruction
<1>6. QED
  BY <1>1, <1>2, <1>3, <1>4, <1>5 DEF WriteStep

LEMMA FlushCloser ==
  ASSUME NewIInv, NewIInv', FlushStep, pc \in Running, pc' \in Running
  PROVE  Closer
<1>0. /\ NewTypeOK /\ TypeOK /\ TurnInv /\ BufferInv /\ BufNum \in Nat /\ BufNum > 0
      /\ fi \in 0 .. BufNum /\ fi > 0
  BY NewBasics, BufferBounds DEF NewIInv, FlushStep, FlushUpdate, FlushRestore, FlushNew,
    FlushGrow, FlushJoin, FlushStore, Storing, FlushTurn
<1>b. cur \in Instructions /\ cur.n \in Nat /\ cur.i \in Nat
  BY <1>0, InstructionBasics
<1>1. CASE FlushUpdate \/ FlushRestore \/ FlushNew
  <2>1. UNCHANGED <<fi, after, buffer_flushed>> /\ pc = "search"
    BY <1>1 DEF FlushUpdate, FlushRestore, FlushNew, FlushTurn, Searching, newVars, codeVars
  <2>2. pc' \in {"alloc", "store", "flush"} /\ cur'.n = cur.n /\ cur'.i = cur.i
    BY <1>b, <1>1 DEF FlushUpdate, UpdateInPlace, UpdateSwapped, Found, FlushRestore, FlushNew,
      Instructions
  <2>3. SameBlocks
    BY <2>1, <2>2, SameTurn
  <2>4. QED
    BY <2>1, <2>2, <2>3 DEF Closer, StagesLeft
<1>2. CASE FlushGrow
  <2>1. UNCHANGED <<fi, after, buffer_flushed, pc, cur, zinfo, next_bottom, refs, buf>>
    BY <1>2 DEF FlushGrow, newVars, codeVars
  <2>2. SameBlocks /\ StagesLeft' = StagesLeft /\ PhasesLeft' = PhasesLeft
        /\ TracksLeft(next_bottom)' = TracksLeft(next_bottom)
    BY <2>1, SameTurn DEF StagesLeft, PhasesLeft, TracksLeft
  <2>3. CapacityNeeded' = CapacityNeeded
    BY <2>1 DEF CapacityNeeded, NeededToJoin, NeededToStore
  <2>4. CapacityNeeded > Capacity(lba_list[cur.pba])
    <3>1. CASE pc = "flush" /\ Capacity(lba_list[cur.pba]) < NeededToJoin
      <4>1. CapacityNeeded = NeededToJoin
        BY <1>0, <3>1 DEF CapacityNeeded
      <4>2. QED
        BY <3>1, <4>1, CapacityFacts
    <3>2. CASE pc = "store" /\ Capacity(lba_list[cur.pba]) < NeededToStore
      <4>1. CapacityNeeded = NeededToStore
        BY <1>0, <3>2 DEF CapacityNeeded
      <4>2. QED
        BY <3>2, <4>1, CapacityFacts
    <3>3. QED
      BY <1>2, <3>1, <3>2 DEF FlushGrow
  <2>5. Capacity(lba_list'[cur'.pba]) \in Nat
        /\ Capacity(lba_list'[cur'.pba]) > Capacity(lba_list[cur.pba])
    <3>1. lba_list[cur.pba] \in Seq(Cells) /\ Len(lba_list[cur.pba]) > 1 /\ cur.pba \in Tracks
      BY <1>0, FlushBasics
    <3>2. lba_list'[cur.pba] = Increase(lba_list[cur.pba])
      BY <1>0, <1>2, <3>1 DEF FlushGrow, TypeOK
    <3>3. Capacity(Increase(lba_list[cur.pba])) = 2 * Capacity(lba_list[cur.pba])
          /\ Capacity(lba_list[cur.pba]) \in Nat /\ Capacity(lba_list[cur.pba]) > 1
      BY <3>1, IncreaseRefs, CapacityIs, LenProperties
    <3>4. QED
      BY <2>1, <3>2, <3>3
  <2>6. CapacityLacking' < CapacityLacking
    <3>1. \A n \in Int, c, d \in Nat : n > c /\ d > c =>
            (IF n > d THEN n - d ELSE 0) < (IF n > c THEN n - c ELSE 0)
      OBVIOUS
    <3>2. CapacityNeeded \in Int /\ Capacity(lba_list[cur.pba]) \in Nat
      BY CapacityFacts
    <3>3. CapacityLacking' = IF CapacityNeeded > Capacity(lba_list'[cur'.pba])
                             THEN CapacityNeeded - Capacity(lba_list'[cur'.pba]) ELSE 0
      BY <2>3 DEF CapacityLacking, Capacity
    <3>4. QED
      BY <2>4, <2>5, <3>1, <3>2, <3>3 DEF CapacityLacking
  <2>7. QED
    BY <2>2, <2>6 DEF Closer
<1>3. CASE FlushJoin \/ FlushStore
  <2>1. NextBlock /\ buffer_flushed' = buffer_flushed
    BY <1>3 DEF FlushJoin, FlushStore
  <2>2. CASE fi < BufNum /\ fi' = fi + 1 /\ after' = after
    <3>1. FlushesLeft' < FlushesLeft
      BY <1>0, <2>2 DEF FlushesLeft
    <3>2. BlocksLeft' = BlocksLeft
      BY <1>0, <2>2 DEF BlocksLeft, instruction
    <3>3. QED
      BY <3>1, <3>2 DEF Closer
  <2>3. CASE fi = BufNum /\ fi' = 0 /\ after # NoInstruction /\ cur' = after
    <3>1. buffer_flushed'
      BY <1>0, <2>1, <2>3 DEF TurnInv
    <3>2. FlushesLeft' < FlushesLeft
      BY <1>0, <2>3, <3>1 DEF FlushesLeft
    <3>3. BlocksLeft' = BlocksLeft
      BY <1>0, <2>3 DEF BlocksLeft, instruction
    <3>4. QED
      BY <3>2, <3>3 DEF Closer
  <2>4. QED
    BY <1>0, <2>1, <2>2, <2>3, FlushGoesOn DEF Running
<1>4. QED
  BY <1>1, <1>2, <1>3 DEF FlushStep

LEMMA AllocateCloser ==
  ASSUME NewIInv, NewAllocate, pc' \in Running
  PROVE  Closer
<1>0. NewTypeOK /\ TypeOK /\ TurnInv /\ zinfo \in Allocators /\ cur \in Instructions
      /\ NewFrontier /\ N \in Nat
  BY NewBasics, InstructionBasics, TrackNumAssumption DEF NewIInv, TypeOK, NewAllocatorInv
<1>1. CASE NewPhase1Step
  <2>1. PICK t \in Tracks : (Book(t) \/ TryTrack(t)) /\ pc = "alloc" /\ zinfo.phases = 1
                            /\ NewAllocUnchanged
    BY <1>1, Phase1Track
  <2>2. UNCHANGED <<fi, after, buffer_flushed>>
    BY <2>1 DEF NewAllocUnchanged, buffer
  <2>3. CASE pc' = "store" /\ cur' = [cur EXCEPT !.pba = t, !.pass = cur.pass]
    <3>1. cur'.n = cur.n /\ cur'.i = cur.i
      BY <1>0, <2>3 DEF Instructions
    <3>2. QED
      BY <2>1, <2>2, <2>3, <3>1, SameTurn DEF Closer, StagesLeft
  <2>4. CASE pc' = "alloc" /\ cur' = cur
    <3>1. SameBlocks /\ StagesLeft' = StagesLeft
      BY <2>1, <2>2, <2>4, SameTurn DEF StagesLeft
    <3>2. \A u : ~Book(u)
      BY <2>4 DEF Book, Found
    <3>3. next_bottom \in Nat /\ next_bottom < N
      BY <1>0, <2>1 DEF NewFrontier, Bottoms, Tracks
    <3>4. CASE NewPhase1
      <4>1. zinfo' = zinfo /\ next_bottom' = next_bottom + 2
        BY <3>4 DEF NewPhase1
      <4>2. PhasesLeft' = PhasesLeft
        BY <2>1, <2>4, <4>1 DEF PhasesLeft
      <4>3. TracksLeft(next_bottom)' < TracksLeft(next_bottom)
        BY <1>0, <2>1, <2>4, <3>3, <4>1 DEF TracksLeft
      <4>4. QED
        BY <3>1, <4>2, <4>3 DEF Closer
    <3>5. CASE NewPhase1Last
      <4>1. zinfo' = [zinfo EXCEPT !.phase1_is_full = TRUE] /\ next_bottom' = next_bottom
            /\ ~zinfo.phase1_is_full
        BY <3>5 DEF NewPhase1Last
      <4>2. zinfo'.phases = 1 /\ zinfo'.phase1_is_full
        BY <1>0, <2>1, <4>1 DEF Allocators
      <4>3. PhasesLeft' = PhasesLeft
        BY <2>1, <2>4, <4>2 DEF PhasesLeft
      <4>4. TracksLeft(next_bottom)' < TracksLeft(next_bottom)
        BY <1>0, <2>1, <2>4, <3>3, <4>1, <4>2 DEF TracksLeft
      <4>5. QED
        BY <3>1, <4>3, <4>4 DEF Closer
    <3>6. CASE NewPhase1Full
      <4>1. zinfo' = [zinfo EXCEPT !.phases = 2, !.current_track = phase2_start]
        BY <3>2, <3>6 DEF NewPhase1Full
      <4>2. zinfo'.phases = 2
        BY <1>0, <4>1 DEF Allocators
      <4>3. PhasesLeft' < PhasesLeft
        BY <2>1, <2>4, <4>2 DEF PhasesLeft
      <4>4. QED
        BY <3>1, <4>3 DEF Closer
    <3>7. QED
      BY <1>1, <3>4, <3>5, <3>6 DEF NewPhase1Step
  <2>5. QED
    BY <2>1, <2>3, <2>4 DEF TryTrack, Book, Found
<1>2. CASE LaterStep /\ Alloc /\ zinfo.phases > 1 /\ AllocatorInv /\ UNCHANGED newVars
  <2>1. UNCHANGED <<fi, after, buffer_flushed>>
    BY <1>2 DEF newVars, codeVars
  <2>2. zinfo'.phases > 1 /\ pc' \in {"alloc", "store"} /\ pc = "alloc"
    <3>1. pc = "alloc"
      BY <1>2 DEF LaterStep, AllocPhase2, AllocPhase3, AllocPhase3Over, AllocPhase4,
        AllocDiskFull, Allocating
    <3>2. QED
      BY <1>2, <3>1, LaterPhases DEF Running
  <2>3. CASE pc' = "store"
    <3>1. \E t : cur' = [cur EXCEPT !.pba = t, !.pass = cur.pass]
      BY <1>2, <2>2, <2>3 DEF LaterStep, AllocPhase2, AllocPhase3, AllocPhase3Over, AllocPhase4,
        AllocDiskFull, TryShared, TryTrack, Book, Found
    <3>2. cur'.n = cur.n /\ cur'.i = cur.i
      BY <1>0, <3>1 DEF Instructions
    <3>3. QED
      BY <2>1, <2>2, <2>3, <3>2, SameTurn DEF Closer, StagesLeft
  <2>4. CASE pc' = "alloc"
    <3>1. /\ cur' = cur
          /\ \/ PhasesLeft' < PhasesLeft
             \/ /\ PhasesLeft' = PhasesLeft
                /\ TracksLeft(zinfo.current_track)' < TracksLeft(zinfo.current_track)
      BY <1>0, <1>2, <2>4, RoundShorter
    <3>2. zinfo.phases # 1 /\ zinfo'.phases # 1
      BY <1>2, <2>2
    <3>3. /\ TracksLeft(zinfo.current_track) = TracksLeft(next_bottom)
          /\ TracksLeft(zinfo.current_track)' = TracksLeft(next_bottom)'
      BY <3>2 DEF TracksLeft
    <3>4. SameBlocks /\ StagesLeft' = StagesLeft
      BY <2>1, <2>2, <2>4, <3>1, SameTurn DEF StagesLeft
    <3>5. QED
      BY <3>1, <3>3, <3>4 DEF Closer
  <2>5. QED
    BY <2>2, <2>3, <2>4
<1>3. QED
  BY <1>1, <1>2, AllocateCases

LEMMA NewStepShorter ==
  ASSUME NewIInv, NewIInv', NewNext, pc \in Running, pc' \in Running
  PROVE  NewStepCloser
<1>1. NewWorkIsNat /\ NewWorkIsNat'
  BY NewWorkNat, PTL
<1>2. ~((\E l \in 0 .. L, n \in 1 .. MaxBlocks, h \in Hashes : NewStartWrite(l, n, h))
         \/ \E l \in LBAs : NewTrim(l))
  BY DEF NewStartWrite, StartWrite, NewTrim, Trim, TrimBadStatus, TrimNotListed, TrimListed,
    Trimming, Running
<1>3. Closer
  BY <1>2, WriteCloser, FlushCloser, AllocateCloser, OverrunFacts DEF NewNext, NewProgress
<1>4. QED
  BY <1>1, <1>3, CloserIsLess

(* Every write of the new_alloc build ends, on every disk and with every size *)
(* of the buffer: each step leaves less to do, the flushes it sets off, their *)
(* allocations and the arrays they make grow included (lba.c:774-1003).       *)
THEOREM EveryFlushShortens == NewSpec => EachStepCloser
<1>1. NewIInv /\ NewIInv' /\ [NewNext]_allVars =>
        [({pc, pc'} \subseteq Running) => NewStepCloser]_allVars
  BY NewStepShorter
<1>2. QED
  BY <1>1, NewInvariant, PTL DEF NewSpec, EachStepCloser
=============================================================================
