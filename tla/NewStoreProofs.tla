---------------------------- MODULE NewStoreProofs ----------------------------
(***************************************************************************)
(* What holds of NewAlloc for plain traces, on every disk and for every    *)
(* size of the phase-1 buffer: lists of owners are exact, the program      *)
(* stops only because the disk is full, and the disk with its buffer       *)
(* implements the logical store.  NewIInv of NewAllocProofs is taken for   *)
(* granted.  StoreInv of DedupStoreProofs holds again, except that a flush *)
(* of blocks that are on tracks already finds, and leaves, every track     *)
(* settled; its lemmas on lookups, swaps, allocations and lists carry over *)
(* to the steps the two builds share.  What is new relates the buffer to   *)
(* the tracks (BlocksInv).                                                 *)
(***************************************************************************)
EXTENDS NewAllocProofs, DedupStoreProofs

(* The last flush goes over blocks that are on tracks already.             *)
Reflushing == fi > 0 /\ buffer_flushed

(* The blocks that are in the buffer only, and those that a flush has put  *)
(* on a track and a flush may yet put there again.                         *)
Unstored == IF buffer_flushed THEN {} ELSE Waiting
OnTracks == IF fi > 0 THEN (IF buffer_flushed THEN BufIndex ELSE 1 .. fi - 1)
            ELSE IF zinfo.phases > 1 /\ ~buffer_flushed THEN BufIndex ELSE {}

Owners(j) == SeqToSet(buf[j].lba)

(* A block in the buffer only has content no track holds, and owners that  *)
(* were never written otherwise, but for the one whose track is booked.    *)
InBufferOnly(j) ==
  /\ \A p \in Tracks : hash[p] # buf[j].hash
  /\ \A a, b \in 1 .. Len(buf[j].lba) : buf[j].lba[a] = buf[j].lba[b] => a = b
  /\ \A l \in Owners(j) : (~ltp[l].valid /\ ~ltp[l].trim) \/ (pc = "store" /\ l = Target)

(* A block on track p is there as a flush would write it.                  *)
StoredAt(j, p) ==
  /\ status[p] = "in_use" /\ hash[p] = buf[j].hash /\ refs[p] = Len(buf[j].lba) - 1
  /\ \A a \in 1 .. Len(buf[j].lba) :
       lba_list[p][a] = buf[j].lba[a] /\ ltp[buf[j].lba[a]] = Mapped(p, buf[j].hash)

(* The buffer and the tracks.                                              *)
BlocksInv ==
  /\ \A j \in Unstored : InBufferOnly(j)
  /\ \A j, k \in Unstored : j # k => buf[j].hash # buf[k].hash /\ Owners(j) \cap Owners(k) = {}
  /\ \A j \in OnTracks : \E p \in Tracks : StoredAt(j, p)
  /\ fi = 0 /\ zinfo.phases > 1 => used = 0

(* At most the track of the write in progress is booked.                   *)
BookedInv ==
  /\ pc \in {"search", "alloc"} => ~cur.pass
  /\ pc # "store" => Booked = {}
  /\ pc = "store" => Booked \subseteq {cur.pba}
  /\ pc = "store" /\ cur.pba \in Booked => refs[cur.pba] = 0 /\ ~cur.pass

(* What the write in progress is about, and the one that waits for a       *)
(* flush to end.                                                           *)
InstructionInv ==
  /\ pc # "flush" /\ instruction.n = 1 /\ instruction.i = 0
  /\ fi > 0 => /\ cur.lba = buf[fi].lba[1] /\ cur.hash = buf[fi].hash /\ ~cur.pass
               /\ buffer_flushed => pc \in {"search", "store"}
               /\ ~buffer_flushed /\ pc = "store" => cur.pba \in Booked
  /\ fi = 0 /\ pc \in {"alloc", "store"} => buffer_flushed
  /\ fi = 0 /\ pc = "search" =>
       /\ PlainTarget(Target, cur.hash)
       /\ zinfo.phases = 1 =>
            /\ ~ltp[Target].valid /\ ~ltp[Target].trim /\ Buffered(Target) = {}
            /\ \A t \in Tracks : hash[t] = cur.hash => status[t] # "trimed"
  /\ after # NoInstruction => ~after.pass /\ PlainTarget(after.lba, after.hash)

SettledInv ==
  IF Reflushing THEN (\A p \in Tracks : Settled(p)) /\ EntriesInv /\ WriteInv ELSE StoreInv

PlainInv == BlocksInv /\ BookedInv /\ InstructionInv /\ SettledInv

(* The program wrote past an array of owners and was ended for it.         *)
Overran == pc = "undefined" /\ FALSE \in SpareCell

-----------------------------------------------------------------------------
(* What the invariants say of a state.                                     *)

LEMMA PlainBasics ==
  ASSUME NewIInv, PlainInv
  PROVE  /\ NewTypeOK /\ TypeOK /\ EntriesInv /\ WriteInv /\ gbtable = {} /\ pc # "flush"
         /\ cur \in Instructions /\ cur.i = 0 /\ cur.n = 1 /\ Target = cur.lba
         /\ cur.pass \in BOOLEAN /\ cur.pba \in Tracks
         /\ fi \in 0 .. BufNum /\ used \in 0 .. BufNum /\ BufNum \in Nat /\ BufNum > 0
         /\ buf \in [BufIndex -> BufferBlocks] /\ after \in Instructions
         /\ plain \in BOOLEAN /\ buffer_flushed \in BOOLEAN
<1>1. NewTypeOK /\ TurnInv /\ gbtable = {}
  BY DEF NewIInv, NewUseInv
<1>2. TypeOK /\ fi \in 0 .. BufNum /\ used \in 0 .. BufNum /\ buf \in [BufIndex -> BufferBlocks]
      /\ after \in Instructions /\ plain \in BOOLEAN /\ buffer_flushed \in BOOLEAN
  BY <1>1, NewBasics
<1>3. EntriesInv /\ WriteInv /\ pc # "flush"
  BY DEF PlainInv, SettledInv, StoreInv, InstructionInv
<1>4. cur \in Instructions /\ cur.pass \in BOOLEAN /\ cur.pba \in Tracks /\ cur.lba \in Nat
  BY <1>2, InstructionBasics
<1>5. cur.i = 0 /\ cur.n = 1
  BY <1>1, <1>2, BufferBounds DEF PlainInv, InstructionInv, instruction, TurnInv
<1>6. Target = cur.lba
  BY <1>4, <1>5 DEF Target
<1>7. QED
  BY <1>1, <1>2, <1>3, <1>4, <1>5, <1>6, BufferBounds

LEMMA AllSettled ==
  ASSUME PlainInv, pc \notin {"store", "flush"}
  PROVE  \A p \in Tracks : Settled(p)
  BY DEF PlainInv, SettledInv, StoreInv, TracksInv, UnderWay

(* A step that leaves the tracks and the entries alone.                    *)
LEMMA DiskSame ==
  ASSUME UNCHANGED <<blocks, ltp>>
  PROVE  /\ \A p \in Tracks : Settled(p) => Settled(p)'
         /\ EntriesInv /\ pc # "store" => EntriesInv'
         /\ Booked' = Booked
<1>1. UNCHANGED <<status, hash, refs, lba_list, ltp>>
  BY DEF blocks
<1>2. \A p \in Tracks : Settled(p) => Settled(p)'
  BY <1>1 DEF Settled, Vacated, Lists, Owner
<1>3. EntriesInv /\ pc # "store" => EntriesInv'
  BY <1>1 DEF EntriesInv
<1>4. QED
  BY <1>1, <1>2, <1>3 DEF Booked

(* Between writes, and where a lookup begins, settled tracks are enough.   *)
LEMMA CalmStore ==
  ASSUME pc' \in {"idle", "search"}, \A p \in Tracks : Settled(p)', EntriesInv',
         pc' = "search" => Target' \in LBAs /\ cur'.hash \in Hashes
  PROVE  StoreInv' /\ WriteInv'
<1>1. TracksInv'
  BY DEF TracksInv
<1>2. WriteInv'
  BY DEF WriteInv, Running, Stopped
<1>3. QED
  BY <1>1, <1>2 DEF StoreInv

LEMMA BlockSame ==
  ASSUME UNCHANGED <<blocks, ltp>>, NEW j, buf'[j] = buf[j],
         pc # "store" \/ (pc' = "store" /\ Target' = Target)
  PROVE  /\ Owners(j)' = Owners(j) /\ (InBufferOnly(j) => InBufferOnly(j)')
         /\ \A p : StoredAt(j, p) => StoredAt(j, p)'
<1>1. UNCHANGED <<status, hash, refs, lba_list, ltp>>
  BY DEF blocks
<1>2. Owners(j)' = Owners(j)
  BY DEF Owners
<1>3. InBufferOnly(j) => InBufferOnly(j)'
  BY <1>1, <1>2 DEF InBufferOnly
<1>4. QED
  BY <1>1, <1>2, <1>3 DEF StoredAt

LEMMA BlocksSame ==
  ASSUME BlocksInv, UNCHANGED <<blocks, ltp, buf, used, fi, buffer_flushed>>,
         zinfo' = zinfo \/ fi > 0, pc # "store" \/ (pc' = "store" /\ Target' = Target)
  PROVE  BlocksInv'
<1>1. Unstored' = Unstored /\ OnTracks' = OnTracks
  BY DEF Unstored, OnTracks, Waiting
<1>2. \A j : /\ Owners(j)' = Owners(j) /\ (InBufferOnly(j) => InBufferOnly(j)')
             /\ \A p : StoredAt(j, p) => StoredAt(j, p)'
  BY BlockSame
<1>3. \A j \in OnTracks : \E p \in Tracks : StoredAt(j, p)'
  BY <1>2 DEF BlocksInv
<1>4. QED
  BY <1>1, <1>2, <1>3 DEF BlocksInv

(* Once the last flush is over the buffer is of no interest.               *)
LEMMA BufferGone ==
  ASSUME buffer_flushed', fi' = 0, zinfo'.phases > 1 => used' = 0
  PROVE  BlocksInv'
  BY DEF BlocksInv, Unstored, OnTracks

-----------------------------------------------------------------------------
(* The instructions of the trace.                                          *)

LEMMA NewStartFacts ==
  ASSUME NewIInv, PlainInv, plain,
         NEW l \in 0 .. L, NEW n \in 1 .. MaxBlocks, NEW h \in Hashes, NewStartWrite(l, n, h)
  PROVE  /\ pc = "idle" /\ fi = 0 /\ after = NoInstruction /\ l \in LBAs /\ PlainTarget(l, h)
         /\ pc' = "search" /\ cur' = [NoInstruction EXCEPT !.lba = l, !.n = 1, !.hash = h]
         /\ Target' = l /\ cur'.lba = l /\ cur'.hash = h /\ cur'.n = 1 /\ cur'.i = 0 /\ ~cur'.pass
         /\ UNCHANGED <<blocks, ltp, zinfo, newVars>>
         /\ zinfo.phases = 1 =>
              /\ ~ltp[l].valid /\ ~ltp[l].trim /\ Buffered(l) = {}
              /\ \A t \in Tracks : hash[t] = h => status[t] # "trimed"
<1>1. /\ StartWrite(l, n, h) /\ PlainWrite(l, n, h) /\ UNCHANGED <<codeVars, plain, budget>>
  BY DEF NewStartWrite, CountInstruction
<1>2. pc = "idle" /\ n = 1 /\ UNCHANGED <<blocks, ltp, zinfo>>
  BY <1>1 DEF StartWrite, PlainWrite
<1>3. fi = 0 /\ after = NoInstruction
  BY <1>2 DEF NewIInv, TurnInv
<1>4. KindOf(l, h) \in PlainKinds
  BY <1>1 DEF PlainWrite, PlainKinds
<1>5. PlainTarget(l, h) /\ l \in LBAs
  BY <1>4, PlainKind DEF PlainTarget
<1>6. pc' = "search" /\ cur' = [NoInstruction EXCEPT !.lba = l, !.n = 1, !.hash = h]
  BY <1>1, <1>2, <1>5, LogicalNumAssumption DEF StartWrite, LBAs
<1>7. /\ Target' = l /\ cur'.lba = l /\ cur'.hash = h /\ cur'.n = 1 /\ cur'.i = 0 /\ ~cur'.pass
  BY <1>5, <1>6, LogicalNumAssumption DEF NoInstruction, Target, LBAs
<1>8. ASSUME zinfo.phases = 1
      PROVE  /\ ~ltp[l].valid /\ ~ltp[l].trim /\ Buffered(l) = {}
             /\ \A t \in Tracks : hash[t] = h => status[t] # "trimed"
  <2>1. KindOf(l, h) \in {"append", "fresh"}
    BY <1>1, <1>8 DEF PlainWrite
  <2>2. ~ltp[l].trim
    BY <1>5, <2>1 DEF KindOf
  <2>3. ~ltp[l].valid
    BY <1>5, <2>1, <2>2 DEF KindOf
  <2>4. QED
    BY <1>1, <1>8, <2>2, <2>3 DEF PlainWrite
<1>9. QED
  BY <1>1, <1>2, <1>3, <1>5, <1>6, <1>7, <1>8 DEF newVars

LEMMA NewStartPlain ==
  ASSUME NewIInv, PlainInv, plain,
         NEW l \in 0 .. L, NEW n \in 1 .. MaxBlocks, NEW h \in Hashes, NewStartWrite(l, n, h)
  PROVE  PlainInv'
<1>1. /\ pc = "idle" /\ fi = 0 /\ after = NoInstruction /\ l \in LBAs /\ PlainTarget(l, h)
      /\ pc' = "search"
      /\ Target' = l /\ cur'.lba = l /\ cur'.hash = h /\ cur'.n = 1 /\ cur'.i = 0 /\ ~cur'.pass
      /\ UNCHANGED <<status, hash, refs, lba_list, ltp, zinfo, buf, used, fi, after, buffer_flushed>>
      /\ zinfo.phases = 1 =>
           /\ ~ltp[l].valid /\ ~ltp[l].trim /\ Buffered(l) = {}
           /\ \A t \in Tracks : hash[t] = h => status[t] # "trimed"
  BY NewStartFacts DEF blocks, newVars, codeVars
<1>2. /\ EntriesInv' /\ Booked' = Booked /\ \A p \in Tracks : Settled(p)'
  BY <1>1, PlainBasics, AllSettled, DiskSame DEF blocks
<1>3. BlocksInv'
  BY <1>1, BlocksSame DEF PlainInv, blocks
<1>4. BookedInv'
  BY <1>1, <1>2 DEF PlainInv, BookedInv
<1>5. InstructionInv'
  <2>1. PlainTarget(l, h)'
    BY <1>1 DEF PlainTarget
  <2>2. Buffered(l)' = Buffered(l)
    BY <1>1 DEF Buffered, Waiting
  <2>3. QED
    BY <1>1, <2>1, <2>2 DEF InstructionInv, instruction
<1>6. SettledInv'
  BY <1>1, <1>2, CalmStore DEF SettledInv, Reflushing
<1>7. QED
  BY <1>3, <1>4, <1>5, <1>6 DEF PlainInv

(* A change to the entry of a block that is not in the buffer.             *)
LEMMA BlocksAway ==
  ASSUME BlocksInv, buf \in [BufIndex -> BufferBlocks], used < BufNum, used \in Nat, BufNum \in Nat,
         fi = 0, zinfo.phases = 1, ~buffer_flushed,
         UNCHANGED <<hash, buf, used, fi, zinfo, buffer_flushed>>, pc # "store",
         NEW l \in LBAs, Buffered(l) = {}, \A m \in LBAs \ {l} : ltp'[m] = ltp[m]
  PROVE  BlocksInv'
<1>1. Unstored = 1 .. used /\ Unstored' = 1 .. used /\ OnTracks' = {}
  BY DEF Unstored, OnTracks, Waiting
<1>2. ASSUME NEW j \in 1 .. used
      PROVE  InBufferOnly(j)' /\ Owners(j)' = Owners(j)
  <2>1. Owners(j)' = Owners(j)
    BY DEF Owners
  <2>2. l \notin Owners(j)
    BY DEF Buffered, Waiting, Owners
  <2>3. Owners(j) \subseteq LBAs
    <3>1. buf[j].lba \in Seq(LBAs)
      BY DEF BufferBlocks, BufIndex
    <3>2. QED
      BY <3>1, ElementOfSeq DEF Owners, SeqToSet
  <2>4. InBufferOnly(j)
    BY <1>1 DEF BlocksInv
  <2>5. QED
    BY <2>1, <2>2, <2>3, <2>4 DEF InBufferOnly
<1>3. QED
  BY <1>1, <1>2 DEF BlocksInv

LEMMA NewTrimPlain ==
  ASSUME NewIInv, PlainInv, Garbage = {NoLba}, plain, NEW l \in LBAs, NewTrim(l)
  PROVE  PlainInv'
<1>1. /\ Trim(l) /\ PlainTrim(l) /\ UNCHANGED <<buf, used, fi, after, buffer_flushed>>
  BY DEF NewTrim, codeVars
<1>2. /\ pc = "idle" /\ pc' \in {"idle", "bad_status", "not_listed"}
      /\ UNCHANGED <<hash, zinfo, cur>> /\ ltp' = [ltp EXCEPT ![l].trim = TRUE, ![l].valid = FALSE]
  BY <1>1 DEF Trim, TrimBadStatus, TrimNotListed, TrimListed, Trimming
<1>3. fi = 0 /\ after = NoInstruction /\ (zinfo.phases = 1 => ~buffer_flushed)
      /\ used < BufNum
  BY <1>2 DEF NewIInv, TurnInv, BufferInv
<1>4. TypeOK /\ StoreInv /\ Booked = {}
  BY <1>2, <1>3, PlainBasics DEF PlainInv, SettledInv, Reflushing, BookedInv
<1>5. StoreInv'
  BY <1>1, <1>4, TrimStore
<1>6. pc' = "idle"
  BY <1>2, <1>5 DEF StoreInv, WriteInv, Stopped
<1>7. Booked' = {}
  <2>1. ltp[l].pba \in Tracks
    BY <1>4, EntryType
  <2>2. CASE TrimBadStatus(l) \/ TrimNotListed(l)
    BY <1>4, <2>2 DEF TrimBadStatus, TrimNotListed, Booked
  <2>3. CASE TrimListed(l)
    BY <1>4, <2>1, <2>3 DEF TrimListed, Vacate, Booked, TypeOK
  <2>4. QED
    BY <1>1, <2>2, <2>3 DEF Trim
<1>8. BlocksInv'
  <2>1. CASE buffer_flushed
    BY <1>1, <1>2, <1>3, <2>1, BufferGone DEF PlainInv, BlocksInv
  <2>2. CASE ~buffer_flushed
    <3>1. Buffered(l) = {} /\ zinfo.phases = 1
      BY <1>1, <2>2 DEF PlainTrim
    <3>2. \A m \in LBAs \ {l} : ltp'[m] = ltp[m]
      BY <1>2, <1>4 DEF TypeOK
    <3>3. /\ buf \in [BufIndex -> BufferBlocks] /\ used < BufNum /\ used \in Nat /\ BufNum \in Nat
          /\ BlocksInv /\ pc # "store" /\ fi = 0
      BY <1>2, <1>3, PlainBasics DEF PlainInv
    <3>4. UNCHANGED <<hash, buf, used, fi, zinfo, buffer_flushed>>
      BY <1>1, <1>2
    <3>5. QED
      BY <2>2, <3>1, <3>2, <3>3, <3>4, BlocksAway
  <2>3. QED
    BY <2>1, <2>2
<1>9. BookedInv' /\ InstructionInv'
  BY <1>1, <1>2, <1>3, <1>6, <1>7 DEF PlainInv, BookedInv, InstructionInv, instruction
<1>10. QED
  BY <1>1, <1>3, <1>5, <1>8, <1>9 DEF PlainInv, SettledInv, Reflushing

-----------------------------------------------------------------------------
(* A write in phase 1.                                                     *)

LEMMA Phase1Facts ==
  ASSUME NewIInv, PlainInv, Phase1Write
  PROVE  /\ pc = "search" /\ fi = 0 /\ zinfo.phases = 1 /\ ~buffer_flushed /\ after = NoInstruction
         /\ used < BufNum /\ TypeOK /\ StoreInv /\ EntriesInv /\ Booked = {}
         /\ Target \in LBAs /\ cur.hash \in Hashes
         /\ ~ltp[Target].valid /\ ~ltp[Target].trim /\ Buffered(Target) = {}
         /\ \A t \in Tracks : hash[t] = cur.hash => status[t] = "in_use"
         /\ \A p \in Tracks : Settled(p)
         /\ Unstored = 1 .. used /\ BlocksInv
<1>1. pc = "search" /\ fi = 0 /\ zinfo.phases = 1 /\ Target \in LBAs
  BY DEF Phase1Write
<1>2. ~buffer_flushed /\ after = NoInstruction /\ used < BufNum /\ cur.hash \in Hashes
  BY <1>1 DEF NewIInv, TurnInv, BufferInv, NewUseInv, UseInv, InProgress, Running
<1>3. TypeOK /\ EntriesInv /\ \A p \in Tracks : Settled(p)
  BY <1>1, PlainBasics, AllSettled
<1>4. StoreInv /\ Booked = {} /\ BlocksInv
  BY <1>1 DEF PlainInv, SettledInv, Reflushing, BookedInv
<1>5. /\ ~ltp[Target].valid /\ ~ltp[Target].trim /\ Buffered(Target) = {}
      /\ \A t \in Tracks : hash[t] = cur.hash => status[t] # "trimed"
  BY <1>1 DEF PlainInv, InstructionInv
<1>6. ASSUME NEW t \in Tracks, hash[t] = cur.hash PROVE status[t] = "in_use"
  <2>1. status[t] # "free"
    BY <1>2, <1>6, HashAssumption DEF NewIInv, NewUseInv, UseInv, HashAllocated
  <2>2. QED
    BY <1>3, <1>4, <1>5, <1>6, <2>1 DEF TypeOK, Statuses, Booked
<1>7. QED
  BY <1>1, <1>2, <1>3, <1>4, <1>5, <1>6 DEF Unstored, Waiting

LEMMA IncreaseCell ==
  ASSUME NEW s \in Seq(Cells), Len(s) > 1, NEW i \in 1 .. 2 * Capacity(s)
  PROVE  Increase(s)[i] = IF i <= Len(s) THEN s[i] ELSE NoLba
<1>1. Len(s) \in Nat /\ Capacity(s) \in Nat /\ Capacity(s) > 1 /\ Len(s) <= Capacity(s) + 1
  BY LenProperties, CapacityIs
<1>2. PICK n \in Nat : n = 2 * Capacity(s) - Len(s)
  BY <1>1
<1>3. [j \in 1 .. n |-> NoLba] \in Seq(Cells) /\ Len([j \in 1 .. n |-> NoLba]) = n
  BY <1>2, CellsHold
<1>4. PICK w \in Seq(Cells) : w = [j \in 1 .. n |-> NoLba] /\ Len(w) = n
  BY <1>3
<1>5. Increase(s) = s \o w
  BY <1>2, <1>4 DEF Increase
<1>6. i \in 1 .. Len(s) + Len(w)
  BY <1>1, <1>2, <1>4
<1>7. (s \o w)[i] = IF i <= Len(s) THEN s[i] ELSE w[i - Len(s)]
  BY <1>6, ConcatProperties
<1>8. ~(i <= Len(s)) => w[i - Len(s)] = NoLba
  BY <1>1, <1>4, <1>6
<1>9. QED
  BY <1>5, <1>7, <1>8

LEMMA IncreaseCells ==
  ASSUME NEW s \in Seq(Cells), Len(s) > 1, NEW g, g = s \/ g = Increase(s)
  PROVE  /\ g \in Seq(Cells) /\ Len(g) \in Nat /\ Len(s) \in Nat /\ Len(s) <= Len(g)
         /\ \A i \in 1 .. Len(g) : g[i] = IF i <= Len(s) THEN s[i] ELSE NoLba
         /\ g = Increase(s) => Len(g) = 2 * Capacity(s)
<1>1. Len(s) \in Nat
  BY LenProperties
<1>2. PICK new : new = Increase(s)
  OBVIOUS
<1>3. new \in Seq(Cells) /\ Len(new) = 2 * Capacity(s) /\ Len(new) \in Nat /\ Len(new) > Len(s)
  BY <1>2, IncreaseRefs
<1>4. \A i \in 1 .. 2 * Capacity(s) : new[i] = IF i <= Len(s) THEN s[i] ELSE NoLba
  BY <1>2, IncreaseCell
<1>5. CASE g = s
  <2>1. \A i \in 1 .. Len(s) : i <= Len(s)
    BY <1>1
  <2>2. s # new
    BY <1>1, <1>3
  <2>3. QED
    BY <1>1, <1>2, <1>5, <2>1, <2>2
<1>6. CASE g = Increase(s)
  BY <1>1, <1>2, <1>3, <1>4, <1>6
<1>7. QED
  BY <1>5, <1>6

LEMMA ShareFacts ==
  ASSUME NewIInv, PlainInv, Garbage = {NoLba}, ShareOnDisk
  PROVE  \E p \in Tracks, g \in Seq(Cells), k \in Nat :
           /\ status[p] = "in_use" /\ hash[p] = cur.hash /\ k = refs[p] + 1 /\ Lists(p, k, {Target})
           /\ refs' = [refs EXCEPT ![p] = k]
           /\ ltp' = [ltp EXCEPT ![Target] = Mapped(p, cur.hash)]
           /\ k + 1 <= Len(g) /\ Len(lba_list[p]) <= Len(g) /\ Len(g) \in Nat
           /\ Len(lba_list[p]) \in Nat /\ k <= Len(lba_list[p])
           /\ \A i \in 1 .. Len(g) : g[i] = IF i <= Len(lba_list[p]) THEN lba_list[p][i] ELSE NoLba
           /\ lba_list' = [lba_list EXCEPT ![p] = [g EXCEPT ![k + 1] = Target]]
<1>0. Phase1Write
  BY DEF ShareOnDisk
<1>1. /\ TypeOK /\ EntriesInv /\ Target \in LBAs /\ cur.hash \in Hashes
      /\ ~ltp[Target].valid /\ ~ltp[Target].trim
      /\ \A t \in Tracks : hash[t] = cur.hash => status[t] = "in_use"
      /\ \A p \in Tracks : Settled(p)
  BY <1>0, Phase1Facts
<1>2. PICK p \in FirstOf(Stored(cur.hash)) :
       LET count == IF status[p] = "trimed" THEN refs[p] ELSE refs[p] + 1
           s == lba_list[p]
           grown == IF count + 1 > Capacity(s) THEN Increase(s) ELSE s IN
       /\ refs' = [refs EXCEPT ![p] = count]
       /\ ltp' = [ltp EXCEPT ![Target] = Mapped(p, cur.hash)]
       /\ \E i \in Positions(grown, refs'[0] + 1, Target) :
            lba_list' = [lba_list EXCEPT ![p] =
                           IF i = 0 THEN [grown EXCEPT ![count + 1] = Target]
                           ELSE IF i <= Len(grown) THEN [grown EXCEPT ![i] = Target] ELSE grown]
  BY DEF ShareOnDisk
<1>3. p \in Tracks /\ hash[p] = cur.hash /\ status[p] = "in_use"
  BY <1>1 DEF FirstOf, Stored
<1>4. PICK k \in Nat : k = refs[p] + 1
  BY <1>1, <1>3, ListCells
<1>5. PICK s \in Seq(Cells) : s = lba_list[p] /\ Len(s) > 1
  BY <1>1, <1>3, ListCells DEF NewIInv, RoomInv
<1>6. PICK g : g = IF k + 1 > Capacity(s) THEN Increase(s) ELSE s
  OBVIOUS
<1>6b. g = s \/ g = Increase(s)
  BY <1>6
<1>7. /\ refs' = [refs EXCEPT ![p] = k] /\ ltp' = [ltp EXCEPT ![Target] = Mapped(p, cur.hash)]
      /\ \E n : \E i \in Positions(g, n, Target) :
           lba_list' = [lba_list EXCEPT ![p] =
                          IF i = 0 THEN [g EXCEPT ![k + 1] = Target]
                          ELSE IF i <= Len(g) THEN [g EXCEPT ![i] = Target] ELSE g]
  BY <1>2, <1>3, <1>4, <1>5, <1>6
<1>8. /\ g \in Seq(Cells) /\ Len(g) \in Nat /\ Len(s) \in Nat /\ Len(s) <= Len(g)
      /\ \A i \in 1 .. Len(g) : g[i] = IF i <= Len(s) THEN s[i] ELSE NoLba
      /\ g = Increase(s) => Len(g) = 2 * Capacity(s)
      /\ Capacity(s) \in Nat /\ Capacity(s) > 1 /\ Capacity(s) <= Len(s)
      /\ Len(s) <= Capacity(s) + 1
  BY <1>5, <1>6b, IncreaseCells, CapacityIs
<1>9. Lists(p, k, {}) /\ k <= Len(s)
  BY <1>1, <1>3, <1>4, <1>5 DEF Settled, Lists
<1>10. Lists(p, k, {Target})
  BY <1>1, <1>9 DEF Lists, Owner
<1>11. k + 1 <= Len(g)
  <2>1. CASE g = Increase(s)
    BY <1>5, <1>8, <1>9, <2>1
  <2>2. CASE g # Increase(s)
    <3>1. ~(k + 1 > Capacity(s)) /\ g = s
      BY <1>6, <2>2
    <3>2. QED
      BY <1>8, <3>1
  <2>3. QED
    BY <2>1, <2>2
<1>12. \A i \in 1 .. Len(g) : g[i] # Target
  <2>1. \A i \in 1 .. Len(s) : s[i] # Target
    BY <1>1, <1>3, <1>5, CellKnown
  <2>2. QED
    BY <1>1, <1>8, <2>1, CellAssumption
<1>13. \A n : Positions(g, n, Target) = {0}
  BY <1>1, <1>8, <1>12, FoundNowhere
<1>14. lba_list' = [lba_list EXCEPT ![p] = [g EXCEPT ![k + 1] = Target]]
  <2>1. PICK n : \E i \in Positions(g, n, Target) :
          lba_list' = [lba_list EXCEPT ![p] =
                         IF i = 0 THEN [g EXCEPT ![k + 1] = Target]
                         ELSE IF i <= Len(g) THEN [g EXCEPT ![i] = Target] ELSE g]
    BY <1>7
  <2>2. PICK i \in Positions(g, n, Target) :
          lba_list' = [lba_list EXCEPT ![p] =
                         IF i = 0 THEN [g EXCEPT ![k + 1] = Target]
                         ELSE IF i <= Len(g) THEN [g EXCEPT ![i] = Target] ELSE g]
    BY <2>1
  <2>3. i = 0
    BY <1>13
  <2>4. QED
    BY <2>2, <2>3
<1>15. QED
  BY <1>3, <1>4, <1>5, <1>7, <1>8, <1>9, <1>10, <1>11, <1>14

LEMMA SharePlain ==
  ASSUME NewIInv, PlainInv, Garbage = {NoLba}, ShareOnDisk
  PROVE  PlainInv'
<1>1. /\ pc = "search" /\ fi = 0 /\ zinfo.phases = 1 /\ ~buffer_flushed /\ after = NoInstruction
      /\ used < BufNum /\ TypeOK /\ EntriesInv /\ Booked = {}
      /\ Target \in LBAs /\ cur.hash \in Hashes /\ ~ltp[Target].valid /\ ~ltp[Target].trim
      /\ Buffered(Target) = {} /\ (\A p \in Tracks : Settled(p)) /\ BlocksInv
  BY Phase1Facts DEF ShareOnDisk
<1>2. /\ pc' = "idle" /\ cur' = NoInstruction
      /\ UNCHANGED <<status, hash, zinfo, buf, used, fi, after, buffer_flushed>>
  BY DEF ShareOnDisk, Finish, newVars, codeVars
<1>3. PICK p \in Tracks, g \in Seq(Cells), k \in Nat :
        /\ status[p] = "in_use" /\ hash[p] = cur.hash /\ k = refs[p] + 1 /\ Lists(p, k, {Target})
        /\ refs' = [refs EXCEPT ![p] = k]
        /\ ltp' = [ltp EXCEPT ![Target] = Mapped(p, cur.hash)]
        /\ k + 1 <= Len(g) /\ Len(lba_list[p]) <= Len(g) /\ Len(g) \in Nat
        /\ Len(lba_list[p]) \in Nat /\ k <= Len(lba_list[p])
        /\ \A i \in 1 .. Len(g) : g[i] = IF i <= Len(lba_list[p]) THEN lba_list[p][i] ELSE NoLba
        /\ lba_list' = [lba_list EXCEPT ![p] = [g EXCEPT ![k + 1] = Target]]
  BY ShareFacts
<1>4. PICK l \in LBAs : l = Target
  BY <1>1
<1>5. /\ \A m \in LBAs : ltp'[m] = IF m = l THEN Mapped(p, cur.hash) ELSE ltp[m]
      /\ \A q \in Tracks \ {p} : refs'[q] = refs[q] /\ lba_list'[q] = lba_list[q]
      /\ refs'[p] = k
  BY <1>1, <1>3, <1>4 DEF TypeOK
<1>6. PICK w : w = lba_list'[p] /\ w = [g EXCEPT ![k + 1] = l]
  BY <1>1, <1>3, <1>4 DEF TypeOK
<1>7. k < Len(g) /\ k + 1 \in 1 .. Len(g) /\ \A i \in 1 .. k : i \in 1 .. Len(g) /\ i # k + 1
  BY <1>3
<1>8. Len(w) = Len(g) /\ \A i \in 1 .. Len(g) : w[i] = IF i = k + 1 THEN l ELSE g[i]
  BY <1>6, <1>7, PutCell
<1>9. Lists(p, k + 1, {})'
  <2>1. k + 1 <= Len(lba_list'[p]) /\ lba_list'[p][k + 1] = l
    BY <1>3, <1>6, <1>7, <1>8
  <2>2. \A i \in 1 .. k : lba_list'[p][i] = lba_list[p][i]
    BY <1>3, <1>6, <1>7, <1>8
  <2>3. Owner(l, p)' /\ \A m \in LBAs \ {l} : Owner(m, p)' <=> Owner(m, p)
    BY <1>5 DEF Owner, Mapped
  <2>4. Lists(p, k, {l})
    BY <1>3, <1>4
  <2>5. QED
    BY <2>1, <2>2, <2>3, <2>4, ListJoined
<1>10. \A q \in Tracks : Settled(q)'
  <2>1. \A q \in Tracks \ {p} : Settled(q)'
    BY <1>1, <1>2, <1>3, <1>5, OthersSettled
  <2>2. Settled(p)'
    BY <1>2, <1>3, <1>5, <1>9 DEF Settled, Lists
  <2>3. QED
    BY <2>1, <2>2
<1>11. EntriesInv'
  <2>1. \A m \in LBAs : ltp'[m].valid =>
          ~ltp'[m].trim /\ ltp'[m].hash \in Hashes /\ hash'[ltp'[m].pba] = ltp'[m].hash
    BY <1>1, <1>2, <1>3, <1>5 DEF EntriesInv, Mapped
  <2>2. ASSUME NEW q \in Tracks, NEW i \in 1 .. Len(lba_list'[q]), lba_list'[q][i] \in LBAs
        PROVE  ltp'[lba_list'[q][i]].valid \/ ltp'[lba_list'[q][i]].trim
    <3>1. PICK m \in LBAs : m = lba_list'[q][i]
      BY <2>2
    <3>2. CASE m = l
      BY <1>5, <3>1, <3>2 DEF Mapped
    <3>3. CASE m # l /\ q # p
      <4>1. i \in 1 .. Len(lba_list[q]) /\ m = lba_list[q][i]
        BY <1>5, <3>1, <3>3
      <4>2. QED
        BY <1>1, <1>5, <3>1, <3>3, <4>1, CellKnown
    <3>4. CASE m # l /\ q = p
      <4>1. i \in 1 .. Len(g) /\ m = g[i]
        BY <1>6, <1>8, <3>1, <3>4
      <4>2. i \in 1 .. Len(lba_list[p]) /\ m = lba_list[p][i]
        BY <1>3, <4>1, CellAssumption
      <4>3. QED
        BY <1>1, <1>5, <3>1, <3>4, <4>2, CellKnown
    <3>5. QED
      BY <3>2, <3>3, <3>4
  <2>3. QED
    BY <2>1, <2>2 DEF EntriesInv
<1>12. StoreInv'
  BY <1>2, <1>10, <1>11, CalmStore
<1>13. BlocksInv'
  <2>1. /\ buf \in [BufIndex -> BufferBlocks] /\ used \in Nat /\ BufNum \in Nat
    BY PlainBasics
  <2>2. UNCHANGED <<hash, buf, used, fi, zinfo, buffer_flushed>>
    BY <1>2
  <2>3. \A m \in LBAs \ {l} : ltp'[m] = ltp[m]
    BY <1>5
  <2>4. Buffered(l) = {} /\ pc # "store"
    BY <1>1, <1>4
  <2>5. QED
    BY <1>1, <2>1, <2>2, <2>3, <2>4, BlocksAway
<1>14. BookedInv' /\ InstructionInv'
  BY <1>1, <1>2 DEF BookedInv, Booked, InstructionInv, instruction, NoInstruction
<1>15. QED
  BY <1>1, <1>2, <1>12, <1>13, <1>14 DEF PlainInv, SettledInv, Reflushing

(* A phase-1 write that ends in the buffer leaves the disk alone.          *)
LEMMA BufferedStill ==
  ASSUME NewIInv, PlainInv, Phase1Write, UNCHANGED <<blocks, ltp>>, BlocksInv',
         buffer_flushed' = buffer_flushed, Finish, fi' = 0, after' = after
  PROVE  PlainInv'
<1>1. /\ pc = "search" /\ fi = 0 /\ after = NoInstruction
      /\ EntriesInv /\ Booked = {} /\ \A p \in Tracks : Settled(p)
  BY Phase1Facts
<1>2. /\ EntriesInv' /\ Booked' = {} /\ \A p \in Tracks : Settled(p)'
  BY <1>1, DiskSame
<1>3. pc' = "idle" /\ cur' = NoInstruction
  BY DEF Finish
<1>4. StoreInv'
  BY <1>2, <1>3, CalmStore
<1>5. BookedInv' /\ InstructionInv'
  BY <1>1, <1>2, <1>3 DEF BookedInv, InstructionInv, instruction, NoInstruction
<1>6. QED
  BY <1>4, <1>5 DEF PlainInv, SettledInv, Reflushing

LEMMA JoinFacts ==
  ASSUME NewIInv, PlainInv, JoinBuffered
  PROVE  \E i \in 1 .. used :
           /\ i \in BufIndex /\ buf[i].hash = cur.hash /\ buf[i].lba \in Seq(LBAs)
           /\ buf'[i].hash = buf[i].hash /\ buf'[i].lba = Append(buf[i].lba, Target)
           /\ \A j \in BufIndex \ {i} : buf'[j] = buf[j]
<1>1. buf \in [BufIndex -> BufferBlocks] /\ 1 .. used \subseteq BufIndex
  <2>1. used \in 0 .. BufNum /\ BufNum \in Nat /\ buf \in [BufIndex -> BufferBlocks]
    BY PlainBasics
  <2>2. QED
    BY <2>1 DEF BufIndex
<1>2. PICK i \in 1 .. used :
        /\ buf[i].hash = cur.hash
        /\ buf' = [buf EXCEPT ![i].lba = Append(@, Target),
                              ![i].cap = JoinedCap(i)]
  BY DEF JoinBuffered, FirstOf, InBuffer
<1>3. i \in BufIndex /\ buf[i] \in BufferBlocks
  BY <1>1
<1> DEFINE b == buf[i]
           cap == JoinedCap(i)
           new == [[b EXCEPT !.lba = Append(b.lba, Target)] EXCEPT !.cap = cap]
<1>4. new.hash = b.hash /\ new.lba = Append(b.lba, Target)
  BY <1>3 DEF BufferBlocks
<1>5. buf' = [buf EXCEPT ![i] = new]
  BY <1>1, <1>2, <1>3
<1> HIDE DEF new, cap, b
<1>6. \A j \in BufIndex : buf'[j] = IF j = i THEN new ELSE buf[j]
  BY <1>1, <1>5
<1>7. b.lba \in Seq(LBAs)
  BY <1>3 DEF BufferBlocks, b
<1>8. QED
  BY <1>2, <1>3, <1>4, <1>6, <1>7 DEF b

LEMMA AppendCells ==
  ASSUME NEW s \in Seq(LBAs), NEW x \in LBAs, NEW w, w = Append(s, x)
  PROVE  /\ Len(s) \in Nat /\ Len(w) = Len(s) + 1
         /\ \A a \in 1 .. Len(s) : w[a] = s[a]
         /\ w[Len(s) + 1] = x
  BY LenProperties, AppendProperties

LEMMA JoinPlain ==
  ASSUME NewIInv, PlainInv, JoinBuffered
  PROVE  PlainInv'
<1>1. /\ pc = "search" /\ fi = 0 /\ zinfo.phases = 1 /\ ~buffer_flushed
      /\ Target \in LBAs /\ ~ltp[Target].valid /\ ~ltp[Target].trim
      /\ Buffered(Target) = {} /\ Unstored = 1 .. used /\ BlocksInv
  BY Phase1Facts DEF JoinBuffered, Buffering
<1>2. /\ pc' = "idle" /\ UNCHANGED <<hash, ltp, zinfo, used, fi, buffer_flushed>>
  BY DEF JoinBuffered, Finish, blocks
<1>3. PICK i \in 1 .. used :
        /\ i \in BufIndex /\ buf[i].hash = cur.hash /\ buf[i].lba \in Seq(LBAs)
        /\ buf'[i].hash = buf[i].hash /\ buf'[i].lba = Append(buf[i].lba, Target)
        /\ \A j \in BufIndex \ {i} : buf'[j] = buf[j]
  BY JoinFacts
<1>4. PICK l \in LBAs : l = Target
  BY <1>1
<1>5. PICK s \in Seq(LBAs) : s = buf[i].lba
  BY <1>3
<1>6. PICK w : w = buf'[i].lba /\ w = Append(s, l)
  BY <1>3, <1>4, <1>5
<1>7. /\ Len(s) \in Nat /\ Len(w) = Len(s) + 1
      /\ (\A a \in 1 .. Len(s) : w[a] = s[a]) /\ w[Len(s) + 1] = l
  BY <1>6, AppendCells
<1>8. \A j \in 1 .. used : j \in BufIndex /\ l \notin Owners(j)
  <2>1. \A j \in 1 .. used : j \in BufIndex
    BY PlainBasics DEF BufIndex
  <2>2. \A j \in 1 .. used : l \notin Owners(j)
    BY <1>1, <1>4 DEF Buffered, Waiting, Owners
  <2>3. QED
    BY <2>1, <2>2
<1>9. \A a \in 1 .. Len(w) : a \in 1 .. Len(s) \/ a = Len(s) + 1
  BY <1>7
<1>10. Owners(i)' = Owners(i) \cup {l}
  <2>1. Owners(i)' = {w[a] : a \in 1 .. Len(w)} /\ Owners(i) = {s[a] : a \in 1 .. Len(s)}
    BY <1>5, <1>6 DEF Owners, SeqToSet
  <2>2. (1 .. Len(s)) \subseteq (1 .. Len(w)) /\ Len(s) + 1 \in 1 .. Len(w)
    BY <1>7
  <2>3. QED
    BY <1>7, <1>9, <2>1, <2>2
<1>11. \A j \in 1 .. used : j # i => Owners(j)' = Owners(j)
  BY <1>3, <1>8 DEF Owners
<1>12. \A j \in 1 .. used : InBufferOnly(j)'
  <2>1. ASSUME NEW j \in 1 .. used, j # i PROVE InBufferOnly(j)'
    <3>1. InBufferOnly(j) /\ buf'[j] = buf[j] /\ Owners(j)' = Owners(j)
      BY <1>1, <1>3, <1>8, <1>11, <2>1 DEF BlocksInv
    <3>2. QED
      BY <1>1, <1>2, <3>1 DEF InBufferOnly
  <2>2. InBufferOnly(i)'
    <3>1. InBufferOnly(i)
      BY <1>1 DEF BlocksInv
    <3>2. \A p \in Tracks : hash'[p] # buf'[i].hash
      BY <1>2, <1>3, <3>1 DEF InBufferOnly
    <3>3. \A a, b \in 1 .. Len(w) : w[a] = w[b] => a = b
      <4>1. \A a \in 1 .. Len(s) : s[a] # l
        BY <1>5, <1>8 DEF Owners, SeqToSet
      <4>2. \A a, b \in 1 .. Len(s) : s[a] = s[b] => a = b
        BY <1>5, <3>1 DEF InBufferOnly
      <4>3. QED
        BY <1>7, <1>9, <4>1, <4>2
    <3>4. \A m \in Owners(i) \cup {l} : ~ltp'[m].valid /\ ~ltp'[m].trim
      BY <1>1, <1>2, <1>4, <3>1 DEF InBufferOnly
    <3>5. QED
      BY <1>6, <1>10, <3>2, <3>3, <3>4 DEF InBufferOnly
  <2>3. QED
    BY <2>1, <2>2
<1>13. \A j, k \in 1 .. used : j # k =>
         buf'[j].hash # buf'[k].hash /\ Owners(j)' \cap Owners(k)' = {}
  <2>1. \A j \in 1 .. used : buf'[j].hash = buf[j].hash /\ Owners(j)' \subseteq Owners(j) \cup {l}
        /\ (j # i => Owners(j)' = Owners(j))
    BY <1>3, <1>8, <1>10, <1>11
  <2>2. \A j, k \in 1 .. used : j # k =>
          buf[j].hash # buf[k].hash /\ Owners(j) \cap Owners(k) = {}
    BY <1>1 DEF BlocksInv
  <2>3. QED
    BY <1>8, <2>1, <2>2
<1>14. BlocksInv'
  <2>1. Unstored' = 1 .. used /\ OnTracks' = {}
    BY <1>1, <1>2 DEF Unstored, OnTracks, Waiting
  <2>2. QED
    BY <1>1, <1>2, <1>12, <1>13, <2>1 DEF BlocksInv
<1>15. QED
  BY <1>1, <1>14, BufferedStill DEF JoinBuffered, Buffering

(* The turn of a block.                                                    *)
LEMMA TurnFields ==
  ASSUME NEW i, cur' = Turn(i)
  PROVE  /\ cur'.lba = buf'[i].lba[1] /\ cur'.hash = buf'[i].hash /\ ~cur'.pass
         /\ cur'.i = 0 /\ cur'.n = 1
  BY DEF Turn, NoInstruction

LEMMA FilledBlocks ==
  ASSUME NewIInv, PlainInv, FillBlock
  PROVE  BlocksInv' /\ pc' \in {"idle", "search"}
<1>1. /\ pc = "search" /\ fi = 0 /\ zinfo.phases = 1 /\ ~buffer_flushed
      /\ Target \in LBAs /\ cur.hash \in Hashes /\ ~ltp[Target].valid /\ ~ltp[Target].trim
      /\ Buffered(Target) = {} /\ Unstored = 1 .. used /\ BlocksInv
  BY Phase1Facts DEF FillBlock, Buffering
<1>2. /\ NewTypeOK /\ BufferInv /\ used \in Nat /\ BufNum \in Nat
  BY PlainBasics DEF NewIInv
<1>3. PICK n \in BufIndex : n = used + 1
  BY <1>1, <1>2, BlockFilled
<1>4. /\ used' = n /\ \A j \in BufIndex \ {n} : buf'[j] = buf[j]
      /\ buf'[n].hash = cur.hash /\ buf'[n].lba = <<Target>>
  BY <1>1, <1>2, <1>3, BlockFilled
<1>5. /\ UNCHANGED <<hash, ltp, zinfo, buffer_flushed>> /\ pc' \in {"idle", "search"}
      /\ fi' = 0 \/ (fi' = 1 /\ n = BufNum)
  BY <1>1, <1>4 DEF FillBlock, StartFlush, Finish, blocks
<1>6. \A j \in 1 .. n : j = n \/ (j \in 1 .. used /\ j \in BufIndex /\ j # n)
  BY <1>2, <1>3 DEF BufIndex
<1>7. Unstored' = 1 .. n /\ OnTracks' = {}
  <2>1. Waiting' = 1 .. n
    BY <1>4, <1>5 DEF Waiting
  <2>2. OnTracks' = {}
    BY <1>1, <1>5 DEF OnTracks
  <2>3. QED
    BY <1>1, <1>5, <2>1, <2>2 DEF Unstored
<1>8. PICK l \in LBAs : l = Target
  BY <1>1
<1>9. \A j \in 1 .. used : l \notin Owners(j)
  BY <1>1, <1>8 DEF Buffered, Waiting, Owners
<1>10. Owners(n)' = {l}
  <2>1. buf'[n].lba = <<l>>
    BY <1>4, <1>8
  <2>2. QED
    BY <2>1 DEF Owners, SeqToSet
<1>11. \A j \in 1 .. used : buf'[j] = buf[j] /\ Owners(j)' = Owners(j)
  BY <1>2, <1>3, <1>4 DEF Owners, BufIndex
<1>12. \A j \in 1 .. n : InBufferOnly(j)'
  <2>1. ASSUME NEW j \in 1 .. used PROVE InBufferOnly(j)'
    <3>1. InBufferOnly(j)
      BY <1>1 DEF BlocksInv
    <3>2. QED
      BY <1>1, <1>5, <1>11, <3>1 DEF InBufferOnly
  <2>2. InBufferOnly(n)'
    <3>1. \A p \in Tracks : hash'[p] # buf'[n].hash
      BY <1>1, <1>4, <1>5 DEF FillBlock, Buffering, Stored
    <3>2. Len(buf'[n].lba) = 1
      BY <1>4
    <3>3. ~ltp'[l].valid /\ ~ltp'[l].trim
      BY <1>1, <1>5, <1>8
    <3>4. QED
      BY <1>10, <3>1, <3>2, <3>3 DEF InBufferOnly
  <2>3. QED
    BY <1>6, <2>1, <2>2
<1>13. ASSUME NEW j \in 1 .. n, NEW k \in 1 .. n, j # k
       PROVE  buf'[j].hash # buf'[k].hash /\ Owners(j)' \cap Owners(k)' = {}
  <2>1. \A i \in 1 .. used : buf[i].hash # cur.hash
    BY DEF FillBlock, InBuffer
  <2>2. \A i, m \in 1 .. used : i # m => buf[i].hash # buf[m].hash /\ Owners(i) \cap Owners(m) = {}
    BY <1>1 DEF BlocksInv
  <2>3. CASE j = n
    <3>1. k \in 1 .. used
      BY <1>6, <1>13, <2>3
    <3>2. buf'[k].hash = buf[k].hash /\ Owners(k)' = Owners(k)
      BY <1>11, <3>1
    <3>3. QED
      BY <1>4, <1>9, <1>10, <2>1, <2>3, <3>1, <3>2
  <2>4. CASE k = n
    <3>1. j \in 1 .. used
      BY <1>6, <1>13, <2>4
    <3>2. buf'[j].hash = buf[j].hash /\ Owners(j)' = Owners(j)
      BY <1>11, <3>1
    <3>3. QED
      BY <1>4, <1>9, <1>10, <2>1, <2>4, <3>1, <3>2
  <2>5. CASE j # n /\ k # n
    BY <1>6, <1>11, <1>13, <2>2, <2>5
  <2>6. QED
    BY <2>3, <2>4, <2>5
<1>14. QED
  BY <1>1, <1>5, <1>7, <1>12, <1>13 DEF BlocksInv

LEMMA FillPlain ==
  ASSUME NewIInv, PlainInv, NewIInv', FillBlock
  PROVE  PlainInv'
<1>1. /\ Phase1Write /\ UNCHANGED <<blocks, ltp>> /\ buffer_flushed' = buffer_flushed
      /\ IF used' = BufNum THEN StartFlush(NoInstruction) ELSE Finish /\ UNCHANGED <<fi, after>>
  BY DEF FillBlock, Buffering
<1>2. fi = 0 /\ after = NoInstruction /\ ~buffer_flushed /\ pc = "search"
  BY <1>1, Phase1Facts
<1>3. BlocksInv'
  BY FilledBlocks
<1>4. CASE used' # BufNum
  BY <1>1, <1>2, <1>3, <1>4, BufferedStill
<1>5. CASE used' = BufNum
  <2>1. /\ EntriesInv /\ Booked = {} /\ \A p \in Tracks : Settled(p)
    BY <1>1, Phase1Facts
  <2>2. /\ EntriesInv' /\ Booked' = {} /\ \A p \in Tracks : Settled(p)'
    BY <1>1, <1>2, <2>1, DiskSame
  <2>3. fi' = 1 /\ after' = NoInstruction /\ pc' = "search" /\ cur' = Turn(1)
    BY <1>1, <1>5 DEF StartFlush
  <2>4. /\ cur'.lba = buf'[fi'].lba[1] /\ cur'.hash = buf'[fi'].hash /\ ~cur'.pass
    BY <2>3, TurnFields
  <2>5. cur'.lba \in LBAs /\ cur'.i = 0 /\ cur'.hash \in Hashes /\ Target' \in LBAs
    <3>1. cur'.lba \in LBAs /\ cur'.i = 0 /\ cur'.hash \in Hashes
      BY <2>3 DEF NewIInv, TurnInv
    <3>2. QED
      BY <3>1 DEF Target, LBAs
  <2>6. StoreInv'
    BY <2>2, <2>3, <2>5, CalmStore
  <2>7. BookedInv'
    BY <2>2, <2>3, <2>4 DEF BookedInv
  <2>8. InstructionInv'
    BY <1>1, <1>2, <2>3, <2>4 DEF InstructionInv, instruction, NoInstruction
  <2>9. QED
    BY <1>1, <1>2, <1>3, <2>6, <2>7, <2>8 DEF PlainInv, SettledInv, Reflushing
<1>6. QED
  BY <1>4, <1>5

-----------------------------------------------------------------------------
(* A write in a later phase.                                               *)

LEMMA FlushAgainPlain ==
  ASSUME NewIInv, PlainInv, NewIInv', FlushAgain
  PROVE  PlainInv'
<1>1. /\ fi = 0 /\ pc = "search" /\ zinfo.phases > 1 /\ ~buffer_flushed
      /\ UNCHANGED <<blocks, ltp, buf, used, zinfo>> /\ buffer_flushed' = TRUE
      /\ fi' = 1 /\ after' = cur /\ pc' = "search" /\ cur' = Turn(1)
  BY DEF FlushAgain, Flushed, StartFlush
<1>2. /\ EntriesInv /\ Booked = {} /\ (\A p \in Tracks : Settled(p)) /\ ~cur.pass
      /\ PlainTarget(Target, cur.hash) /\ Target = cur.lba /\ cur.n = 1 /\ cur.i = 0
      /\ BlocksInv
  BY <1>1, PlainBasics, AllSettled DEF PlainInv, BookedInv, InstructionInv
<1>3. /\ EntriesInv' /\ Booked' = {} /\ \A p \in Tracks : Settled(p)'
  BY <1>1, <1>2, DiskSame
<1>4. /\ cur'.lba = buf'[fi'].lba[1] /\ cur'.hash = buf'[fi'].hash /\ ~cur'.pass
  BY <1>1, TurnFields
<1>5. Target' \in LBAs /\ cur'.hash \in Hashes
  <2>1. cur'.lba \in LBAs /\ cur'.i = 0 /\ cur'.hash \in Hashes
    BY <1>1 DEF NewIInv, TurnInv
  <2>2. QED
    BY <2>1 DEF Target, LBAs
<1>6. SettledInv'
  BY <1>1, <1>3, <1>5, CalmStore DEF SettledInv
<1>7. BlocksInv'
  <2>1. OnTracks = BufIndex /\ OnTracks' = BufIndex /\ Unstored' = {}
    BY <1>1 DEF OnTracks, Unstored
  <2>2. \A j \in BufIndex : \E p \in Tracks : StoredAt(j, p)'
    BY <1>1, <1>2, <2>1, BlockSame DEF BlocksInv
  <2>3. QED
    BY <1>1, <2>1, <2>2 DEF BlocksInv
<1>8. PlainTarget(after.lba, after.hash)'
  <2>1. PICK l, h : l = cur.lba /\ h = cur.hash
    OBVIOUS
  <2>2. PlainTarget(l, h)'
    BY <1>1, <1>2, <2>1 DEF PlainTarget, blocks
  <2>3. after'.lba = l /\ after'.hash = h
    BY <1>1, <2>1
  <2>4. QED
    BY <2>2, <2>3 DEF PlainTarget
<1>9. BookedInv'
  BY <1>1, <1>3, <1>4 DEF BookedInv
<1>10. InstructionInv'
  <2>1. instruction' = cur /\ after'.pass = cur.pass
    BY <1>1 DEF instruction
  <2>2. QED
    BY <1>1, <1>2, <1>4, <1>8, <2>1 DEF InstructionInv
<1>11. QED
  BY <1>6, <1>7, <1>9, <1>10 DEF PlainInv

(* A lookup of what a plain write may meet is DedupWrite's.                *)
LEMMA NewSearchFacts ==
  ASSUME NewIInv, PlainInv, pc = "search", PlainTarget(Target, cur.hash)
  PROVE  PlainSearch /\ Booked = {}
<1>1. /\ TypeOK /\ EntriesInv /\ (\A p \in Tracks : Settled(p)) /\ ~cur.pass /\ Booked = {}
  BY PlainBasics, AllSettled DEF PlainInv, BookedInv
<1>2. cur.hash \in Hashes /\ MappedAllocated /\ HashAllocated /\ Searching
  BY DEF NewIInv, NewUseInv, UseInv, InProgress, Running, Searching, PlainTarget
<1>3. \A t \in Tracks : hash[t] = cur.hash => status[t] # "free"
  BY <1>2, HashAssumption DEF HashAllocated
<1>4. \A p \in Tracks : Len(lba_list[p]) > 0 /\ status[p] # "booked"
  BY <1>1, ListCells DEF NewIInv, RoomInv, Booked
<1>5. QED
  BY <1>1, <1>2, <1>3, <1>4 DEF PlainSearch

LEMMA SearchLeaves ==
  ASSUME PlainSearch, Booked = {}, Search
  PROVE  /\ Booked' = {} /\ zinfo' = zinfo
         /\ \/ pc' = "store" /\ cur'.n = cur.n /\ cur'.i = cur.i /\ cur'.lba = cur.lba /\ cur'.hash = cur.hash
            \/ pc' = "alloc" /\ cur' = cur
<1>0. TypeOK /\ Target \in LBAs /\ cur \in Instructions /\ MappedAllocated
  BY PlainSearchIs DEF PlainSearch, TypeOK
<1>1. ~SearchBeyond
  BY <1>0 DEF SearchBeyond
<1>2. \/ (\E q, pass : Found(q, pass)) \/ (pc' = "alloc" /\ cur' = cur)
  BY <1>1 DEF Search, SearchOverwriteInPlace, UpdateInPlace, SearchOverwriteSwapped, UpdateSwapped,
    SearchRestore, SearchRestoreMoved, SearchSame, SearchShare, SearchTakeOver, SearchNew
<1>3. zinfo' = zinfo
  BY DEF Search, SearchOverwriteInPlace, UpdateInPlace, SearchOverwriteSwapped, UpdateSwapped,
    SearchRestore, SearchRestoreMoved, SearchSame, SearchShare, SearchTakeOver, SearchNew, SearchBeyond
<1>4. Booked' = {}
  <2>1. CASE SearchOverwriteSwapped
    <3>1. PICK b, t \in Tracks : Exchanged(b, t)
      BY <2>1, SwapExchanges DEF SearchOverwriteSwapped, Overwrites
    <3>2. \A p \in Tracks : status'[p] = status[p] \/ status'[p] = "in_use"
      BY <3>1 DEF Exchanged
    <3>3. QED
      BY <3>2 DEF Booked
  <2>2. CASE SearchTakeOver
    <3>1. PICK p : status' = [status EXCEPT ![p] = "in_use"]
      BY <2>2 DEF SearchTakeOver
    <3>2. QED
      BY <1>0, <3>1 DEF Booked, TypeOK
  <2>3. CASE SearchOverwriteInPlace \/ SearchRestore \/ SearchRestoreMoved \/ SearchSame
             \/ SearchShare \/ SearchNew
    <3>1. status' = status
      BY <2>3 DEF SearchOverwriteInPlace, UpdateInPlace, SearchRestore, SearchRestoreMoved,
        SearchSame, SearchShare, SearchNew, blocks
    <3>2. QED
      BY <3>1 DEF Booked
  <2>4. QED
    BY <1>1, <2>1, <2>2, <2>3 DEF Search
<1>5. QED
  BY <1>0, <1>2, <1>3, <1>4 DEF Found, Instructions

LEMMA LookupPlain ==
  ASSUME NewIInv, PlainInv, Lookup
  PROVE  PlainInv'
<1>1. /\ fi = 0 /\ zinfo.phases > 1 /\ buffer_flushed /\ Search
      /\ UNCHANGED <<buf, used, fi, after, buffer_flushed>>
  BY DEF Lookup, Flushed, newVars, codeVars
<1>2. pc = "search"
  BY <1>1 DEF Search, SearchOverwriteInPlace, SearchOverwriteSwapped, Overwrites, SearchRestore,
    SearchRestoreMoved, SearchSame, SearchShare, SearchTakeOver, SearchNew, SearchBeyond, Searching
<1>3. PlainTarget(Target, cur.hash) /\ after = NoInstruction /\ used = 0 /\ ~cur.pass
      /\ cur.n = 1 /\ cur.i = 0
  BY <1>1, <1>2, PlainBasics DEF PlainInv, InstructionInv, BlocksInv, BookedInv, NewIInv, TurnInv
<1>4. PlainSearch /\ Booked = {}
  BY <1>2, <1>3, NewSearchFacts
<1>5. StoreInv'
  BY <1>1, <1>4, SearchStore
<1>6. /\ Booked' = {} /\ zinfo' = zinfo
      /\ \/ pc' = "store" /\ cur'.n = 1 /\ cur'.i = 0
         \/ pc' = "alloc" /\ cur' = cur
  BY <1>1, <1>3, <1>4, SearchLeaves
<1>7. BlocksInv'
  BY <1>1, <1>3, BufferGone
<1>8. BookedInv' /\ InstructionInv'
  BY <1>1, <1>3, <1>6 DEF BookedInv, InstructionInv, instruction
<1>9. QED
  BY <1>1, <1>5, <1>7, <1>8 DEF PlainInv, SettledInv, Reflushing

(* Outside of a flush, a write that is at its track is past the last one.  *)
LEMMA LaterFacts ==
  ASSUME NewIInv, PlainInv, fi = 0, pc \in {"alloc", "store"}
  PROVE  /\ buffer_flushed /\ StoreInv /\ TypeOK /\ after = NoInstruction /\ gbtable = {}
         /\ zinfo.phases > 1 => used = 0
         /\ cur.n = 1 /\ cur.i = 0 /\ Target = cur.lba /\ Target \in LBAs
<1>1. buffer_flushed /\ StoreInv /\ after = NoInstruction /\ (zinfo.phases > 1 => used = 0)
  BY DEF PlainInv, InstructionInv, SettledInv, Reflushing, BlocksInv, NewIInv, TurnInv
<1>2. Target \in LBAs
  BY <1>1 DEF StoreInv, WriteInv, Running
<1>3. QED
  BY <1>1, <1>2, PlainBasics

LEMMA MismatchNever ==
  ASSUME NewIInv, PlainInv
  PROVE  ~NewMismatch
<1> SUFFICES ASSUME NewMismatch PROVE FALSE
  OBVIOUS
<1>1. /\ fi = 0 /\ pc = "store" /\ refs[cur.pba] > 0 /\ ~(refs[cur.pba] > 0 /\ refs[cur.pba] = 0)
      /\ hash[cur.pba] # cur.hash
  BY DEF NewMismatch, StoreMismatch
<1>2. StoreInv
  BY <1>1, LaterFacts
<1>3. QED
  BY <1>1, <1>2 DEF StoreInv, TracksInv, ToWrite, ToPass

LEMMA BeyondNever ==
  ASSUME NewIInv, PlainInv
  PROVE  ~BeyondTable
<1> SUFFICES ASSUME BeyondTable PROVE FALSE
  OBVIOUS
<1>1. fi = 0 /\ pc = "search" /\ Target \notin LBAs
  BY DEF BeyondTable, SearchBeyond
<1>2. QED
  BY <1>1 DEF PlainInv, InstructionInv, PlainTarget

LEMMA NewSharedPlain ==
  ASSUME NewIInv, PlainInv, Garbage = {NoLba}, NewStoreShared
  PROVE  PlainInv'
<1>1. /\ fi = 0 /\ pc = "store" /\ refs[cur.pba] > 0 /\ pc' = "idle" /\ cur' = NoInstruction
      /\ UNCHANGED <<status, hash, refs, ltp, zinfo, buf, used, fi, after, buffer_flushed>>
  BY DEF NewStoreShared, Sharing, Finish, StoreUnchanged, newVars, codeVars
<1>2. /\ buffer_flushed /\ StoreInv /\ TypeOK /\ after = NoInstruction
      /\ (zinfo.phases > 1 => used = 0) /\ Target = cur.lba /\ Target \in LBAs
  BY <1>1, LaterFacts
<1>3. PICK q \in Tracks : q = cur.pba
  BY PlainBasics
<1>4. PICK s \in Seq(Cells) : s = lba_list[q] /\ Len(s) > 1
  BY <1>2, ListCells DEF NewIInv, RoomInv
<1>5. PICK k \in Nat : k = refs[q] /\ k > 0
  BY <1>1, <1>2, <1>3, ListCells
<1>6. ToJoin(q) /\ k <= Len(s)
  <2>1. ~(refs[q] > 0 /\ refs[q] = 0)
    OBVIOUS
  <2>2. ToJoin(q)
    BY <1>1, <1>2, <1>3, <2>1 DEF StoreInv, TracksInv, ToWrite, ToPass
  <2>3. QED
    BY <1>4, <1>5, <2>2 DEF ToJoin, Lists
<1>7. PICK g : g = IF k > Capacity(s) THEN Increase(s) ELSE s
  OBVIOUS
<1>8. /\ g \in Seq(Cells) /\ Len(g) \in Nat /\ Len(s) \in Nat /\ Len(s) <= Len(g) /\ Len(g) > 1
      /\ \A i \in 1 .. Len(g) : g[i] = IF i <= Len(s) THEN s[i] ELSE NoLba
      /\ k <= Capacity(g)
  <2>1. g = s \/ g = Increase(s)
    BY <1>7
  <2>2. /\ Capacity(s) \in Nat /\ Capacity(s) > 1 /\ Capacity(s) <= Len(s)
        /\ Len(s) <= Capacity(s) + 1 /\ Capacity(Increase(s)) = 2 * Capacity(s)
    BY <1>4, CapacityIs, IncreaseRefs, LenProperties
  <2>3. k <= Capacity(g)
    BY <1>4, <1>6, <1>7, <2>2
  <2>4. QED
    BY <1>4, <2>1, <2>3, IncreaseCells
<1>9. PICK put \in Seq(Cells) : put = Reaching(g, k + 1)
  BY <1>8, ReachingRefs
<1>10. /\ Len(put) \in Nat /\ Len(g) <= Len(put) /\ k + 1 <= Len(put)
       /\ \A i \in 1 .. Len(put) : put[i] = IF i <= Len(s) THEN s[i] ELSE NoLba
  <2>1. Capacity(g) \in Nat
    BY <1>8, CapacityIs
  <2>2. /\ Len(put) \in Nat /\ Len(g) <= Len(put) /\ k + 1 <= Len(put)
        /\ \A i \in 1 .. Len(g) : put[i] = g[i]
        /\ \A i \in 1 .. Len(put) : i \in 1 .. Len(g) \/ put[i] = NoLba
    BY <1>8, <1>9, <2>1, ReachingRefs
  <2>3. \A i \in 1 .. Len(put) : i <= Len(s) => i \in 1 .. Len(g)
    BY <1>8
  <2>4. QED
    BY <1>8, <2>2, <2>3
<1>11. StoreInv'
  <2>1. PICK l \in LBAs : l = cur.lba
    BY <1>2
  <2>2. (\A i \in 1 .. Len(put) : put[i] # l) /\ \A i \in 1 .. Len(g) : g[i] # l
    <3>1. \A i \in 1 .. Len(s) : s[i] # l
      BY <1>2, <1>4, <1>6, <2>1 DEF ToJoin
    <3>2. ASSUME NEW i \in Nat, i > 0 PROVE i <= Len(s) => s[i] # l
      BY <1>8, <3>1, <3>2
    <3>3. NoLba # l
      BY CellAssumption
    <3>4. \A i \in 1 .. Len(put) : put[i] # l
      BY <1>10, <3>2, <3>3
    <3>5. \A i \in 1 .. Len(g) : g[i] # l
      BY <1>8, <3>2, <3>3
    <3>6. QED
      BY <3>4, <3>5
  <2>3. Positions(put, refs[0] + 1, cur.lba) = {0} /\ Positions(g, refs[0] + 1, cur.lba) = {0}
    BY <1>8, <2>1, <2>2, FoundNowhere
  <2>4. PICK j \in Positions(g, refs[0] + 1, cur.lba) :
          lba_list' = [lba_list EXCEPT ![cur.pba] =
                         IF j = 0 THEN [put EXCEPT ![k + 1] = cur.lba]
                         ELSE IF j <= Len(g) THEN [g EXCEPT ![j] = cur.lba] ELSE g]
    <3>1. PICK n : n = k + 1
      OBVIOUS
    <3>2. n = refs[cur.pba] + 1 /\ n - 1 = k
      BY <1>3, <1>5, <3>1
    <3>3. g = IF n - 1 > Capacity(lba_list[cur.pba]) THEN Increase(lba_list[cur.pba])
                                                     ELSE lba_list[cur.pba]
      BY <1>3, <1>4, <1>7, <3>2
    <3>4. put = Reaching(g, n)
      BY <1>9, <3>1
    <3>5. \E j \in Positions(g, refs[0] + 1, cur.lba) :
            lba_list' = [lba_list EXCEPT ![cur.pba] =
                           IF j = 0 THEN [put EXCEPT ![n] = cur.lba]
                           ELSE IF j <= Len(g) THEN [g EXCEPT ![j] = cur.lba] ELSE g]
      BY <3>2, <3>3, <3>4 DEF NewStoreShared
    <3>6. QED
      BY <3>1, <3>5
  <2>5. PICK at \in Positions(put, refs[0] + 1, cur.lba) : at = 0
    BY <2>3
  <2>6. lba_list' = [lba_list EXCEPT ![cur.pba] =
                       IF at = 0 THEN [put EXCEPT ![refs[cur.pba] + 1] = cur.lba]
                       ELSE IF at <= Len(put) THEN [put EXCEPT ![at] = cur.lba] ELSE put]
    BY <1>3, <1>5, <2>3, <2>4, <2>5
  <2>7. /\ refs[cur.pba] < Len(put) /\ Len(lba_list[cur.pba]) <= Len(put)
        /\ \A i \in 1 .. Len(put) :
             put[i] = IF i <= Len(lba_list[cur.pba]) THEN lba_list[cur.pba][i] ELSE NoLba
    BY <1>3, <1>4, <1>5, <1>8, <1>10
  <2>8. QED
    BY <1>1, <1>2, <2>6, <2>7, WriterListed
<1>12. BlocksInv'
  BY <1>1, <1>2, BufferGone
<1>13. BookedInv'
  <2>1. refs[cur.pba] # 0
    BY <1>3, <1>5
  <2>2. Booked = {}
    BY <1>1, <2>1 DEF PlainInv, BookedInv
  <2>3. QED
    BY <1>1, <2>2 DEF BookedInv, Booked
<1>14. InstructionInv'
  BY <1>1, <1>2 DEF InstructionInv, instruction, NoInstruction
<1>15. QED
  BY <1>1, <1>11, <1>12, <1>13, <1>14 DEF PlainInv, SettledInv, Reflushing

(* What is left to do at a track with one owner.                           *)
LEMMA OwnedFacts ==
  ASSUME TypeOK, StoreInv, pc = "store", refs[cur.pba] = 0, NEW q \in Tracks, q = cur.pba,
         NEW l \in LBAs, l = Target
  PROVE  /\ ltp[l] = Mapped(q, cur.hash) /\ EntriesInv /\ \A p \in Tracks \ {q} : Settled(p)
         /\ \/ ~cur.pass /\ \A m \in LBAs : Owner(m, q) => m = l
            \/ cur.pass /\ Lists(q, 1, {}) /\ status[q] = "in_use" /\ hash[q] = cur.hash
<1>1. ltp[l] = Mapped(q, cur.hash) /\ EntriesInv /\ \A p \in Tracks \ {q} : Settled(p)
  BY DEF StoreInv, WriteInv, TracksInv, UnderWay
<1>2. ~(refs[q] > 0)
  OBVIOUS
<1>3. QED
  BY <1>1, <1>2 DEF StoreInv, TracksInv, ToWrite, ToPass, ToJoin

LEMMA NewOwnedPlain ==
  ASSUME NewIInv, PlainInv, NewStoreOwned
  PROVE  PlainInv'
<1>1. /\ fi = 0 /\ pc = "store" /\ refs[cur.pba] = 0
      /\ UNCHANGED <<refs, ltp, zinfo, buf, used, fi, after, buffer_flushed>>
  BY DEF NewStoreOwned, newVars, codeVars
<1>2. /\ buffer_flushed /\ StoreInv /\ TypeOK /\ after = NoInstruction
      /\ (zinfo.phases > 1 => used = 0) /\ cur.n = 1 /\ cur.i = 0 /\ Target \in LBAs
  BY <1>1, LaterFacts
<1>3. PICK q \in Tracks : q = cur.pba
  BY PlainBasics
<1>4. PICK l \in LBAs : l = Target
  BY <1>2
<1>5. /\ ltp[l] = Mapped(q, cur.hash) /\ EntriesInv /\ (\A p \in Tracks \ {q} : Settled(p))
      /\ \/ ~cur.pass /\ \A m \in LBAs : Owner(m, q) => m = l
         \/ cur.pass /\ Lists(q, 1, {}) /\ status[q] = "in_use" /\ hash[q] = cur.hash
  BY <1>1, <1>2, <1>3, <1>4, OwnedFacts
<1>6. pc' = "idle" /\ cur' = NoInstruction
  BY <1>2 DEF NewStoreOwned, Finish
<1>7. Booked \subseteq {q} /\ (q \in Booked => ~cur.pass)
  BY <1>1, <1>3 DEF PlainInv, BookedInv
<1>8. (\A p \in Tracks : Settled(p)') /\ EntriesInv' /\ Booked' = {}
  <2>1. CASE cur.pass
    <3>1. UNCHANGED <<status, hash, lba_list>>
      BY <2>1 DEF NewStoreOwned
    <3>2. Settled(q)
      BY <1>1, <1>3, <1>5, <2>1 DEF Settled, Lists
    <3>3. \A p \in Tracks : Settled(p)'
      BY <1>1, <1>5, <3>1, <3>2 DEF Settled, Vacated, Lists, Owner
    <3>4. hash[ltp[l].pba] = ltp[l].hash
      BY <1>5, <2>1 DEF Mapped
    <3>5. EntriesInv'
      BY <1>1, <1>4, <1>5, <3>1, <3>4 DEF EntriesInv
    <3>6. QED
      BY <1>7, <2>1, <3>1, <3>3, <3>5 DEF Booked
  <2>2. CASE ~cur.pass
    <3>1. /\ hash' = [hash EXCEPT ![q] = cur.hash] /\ lba_list' = [lba_list EXCEPT ![q][1] = l]
          /\ status' = [status EXCEPT ![q] = "in_use"]
      BY <1>3, <1>4, <2>2 DEF NewStoreOwned, WriteTrack
    <3>2. Len(lba_list[q]) > 0
      BY <1>2, ListCells DEF NewIInv, RoomInv
    <3>3. /\ Lists(q, 1, {})' /\ EntriesInv'
          /\ \A p \in Tracks \ {q} : lba_list'[p] = lba_list[p] /\ hash'[p] = hash[p]
      BY <1>1, <1>2, <1>4, <1>5, <2>2, <3>1, <3>2, OwnedWritten
    <3>4. status'[q] = "in_use" /\ \A p \in Tracks \ {q} : status'[p] = status[p]
      BY <1>2, <3>1 DEF TypeOK
    <3>5. \A p \in Tracks \ {q} : Settled(p)'
      BY <1>1, <1>5, <3>3, <3>4 DEF Settled, Vacated, Lists, Owner
    <3>6. Settled(q)'
      BY <1>1, <1>3, <3>3, <3>4 DEF Settled, Lists
    <3>7. Booked' = {}
      BY <1>7, <3>4 DEF Booked
    <3>8. QED
      BY <3>3, <3>5, <3>6, <3>7
  <2>3. QED
    BY <1>5, <2>1, <2>2
<1>9. StoreInv'
  BY <1>6, <1>8, CalmStore
<1>10. BlocksInv'
  BY <1>1, <1>2, BufferGone
<1>11. BookedInv' /\ InstructionInv'
  BY <1>1, <1>2, <1>6, <1>8 DEF BookedInv, InstructionInv, instruction, NoInstruction
<1>12. QED
  BY <1>1, <1>9, <1>10, <1>11 DEF PlainInv, SettledInv, Reflushing

-----------------------------------------------------------------------------
(* The allocator.                                                          *)

LEMMA AllocateMoves ==
  ASSUME NewIInv, NewAllocate
  PROVE  /\ pc = "alloc" /\ AllocUnchanged /\ UNCHANGED <<buf, used, fi, after, buffer_flushed>>
         /\ \/ \E t \in Tracks : status[t] = "free" /\ Book(t)
            \/ /\ UNCHANGED <<status, ltp, cur>>
               /\ \/ pc' \in {"alloc", "disk_full"}
                  \/ pc' = "undefined" /\ TRUE \in OutOfBounds
<1>1. CASE LaterStep /\ Alloc /\ AllocatorInv /\ UNCHANGED newVars
  <2>1. TypeOK
    BY NewBasics DEF NewIInv
  <2>2. QED
    BY <1>1, <2>1, AllocBooks DEF newVars, codeVars
<1>2. CASE NewPhase1Step
  <2>1. PICK t \in Tracks : (Book(t) \/ TryTrack(t)) /\ pc = "alloc" /\ NewAllocUnchanged
    BY <1>2, Phase1Track
  <2>2. AllocUnchanged /\ UNCHANGED <<buf, used, fi, after, buffer_flushed>>
    BY <2>1 DEF NewAllocUnchanged, buffer
  <2>3. \/ \E u \in Tracks : status[u] = "free" /\ Book(u)
        \/ \E u \in Tracks : TryTrack(u)
    <3>1. CASE NewPhase1
      <4>1. next_bottom \in Tracks
        BY <3>1 DEF NewPhase1, Allocating, NewIInv, NewAllocatorInv, NewFrontier, Bottoms
      <4>2. QED
        BY <3>1, <4>1 DEF NewPhase1
    <3>2. CASE NewPhase1Last \/ NewPhase1Full
      <4>0. phase1_start \in Tracks /\ phase1_end \in Tracks
        BY Geometry DEF Tracks
      <4>1. zinfo.current_track \in Tracks
        BY <3>2, <4>0 DEF NewPhase1Last, NewPhase1Full, Allocating, NewIInv, NewAllocatorInv,
          NewFrontier
      <4>2. \A u \in FirstOf(Free(EveryOther(phase1_start, phase1_end))) :
              u \in Tracks /\ status[u] = "free"
        BY DEF FirstOf, Free, EveryOther
      <4>3. QED
        BY <3>2, <4>1, <4>2 DEF NewPhase1Last, NewPhase1Full
    <3>3. QED
      BY <1>2, <3>1, <3>2 DEF NewPhase1Step
  <2>4. QED
    BY <2>1, <2>2, <2>3 DEF TryTrack
<1>3. QED
  BY <1>1, <1>2, AllocateCases

(* A block is mapped to a booked track.                                    *)
LEMMA BookFacts ==
  ASSUME NewIInv, PlainInv, StoreInv, pc = "alloc", AllocUnchanged,
         NEW t \in Tracks, status[t] = "free", Book(t)
  PROVE  /\ status' = [status EXCEPT ![t] = "booked"] /\ Booked' = {t} /\ refs[t] = 0
         /\ \A p \in Tracks \ {t} : status'[p] = status[p]
         /\ Target \in LBAs /\ ~ltp[Target].valid /\ Target' = Target
         /\ \A l \in LBAs \ {Target} : ltp'[l] = ltp[l]
         /\ pc' = "store" /\ cur'.pba = t /\ ~cur'.pass /\ cur'.lba = cur.lba
         /\ cur'.hash = cur.hash /\ cur'.n = cur.n /\ cur'.i = cur.i
         /\ UNCHANGED <<hash, refs, lba_list>>
<1>1. /\ TypeOK /\ cur \in Instructions /\ ~cur.pass /\ Booked = {} /\ Settled(t)
      /\ Target \in LBAs /\ ~ltp[Target].valid
  BY PlainBasics, AllSettled DEF PlainInv, BookedInv, StoreInv, WriteInv, Running
<1>2. /\ status' = [status EXCEPT ![t] = "booked"]
      /\ ltp' = [ltp EXCEPT ![Target] = Mapped(t, cur.hash)] /\ Found(t, cur.pass)
  BY DEF Book
<1>3. /\ \A p \in Tracks \ {t} : status'[p] = status[p]
      /\ \A l \in LBAs \ {Target} : ltp'[l] = ltp[l]
      /\ status'[t] = "booked"
  BY <1>1, <1>2 DEF TypeOK
<1>4. Booked' = {t}
  BY <1>1, <1>3 DEF Booked
<1>5. /\ pc' = "store" /\ cur'.pba = t /\ ~cur'.pass /\ cur'.lba = cur.lba
      /\ cur'.hash = cur.hash /\ cur'.n = cur.n /\ cur'.i = cur.i
  BY <1>1, <1>2 DEF Found, Instructions
<1>6. Target' = Target
  BY <1>5 DEF Target
<1>7. refs[t] = 0
  BY <1>1 DEF Settled, Vacated
<1>8. QED
  BY <1>1, <1>2, <1>3, <1>4, <1>5, <1>6, <1>7 DEF AllocUnchanged

LEMMA BookBlocks ==
  ASSUME NewIInv, PlainInv, StoreInv, fi > 0, ~buffer_flushed, pc = "alloc", AllocUnchanged,
         UNCHANGED <<buf, used, fi, buffer_flushed>>, NEW t \in Tracks, status[t] = "free", Book(t)
  PROVE  BlocksInv'
<1>1. /\ (\A p \in Tracks \ {t} : status'[p] = status[p])
      /\ Target \in LBAs /\ ~ltp[Target].valid /\ Target' = Target
      /\ \A l \in LBAs \ {Target} : ltp'[l] = ltp[l]
      /\ pc' = "store" /\ UNCHANGED <<hash, refs, lba_list>>
  BY BookFacts
<1>2. BlocksInv /\ fi \in Nat /\ fi # 0
  BY PlainBasics DEF PlainInv
<1>3. Unstored' = Unstored /\ OnTracks' = OnTracks
  BY <1>2 DEF Unstored, OnTracks, Waiting
<1>4. \A j : Owners(j)' = Owners(j)
  BY DEF Owners
<1>5. /\ \A j \in Unstored \cup OnTracks : j \in BufIndex
      /\ \A j \in BufIndex : /\ Len(buf[j].lba) \in Nat
                             /\ \A a \in 1 .. Len(buf[j].lba) : buf[j].lba[a] \in LBAs
  <2>1. fi \in 0 .. BufNum /\ BufNum \in Nat /\ buf \in [BufIndex -> BufferBlocks]
    BY PlainBasics
  <2>2. \A j \in Unstored \cup OnTracks : j \in BufIndex
    BY <1>2, <2>1 DEF Unstored, OnTracks, Waiting, BufIndex
  <2>3. \A j \in BufIndex : buf[j].lba \in Seq(LBAs)
    BY <2>1 DEF BufferBlocks
  <2>4. QED
    BY <2>2, <2>3, ElementOfSeq, LenProperties
<1>6. ASSUME NEW j \in Unstored PROVE InBufferOnly(j)'
  <2>1. InBufferOnly(j)
    BY <1>2 DEF BlocksInv
  <2>2. \A l \in Owners(j) : l \in LBAs
    BY <1>5 DEF Owners, SeqToSet
  <2>3. \A l \in Owners(j) : (~ltp'[l].valid /\ ~ltp'[l].trim) \/ l = Target
    BY <1>1, <2>1, <2>2 DEF InBufferOnly
  <2>4. QED
    BY <1>1, <1>4, <2>1, <2>3 DEF InBufferOnly
<1>7. ASSUME NEW j \in OnTracks PROVE \E p \in Tracks : StoredAt(j, p)'
  <2>1. PICK p \in Tracks : StoredAt(j, p)
    BY <1>2 DEF BlocksInv
  <2>2. p # t
    BY <2>1 DEF StoredAt
  <2>3. \A a \in 1 .. Len(buf[j].lba) : buf[j].lba[a] \in LBAs \ {Target}
    <3> SUFFICES ASSUME NEW a \in 1 .. Len(buf[j].lba) PROVE buf[j].lba[a] \in LBAs \ {Target}
      OBVIOUS
    <3>1. ltp[buf[j].lba[a]].valid
      BY <2>1 DEF StoredAt, Mapped
    <3>2. QED
      BY <1>1, <1>5, <3>1
  <2>4. StoredAt(j, p)'
    BY <1>1, <2>1, <2>2, <2>3 DEF StoredAt, Mapped
  <2>5. QED
    BY <2>4
<1>8. QED
  BY <1>2, <1>3, <1>4, <1>6, <1>7 DEF BlocksInv

LEMMA AllocatePlain ==
  ASSUME NewIInv, PlainInv, NewAllocate
  PROVE  PlainInv'
<1>1. /\ pc = "alloc" /\ AllocUnchanged /\ UNCHANGED <<buf, used, fi, after, buffer_flushed>>
      /\ \/ \E t \in Tracks : status[t] = "free" /\ Book(t)
         \/ /\ UNCHANGED <<status, ltp, cur>>
            /\ \/ pc' \in {"alloc", "disk_full"}
               \/ pc' = "undefined" /\ TRUE \in OutOfBounds
  BY AllocateMoves
<1>2. /\ TypeOK /\ ~cur.pass /\ Booked = {} /\ fi \in Nat /\ buffer_flushed \in BOOLEAN
      /\ cur.n = 1 /\ cur.i = 0
  BY <1>1, PlainBasics DEF PlainInv, BookedInv
<1>3. /\ fi > 0 => ~buffer_flushed /\ after = NoInstruction /\ fi # 0
      /\ fi = 0 => buffer_flushed /\ after = NoInstruction /\ used = 0
  <2>1. fi = 0 => zinfo.phases > 1
    <3>1. fi = 0 => zinfo.phases # 1
      BY <1>1 DEF NewIInv, TurnInv
    <3>2. zinfo.phases \in 1 .. 4
      BY <1>2 DEF TypeOK, Allocators
    <3>3. QED
      BY <3>1, <3>2
  <2>2. QED
    BY <1>1, <2>1 DEF PlainInv, InstructionInv, BlocksInv, NewIInv, TurnInv
<1>4. StoreInv
  BY <1>3 DEF PlainInv, SettledInv, Reflushing
<1>5. StoreInv'
  BY <1>1, <1>2, <1>4, MovesOnStore
<1>6. SettledInv'
  BY <1>1, <1>3, <1>5 DEF SettledInv, Reflushing
<1>7. fi = 0 => BlocksInv'
  BY <1>1, <1>3, BufferGone
<1>8. CASE \E t \in Tracks : status[t] = "free" /\ Book(t)
  <2>1. PICK t \in Tracks : status[t] = "free" /\ Book(t)
    BY <1>8
  <2>2. /\ Booked' = {t} /\ refs'[t] = 0
        /\ pc' = "store" /\ cur'.pba = t /\ ~cur'.pass /\ cur'.lba = cur.lba
        /\ cur'.hash = cur.hash /\ cur'.n = cur.n /\ cur'.i = cur.i
    BY <1>1, <1>4, <2>1, BookFacts
  <2>3. BlocksInv'
    BY <1>1, <1>2, <1>3, <1>4, <1>7, <2>1, BookBlocks
  <2>4. BookedInv'
    BY <2>2 DEF BookedInv
  <2>5. InstructionInv'
    <3>1. CASE fi = 0
      BY <1>1, <1>2, <1>3, <2>2, <3>1 DEF InstructionInv, instruction
    <3>2. CASE fi > 0
      <4>1. /\ cur.lba = buf[fi].lba[1] /\ cur.hash = buf[fi].hash
        BY <3>2 DEF PlainInv, InstructionInv
      <4>2. QED
        BY <1>1, <1>2, <1>3, <2>2, <3>2, <4>1 DEF InstructionInv, instruction, NoInstruction
    <3>3. QED
      BY <1>2, <3>1, <3>2
  <2>6. QED
    BY <1>6, <2>3, <2>4, <2>5 DEF PlainInv
<1>9. CASE /\ UNCHANGED <<status, ltp, cur>>
           /\ pc' \in {"alloc", "disk_full", "undefined"}
  <2>1. Booked' = {} /\ UNCHANGED blocks
    BY <1>1, <1>2, <1>9 DEF Booked, blocks, AllocUnchanged
  <2>2. BlocksInv'
    BY <1>1, <1>2, <1>3, <1>7, <1>9, <2>1, BlocksSame DEF PlainInv
  <2>3. BookedInv'
    BY <1>2, <1>9, <2>1 DEF BookedInv
  <2>4. InstructionInv'
    BY <1>1, <1>2, <1>3, <1>9 DEF PlainInv, InstructionInv, instruction
  <2>5. QED
    BY <1>6, <2>2, <2>3, <2>4 DEF PlainInv
<1>10. QED
  BY <1>1, <1>8, <1>9

-----------------------------------------------------------------------------
(* buffer_flush.                                                           *)

LEMMA InRunning ==
  ASSUME NEW x, x \in {"search", "alloc", "store"}
  PROVE  x \in Running
  BY DEF Running

(* A flush of blocks that are in the buffer only.                          *)
LEMMA FirstRound ==
  ASSUME NewIInv, PlainInv, fi > 0, ~buffer_flushed, pc \in {"search", "alloc", "store"}
  PROVE  /\ fi \in Unstored /\ InBufferOnly(fi) /\ BlocksInv /\ StoreInv /\ after = NoInstruction
         /\ Target \in LBAs /\ Target = buf[fi].lba[1] /\ Target \in Owners(fi)
         /\ cur.hash = buf[fi].hash /\ cur.hash \in Hashes /\ ~cur.pass
         /\ Unstored = fi .. BufNum /\ OnTracks = 1 .. fi - 1
         /\ pc = "search" => ~ltp[Target].valid /\ ~ltp[Target].trim
         /\ pc = "store" => cur.pba \in Booked
<1>1. /\ fi \in BufIndex /\ buf[fi].lba \in Seq(LBAs) /\ Len(buf[fi].lba) \in Nat
      /\ Len(buf[fi].lba) > 0 /\ cur.hash \in Hashes /\ Target \in LBAs /\ Target = cur.lba
  BY InRunning, FlushBasics
<1>2. /\ BlocksInv /\ StoreInv /\ cur.lba = buf[fi].lba[1] /\ cur.hash = buf[fi].hash /\ ~cur.pass
      /\ after = NoInstruction /\ (pc = "store" => cur.pba \in Booked)
  BY DEF PlainInv, SettledInv, Reflushing, InstructionInv, NewIInv, TurnInv
<1>3. Unstored = fi .. BufNum /\ OnTracks = 1 .. fi - 1 /\ fi \in fi .. BufNum
  <2>1. fi \in Nat /\ BufNum \in Nat /\ fi <= BufNum
    BY <1>1, BufferBounds DEF BufIndex
  <2>2. fi # 0
    BY <2>1
  <2>3. QED
    BY <2>1, <2>2 DEF Unstored, OnTracks, Waiting
<1>4. InBufferOnly(fi)
  BY <1>2, <1>3 DEF BlocksInv
<1>5. Target \in Owners(fi)
  <2>1. 1 \in 1 .. Len(buf[fi].lba)
    BY <1>1
  <2>2. QED
    BY <1>1, <1>2, <2>1 DEF Owners, SeqToSet
<1>6. pc = "search" => ~ltp[Target].valid /\ ~ltp[Target].trim
  BY <1>4, <1>5 DEF InBufferOnly
<1>7. QED
  BY <1>1, <1>2, <1>3, <1>4, <1>5, <1>6

(* A flush of blocks that are on tracks.                                   *)
LEMMA LastRound ==
  ASSUME NewIInv, PlainInv, Reflushing, pc \in Running
  PROVE  /\ pc \in {"search", "store"} /\ OnTracks = BufIndex /\ Unstored = {} /\ BlocksInv
         /\ (\A p \in Tracks : Settled(p)) /\ EntriesInv /\ WriteInv
         /\ Target \in LBAs /\ Target = buf[fi].lba[1] /\ cur.hash = buf[fi].hash
         /\ cur.hash \in Hashes /\ ~cur.pass /\ fi \in BufIndex
         /\ \E p \in Tracks : /\ StoredAt(fi, p) /\ ltp[Target] = Mapped(p, cur.hash)
                              /\ pc = "store" => cur.pba = p
<1>1. /\ fi \in BufIndex /\ buf[fi].lba \in Seq(LBAs) /\ Len(buf[fi].lba) \in Nat
      /\ Len(buf[fi].lba) > 0 /\ cur.hash \in Hashes /\ Target \in LBAs /\ Target = cur.lba
  BY FlushBasics DEF Reflushing
<1>2. /\ BlocksInv /\ cur.lba = buf[fi].lba[1] /\ cur.hash = buf[fi].hash /\ ~cur.pass
      /\ (\A p \in Tracks : Settled(p)) /\ EntriesInv /\ WriteInv /\ pc \in {"search", "store"}
  BY DEF PlainInv, SettledInv, Reflushing, InstructionInv
<1>3. OnTracks = BufIndex /\ Unstored = {}
  BY DEF Reflushing, OnTracks, Unstored
<1>4. PICK p \in Tracks : StoredAt(fi, p)
  BY <1>1, <1>2, <1>3 DEF BlocksInv
<1>5. ltp[Target] = Mapped(p, cur.hash)
  <2>1. 1 \in 1 .. Len(buf[fi].lba)
    BY <1>1
  <2>2. QED
    BY <1>1, <1>2, <1>4, <2>1 DEF StoredAt
<1>6. pc = "store" => cur.pba = p
  BY <1>2, <1>5 DEF WriteInv, Mapped
<1>7. QED
  BY <1>1, <1>2, <1>3, <1>4, <1>5, <1>6

LEMMA FlushTurnFacts ==
  ASSUME NewIInv, PlainInv, FlushTurn
  PROVE  /\ fi > 0 /\ pc = "search" /\ pc \in Running /\ Booked = {}
         /\ IF buffer_flushed THEN Present(Target) /\ ~ltp[Target].trim ELSE NeverWritten(Target)
<1>1. fi > 0 /\ pc = "search" /\ pc \in Running
  BY DEF FlushTurn, Searching, Running
<1>2. Booked = {}
  BY <1>1 DEF PlainInv, BookedInv
<1>3. CASE ~buffer_flushed
  <2>1. ~ltp[Target].valid /\ ~ltp[Target].trim
    BY <1>1, <1>3, FirstRound
  <2>2. QED
    BY <1>1, <1>2, <1>3, <2>1 DEF NeverWritten, Deleted, Present, ValidInUse
<1>4. CASE buffer_flushed
  <2>1. PICK p \in Tracks : StoredAt(fi, p) /\ ltp[Target] = Mapped(p, cur.hash)
    BY <1>1, <1>4, LastRound DEF Reflushing
  <2>2. Present(Target) /\ ~ltp[Target].trim
    BY <2>1 DEF StoredAt, Mapped, Present, ValidInUse
  <2>3. QED
    BY <1>1, <1>2, <1>4, <2>2
<1>5. QED
  BY <1>3, <1>4

LEMMA RestoreNever ==
  ASSUME NewIInv, PlainInv
  PROVE  ~FlushRestore /\ ~FlushJoin
<1>1. ~FlushRestore
  BY FlushTurnFacts DEF FlushRestore, NeverWritten, Present, Deleted
<1>2. ~FlushJoin
  BY DEF FlushJoin, PlainInv, InstructionInv
<1>3. QED
  BY <1>1, <1>2

LEMMA FlushNewPlain ==
  ASSUME NewIInv, PlainInv, FlushNew
  PROVE  PlainInv'
<1>1. FlushTurn /\ NeverWritten(Target) /\ pc' = "alloc"
      /\ UNCHANGED <<blocks, ltp, zinfo, cur, buf, used, fi, after, buffer_flushed>>
  BY DEF FlushNew, newVars, codeVars
<1>2. fi > 0 /\ pc = "search" /\ ~buffer_flushed /\ Booked = {}
  BY <1>1, FlushTurnFacts DEF NeverWritten
<1>3. /\ BlocksInv /\ StoreInv /\ EntriesInv /\ after = NoInstruction /\ Target \in LBAs /\ ~cur.pass
      /\ cur.hash \in Hashes /\ ~ltp[Target].valid /\ ~ltp[Target].trim
      /\ \A p \in Tracks : Settled(p)
  BY <1>2, FirstRound, AllSettled DEF StoreInv
<1>4. /\ EntriesInv' /\ Booked' = {} /\ \A p \in Tracks : Settled(p)'
  BY <1>1, <1>2, <1>3, DiskSame
<1>5. Target' = Target
  BY <1>1 DEF Target
<1>6. WriteInv'
  BY <1>1, <1>3, <1>5 DEF WriteInv, Stopped
<1>7. StoreInv'
  BY <1>1, <1>4, <1>6 DEF StoreInv, TracksInv, UnderWay
<1>8. BlocksInv'
  BY <1>1, <1>2, <1>3, BlocksSame
<1>9. BookedInv'
  BY <1>1, <1>3, <1>4 DEF BookedInv
<1>10. InstructionInv'
  BY <1>1, <1>2, <1>3 DEF PlainInv, InstructionInv, instruction
<1>11. QED
  BY <1>1, <1>2, <1>7, <1>8, <1>9, <1>10 DEF PlainInv, SettledInv, Reflushing

(* An update in place: the block's first owner is mapped as it was.        *)
LEMMA UpdatedInPlace ==
  ASSUME NewIInv, PlainInv, FlushUpdate, UpdateInPlace
  PROVE  PlainInv'
<1>1. /\ FlushTurn /\ (Present(Target) \/ Deleted(Target))
      /\ UNCHANGED <<blocks, zinfo, buf, used, fi, after, buffer_flushed>>
  BY DEF FlushUpdate, UpdateInPlace, newVars, codeVars
<1>2. fi > 0 /\ pc = "search" /\ pc \in Running /\ Reflushing /\ Booked = {}
  BY <1>1, FlushTurnFacts DEF NeverWritten, Reflushing
<1>3. /\ BlocksInv /\ EntriesInv /\ Target \in LBAs /\ ~cur.pass /\ cur.hash \in Hashes
      /\ (\A p \in Tracks : Settled(p)) /\ TypeOK /\ cur \in Instructions
      /\ cur.lba = buf[fi].lba[1] /\ cur.hash = buf[fi].hash
  BY <1>2, LastRound, PlainBasics
<1>4. PICK p \in Tracks : ltp[Target] = Mapped(p, cur.hash)
  BY <1>2, LastRound
<1>5. ltp' = [ltp EXCEPT ![Target] = Mapped(p, cur.hash)] /\ Found(p, cur.pass)
  BY <1>4 DEF UpdateInPlace, Mapped
<1>6. ltp' = ltp
  BY <1>3, <1>4, <1>5 DEF TypeOK
<1>7. /\ pc' = "store" /\ cur'.pba = p /\ ~cur'.pass /\ cur'.lba = cur.lba /\ cur'.hash = cur.hash
      /\ cur'.i = cur.i /\ cur'.n = cur.n
  BY <1>3, <1>5 DEF Found, Instructions
<1>8. /\ EntriesInv' /\ Booked' = {} /\ \A q \in Tracks : Settled(q)'
  BY <1>1, <1>2, <1>3, <1>6, DiskSame
<1>9. Target' = Target
  BY <1>7 DEF Target
<1>10. WriteInv'
  BY <1>3, <1>4, <1>6, <1>7, <1>9 DEF WriteInv, Stopped
<1>11. BlocksInv'
  BY <1>1, <1>2, <1>3, <1>6, BlocksSame
<1>12. BookedInv'
  BY <1>7, <1>8 DEF BookedInv
<1>13. InstructionInv'
  <2>1. Reflushing' /\ instruction' = instruction
    BY <1>1, <1>2 DEF Reflushing, instruction
  <2>2. after # NoInstruction => PlainTarget(after.lba, after.hash)'
    <3>1. PICK l, h : l = after.lba /\ h = after.hash
      OBVIOUS
    <3>2. after # NoInstruction => PlainTarget(l, h)
      BY <3>1 DEF PlainInv, InstructionInv
    <3>3. PlainTarget(l, h) => PlainTarget(l, h)'
      BY <1>1, <1>6 DEF PlainTarget, blocks
    <3>4. after'.lba = l /\ after'.hash = h
      BY <1>1, <3>1
    <3>5. QED
      BY <3>2, <3>3, <3>4 DEF PlainTarget
  <2>3. QED
    BY <1>1, <1>2, <1>3, <1>7, <2>1, <2>2 DEF PlainInv, InstructionInv, Reflushing
<1>14. QED
  BY <1>1, <1>2, <1>8, <1>10, <1>11, <1>12, <1>13 DEF PlainInv, SettledInv, Reflushing

(* What a swap during a flush starts from.                                 *)
LEMMA SwapBegins ==
  ASSUME NewIInv, PlainInv, FlushUpdate, UpdateSwapped
  PROVE  /\ Reflushing /\ pc = "search" /\ PlainSearch /\ Booked = {}
         /\ \E b, t \in Tracks :
              /\ Exchanged(b, t) /\ StoredAt(fi, b) /\ ltp[Target] = Mapped(b, cur.hash)
              /\ status[b] = "in_use" /\ Lists(b, 1, {}) /\ lba_list[b][1] = Target
              /\ \A m \in LBAs : Owner(m, b) => m = Target
<1>1. FlushTurn /\ (Present(Target) \/ Deleted(Target))
  BY DEF FlushUpdate
<1>2. fi > 0 /\ pc = "search" /\ pc \in Running /\ Reflushing /\ Booked = {}
      /\ Present(Target) /\ ~ltp[Target].trim
  BY <1>1, FlushTurnFacts DEF NeverWritten, Reflushing
<1>3. Target \in LBAs /\ TypeOK /\ \A p \in Tracks : Settled(p)
  BY <1>2, LastRound, PlainBasics
<1>4. refs[ltp[Target].pba] = 0
  BY DEF UpdateSwapped
<1>5. PlainTarget(Target, cur.hash)
  BY <1>2, <1>3, <1>4 DEF PlainTarget, Present, ValidInUse
<1>6. PlainSearch
  BY <1>2, <1>5, NewSearchFacts
<1>7. PICK b, t \in Tracks : Exchanged(b, t)
  BY <1>2, <1>6, SwapExchanges DEF NeverWritten
<1>8. StoredAt(fi, b) /\ ltp[Target] = Mapped(b, cur.hash)
  <2>1. PICK p \in Tracks : StoredAt(fi, p) /\ ltp[Target] = Mapped(p, cur.hash)
    BY <1>2, LastRound
  <2>2. b = p
    BY <1>7, <2>1 DEF Exchanged, Mapped
  <2>3. QED
    BY <2>1, <2>2
<1>9. PICK l \in LBAs : l = Target
  BY <1>3
<1>10. Owner(l, b) /\ refs[b] = 0
  BY <1>4, <1>8, <1>9 DEF Owner, Mapped
<1>11. status[b] = "in_use" /\ Lists(b, 1, {})
  BY <1>3, <1>10, OwnerInUse
<1>12. lba_list[b][1] = l /\ \A m \in LBAs : Owner(m, b) => m = l
  BY <1>3, <1>10, <1>11, OnlyOwner
<1>13. QED
  BY <1>2, <1>6, <1>7, <1>8, <1>9, <1>11, <1>12

(* An entry that is led to another track.                                  *)
LEMMA Remapped ==
  ASSUME TypeOK, NEW l \in LBAs, NEW q \in Tracks, NEW h,
         ltp[l].hash = h, ltp[l].valid = TRUE, ltp[l].trim = FALSE
  PROVE  [ltp[l] EXCEPT !.pba = q] = Mapped(q, h)
<1>1. ltp[l] \in Entries
  BY DEF TypeOK
<1>2. PICK e : e = [ltp[l] EXCEPT !.pba = q]
  OBVIOUS
<1>3. e \in Entries /\ e.pba = q /\ e.hash = h /\ e.valid = TRUE /\ e.trim = FALSE
  BY <1>1, <1>2 DEF Entries
<1>4. e = [pba |-> e.pba, hash |-> e.hash, valid |-> e.valid, trim |-> e.trim]
  BY <1>3 DEF Entries
<1>5. QED
  BY <1>2, <1>3, <1>4 DEF Mapped

(* A block on a track follows the swap.                                    *)
LEMMA StoredSwapped ==
  ASSUME TypeOK, EntriesInv, pc = "search", NEW b \in Tracks, NEW t \in Tracks, Exchanged(b, t),
         status[b] = "in_use", ltp[Target] = Mapped(b, cur.hash),
         lba_list[b][1] = Target, \A m \in LBAs : Owner(m, b) => m = Target,
         NEW j \in BufIndex, NEW p \in Tracks, StoredAt(j, p), buf' = buf,
         buf[j].lba \in Seq(LBAs), Len(buf[j].lba) > 0, Target \in LBAs
  PROVE  \E q \in Tracks : StoredAt(j, q)'
<1>1. PICK own \in Seq(LBAs) : own = buf[j].lba
  OBVIOUS
<1>2. PICK h : h = buf[j].hash
  OBVIOUS
<1>3. Len(own) \in Nat /\ Len(own) > 0 /\ (\A a \in 1 .. Len(own) : own[a] \in LBAs)
      /\ 1 \in 1 .. Len(own)
  BY <1>1, LenProperties, ElementOfSeq
<1>4. /\ status[p] = "in_use" /\ hash[p] = h /\ refs[p] = Len(own) - 1
      /\ \A a \in 1 .. Len(own) : lba_list[p][a] = own[a] /\ ltp[own[a]] = Mapped(p, h)
  BY <1>1, <1>2 DEF StoredAt
<1>5. PICK l \in LBAs : l = Target
  OBVIOUS
<1>6. /\ b # t /\ refs[b] = 0 /\ ltp'[l] = Mapped(t, cur.hash) /\ status[t] = "in_use"
      /\ \A q \in Tracks \ {b, t} : /\ status'[q] = status[q] /\ hash'[q] = hash[q]
                                    /\ refs'[q] = refs[q] /\ lba_list'[q] = lba_list[q]
      /\ status'[b] = "in_use" /\ hash'[b] = hash[t] /\ refs'[b] = refs[t]
      /\ lba_list'[b] = lba_list[t]
      /\ status'[t] = status[t] /\ hash'[t] = hash[b] /\ refs'[t] = 0 /\ lba_list'[t] = lba_list[b]
      /\ \A m \in LBAs \ {l} :
           /\ ltp[m].valid => ltp'[m] = IF Owner(m, t) THEN [ltp[m] EXCEPT !.pba = b] ELSE ltp[m]
           /\ ltp[m].pba # b /\ ~Owner(m, t) => ltp'[m] = ltp[m]
  BY <1>5 DEF Exchanged
<1>7. ltp[l] = Mapped(b, cur.hash) /\ hash[b] = cur.hash
  <2>1. ltp[l] = Mapped(b, cur.hash)
    BY <1>5
  <2>2. ltp[l].valid /\ ltp[l].pba = b /\ ltp[l].hash = cur.hash
    BY <2>1 DEF Mapped
  <2>3. QED
    BY <2>1, <2>2 DEF EntriesInv
<1>8. CASE p = b
  <2>1. Len(own) = 1 /\ own[1] = l
    <3>0. PICK k \in Nat : k = Len(own)
      BY <1>3
    <3>1. Len(own) = 1
      <4>1. k - 1 = 0
        BY <1>4, <1>6, <1>8, <3>0
      <4>2. k = 1
        BY <4>1
      <4>3. QED
        BY <3>0, <4>2
    <3>2. lba_list[b][1] = own[1]
      BY <1>3, <1>4, <1>8
    <3>3. QED
      BY <1>5, <3>1, <3>2
  <2>2. h = cur.hash
    BY <1>4, <1>7, <1>8
  <2>3. \A a \in 1 .. Len(own) : a = 1
    BY <2>1
  <2>4. /\ status'[t] = "in_use" /\ hash'[t] = h /\ refs'[t] = Len(own) - 1
        /\ \A a \in 1 .. Len(own) : lba_list'[t][a] = own[a] /\ ltp'[own[a]] = Mapped(t, h)
    BY <1>4, <1>6, <1>8, <2>1, <2>2, <2>3
  <2>5. StoredAt(j, t)'
    BY <1>1, <1>2, <2>4 DEF StoredAt
  <2>6. QED
    BY <2>5
<1>9. CASE p = t
  <2>1. ASSUME NEW a \in 1 .. Len(own)
        PROVE  lba_list'[b][a] = own[a] /\ ltp'[own[a]] = Mapped(b, h)
    <3>1. PICK m \in LBAs : m = own[a] /\ ltp[m] = Mapped(t, h) /\ lba_list[t][a] = m
      BY <1>3, <1>4, <1>9
    <3>2. m # l
      BY <1>6, <1>7, <3>1 DEF Mapped
    <3>3. ltp[m].valid /\ Owner(m, t)
      BY <3>1 DEF Owner, Mapped
    <3>4. ltp'[m] = [ltp[m] EXCEPT !.pba = b]
      BY <1>6, <3>2, <3>3
    <3>5. ltp[m].hash = h /\ ltp[m].valid = TRUE /\ ltp[m].trim = FALSE
      BY <3>1 DEF Mapped
    <3>6. ltp'[m] = Mapped(b, h)
      BY <3>4, <3>5, Remapped
    <3>7. QED
      BY <1>6, <3>1, <3>6
  <2>2. StoredAt(j, b)'
    BY <1>1, <1>2, <1>4, <1>6, <1>9, <2>1 DEF StoredAt
  <2>3. QED
    BY <2>2
<1>10. CASE p # b /\ p # t
  <2>1. ASSUME NEW a \in 1 .. Len(own)
        PROVE  lba_list'[p][a] = own[a] /\ ltp'[own[a]] = Mapped(p, h)
    <3>1. PICK m \in LBAs : m = own[a] /\ ltp[m] = Mapped(p, h) /\ lba_list[p][a] = m
      BY <1>3, <1>4
    <3>2. m # l
      BY <1>7, <1>10, <3>1 DEF Mapped
    <3>3. ltp[m].pba # b /\ ~Owner(m, t)
      BY <1>10, <3>1 DEF Owner, Mapped
    <3>4. ltp'[m] = ltp[m]
      BY <1>6, <3>2, <3>3
    <3>5. QED
      BY <1>6, <1>10, <3>1, <3>4
  <2>2. StoredAt(j, p)'
    BY <1>1, <1>2, <1>4, <1>6, <1>10, <2>1 DEF StoredAt
  <2>3. QED
    BY <2>2
<1>11. QED
  BY <1>8, <1>9, <1>10

(* So does what a write that waits for the flush to end is about.          *)
LEMMA TargetSwapped ==
  ASSUME TypeOK, EntriesInv, NEW b \in Tracks, NEW t \in Tracks, Exchanged(b, t),
         status[b] = "in_use", pc = "search", ltp[Target] = Mapped(b, cur.hash),
         \A m \in LBAs : Owner(m, b) => m = Target,
         NEW l, NEW h, PlainTarget(l, h), Target \in LBAs
  PROVE  PlainTarget(l, h)'
<1>1. l \in LBAs
  BY DEF PlainTarget
<1>2. PICK g \in LBAs : g = Target
  OBVIOUS
<1>3. /\ b # t /\ ltp'[g] = Mapped(t, cur.hash) /\ status[t] = "in_use"
      /\ \A q \in Tracks \ {b, t} : status'[q] = status[q] /\ refs'[q] = refs[q]
      /\ refs'[b] = refs[t] /\ refs'[t] = 0
      /\ \A m \in LBAs \ {g} :
           /\ ltp'[m].valid = ltp[m].valid /\ ltp'[m].trim = ltp[m].trim
           /\ ltp[m].valid => ltp'[m] = IF Owner(m, t) THEN [ltp[m] EXCEPT !.pba = b] ELSE ltp[m]
           /\ ltp[m].pba # b /\ ~Owner(m, t) => ltp'[m] = ltp[m]
  BY <1>2 DEF Exchanged
<1>4. ltp[l].pba \in Tracks /\ ltp[l].valid \in BOOLEAN
  BY <1>1, EntryType
<1>5. ltp[g].valid /\ ~ltp[g].trim
  BY <1>2 DEF Mapped
<1>6. CASE l = g
  <2>1. ltp'[l].valid /\ ~ltp'[l].trim /\ ltp'[l].pba = t
    BY <1>3, <1>6 DEF Mapped
  <2>2. QED
    BY <1>1, <1>3, <2>1 DEF PlainTarget
<1>7. CASE l # g /\ ltp[l].trim /\ h # ltp[l].hash /\ status[ltp[l].pba] = "trimed"
  <2>1. ~ltp[l].valid
    BY <1>1, <1>7 DEF EntriesInv
  <2>2. ltp[l].pba # b /\ ltp[l].pba # t
    BY <1>3, <1>7
  <2>3. ltp'[l] = ltp[l] /\ status'[ltp[l].pba] = status[ltp[l].pba]
    BY <1>1, <1>3, <1>4, <1>7, <2>1, <2>2 DEF Owner
  <2>4. QED
    BY <1>1, <1>7, <2>3 DEF PlainTarget
<1>8. CASE l # g /\ ~ltp[l].trim /\ ltp[l].valid /\ refs[ltp[l].pba] = 0
  <2>1. ltp'[l].valid /\ ~ltp'[l].trim
    BY <1>1, <1>3, <1>8
  <2>2. CASE Owner(l, t)
    <3>1. ltp'[l] = [ltp[l] EXCEPT !.pba = b] /\ refs[t] = 0
      BY <1>1, <1>3, <1>8, <2>2 DEF Owner
    <3>2. ltp[l] \in Entries
      BY <1>1 DEF TypeOK
    <3>3. ltp'[l].pba = b
      BY <3>1, <3>2 DEF Entries
    <3>4. refs'[ltp'[l].pba] = 0
      BY <1>3, <3>1, <3>3
    <3>5. QED
      BY <1>1, <2>1, <3>4 DEF PlainTarget
  <2>3. CASE ~Owner(l, t)
    <3>1. ltp'[l] = ltp[l]
      BY <1>1, <1>3, <1>8, <2>3
    <3>2. ltp[l].pba # b /\ ltp[l].pba # t
      BY <1>1, <1>2, <1>8, <2>3 DEF Owner
    <3>3. refs'[ltp'[l].pba] = 0
      BY <1>3, <1>4, <1>8, <3>1, <3>2
    <3>4. QED
      BY <1>1, <2>1, <3>3 DEF PlainTarget
  <2>4. QED
    BY <2>2, <2>3
<1>9. CASE l # g /\ ~ltp[l].trim /\ ~ltp[l].valid
  <2>1. ~ltp'[l].valid /\ ~ltp'[l].trim
    BY <1>1, <1>3, <1>9
  <2>2. QED
    BY <1>1, <2>1 DEF PlainTarget
<1>10. QED
  BY <1>6, <1>7, <1>8, <1>9 DEF PlainTarget

LEMMA UpdatedSwapped ==
  ASSUME NewIInv, PlainInv, FlushUpdate, UpdateSwapped
  PROVE  PlainInv'
<1>1. /\ Reflushing /\ pc = "search" /\ pc \in Running /\ PlainSearch /\ Booked = {}
      /\ \E b, t \in Tracks :
           /\ Exchanged(b, t) /\ StoredAt(fi, b) /\ ltp[Target] = Mapped(b, cur.hash)
           /\ status[b] = "in_use" /\ Lists(b, 1, {}) /\ lba_list[b][1] = Target
           /\ \A m \in LBAs : Owner(m, b) => m = Target
  BY SwapBegins, InRunning
<1>2. PICK b, t \in Tracks :
           /\ Exchanged(b, t) /\ StoredAt(fi, b) /\ ltp[Target] = Mapped(b, cur.hash)
           /\ status[b] = "in_use" /\ Lists(b, 1, {}) /\ lba_list[b][1] = Target
           /\ \A m \in LBAs : Owner(m, b) => m = Target
  BY <1>1
<1>3. /\ BlocksInv /\ EntriesInv /\ Target \in LBAs /\ ~cur.pass /\ cur.hash \in Hashes
      /\ OnTracks = BufIndex /\ TypeOK /\ cur \in Instructions
      /\ buf \in [BufIndex -> BufferBlocks]
      /\ cur.lba = buf[fi].lba[1] /\ cur.hash = buf[fi].hash
  BY <1>1, LastRound, PlainBasics
<1>4. UNCHANGED <<zinfo, buf, used, fi, after, buffer_flushed>>
  BY DEF FlushUpdate, newVars, codeVars, UpdateSwapped
<1>5. Reflushing' /\ instruction' = instruction /\ OnTracks' = BufIndex /\ Unstored' = {}
  BY <1>1, <1>4 DEF Reflushing, instruction, OnTracks, Unstored
<1>6. PICK l \in LBAs : l = Target
  BY <1>3
<1>7. /\ Found(t, cur.pass) /\ ltp'[l] = Mapped(t, cur.hash) /\ pc' = "store" /\ Target' = Target
      /\ \A p \in Tracks \ {b, t} : status'[p] = status[p]
      /\ status'[b] = "in_use" /\ status'[t] = "in_use"
      /\ refs'[t] = 0 /\ lba_list'[t] = lba_list[b]
      /\ EntriesInv' /\ \A p \in Tracks \ {t} : Settled(p)'
      /\ \A m \in LBAs \ {l} : ~Owner(m, t)'
  BY <1>2, <1>6 DEF Exchanged
<1>8. /\ cur'.pba = t /\ ~cur'.pass /\ cur'.lba = cur.lba /\ cur'.hash = cur.hash
      /\ cur'.i = cur.i /\ cur'.n = cur.n
  BY <1>3, <1>7 DEF Found, Instructions
<1>9. Settled(t)'
  <2>1. Owner(l, t)'
    BY <1>7 DEF Owner, Mapped
  <2>2. lba_list'[t][1] = l /\ 1 <= Len(lba_list'[t])
    BY <1>2, <1>6, <1>7 DEF Lists
  <2>3. Lists(t, 1, {})'
    BY <1>7, <2>1, <2>2 DEF Lists
  <2>4. QED
    BY <1>7, <2>3 DEF Settled, Lists
<1>10. \A p \in Tracks : Settled(p)'
  BY <1>7, <1>9
<1>11. WriteInv'
  <2>1. ltp'[Target'] = Mapped(cur'.pba, cur'.hash)
    BY <1>6, <1>7, <1>8
  <2>2. QED
    BY <1>3, <1>7, <1>8, <2>1 DEF WriteInv, Stopped
<1>12. BlocksInv'
  <2>1. ASSUME NEW j \in BufIndex PROVE \E q \in Tracks : StoredAt(j, q)'
    <3>1. PICK p \in Tracks : StoredAt(j, p)
      BY <1>3 DEF BlocksInv
    <3>2. buf[j].lba \in Seq(LBAs)
      BY <1>3 DEF BufferBlocks
    <3>3. Len(buf[j].lba) > 0
      <4>1. buf[j].lba # <<>>
        BY DEF NewIInv, BufferInv
      <4>2. QED
        BY <3>2, <4>1, LenProperties, EmptySeq
    <3>4. QED
      BY <1>1, <1>2, <1>3, <1>4, <3>1, <3>2, <3>3, StoredSwapped
  <2>2. fi' # 0
    BY <1>1, <1>4 DEF Reflushing
  <2>3. QED
    BY <1>5, <2>1, <2>2 DEF BlocksInv
<1>13. BookedInv'
  <2>1. Booked' = {}
    BY <1>1, <1>7 DEF Booked
  <2>2. QED
    BY <1>7, <1>8, <2>1 DEF BookedInv
<1>14. InstructionInv'
  <2>1. after # NoInstruction => PlainTarget(after.lba, after.hash)'
    <3>1. PICK a, h : a = after.lba /\ h = after.hash
      OBVIOUS
    <3>2. after # NoInstruction => PlainTarget(a, h)
      BY <3>1 DEF PlainInv, InstructionInv
    <3>3. PlainTarget(a, h) => PlainTarget(a, h)'
      BY <1>1, <1>2, <1>3, TargetSwapped
    <3>4. after'.lba = a /\ after'.hash = h
      BY <1>4, <3>1
    <3>5. QED
      BY <3>2, <3>3, <3>4 DEF PlainTarget
  <2>2. QED
    BY <1>1, <1>3, <1>4, <1>5, <1>7, <1>8, <2>1 DEF PlainInv, InstructionInv, Reflushing
<1>15. QED
  BY <1>5, <1>7, <1>10, <1>11, <1>12, <1>13, <1>14 DEF PlainInv, SettledInv

LEMMA FlushUpdatePlain ==
  ASSUME NewIInv, PlainInv, FlushUpdate
  PROVE  PlainInv'
<1>1. UpdateInPlace \/ UpdateSwapped
  BY DEF FlushUpdate
<1>2. QED
  BY <1>1, UpdatedInPlace, UpdatedSwapped

(* Only the array of a booked track has to grow.                           *)
LEMMA FlushGrowPlain ==
  ASSUME NewIInv, PlainInv, FlushGrow
  PROVE  PlainInv'
<1>1. /\ fi > 0 /\ pc = "store" /\ Capacity(lba_list[cur.pba]) < NeededToStore
      /\ lba_list' = [lba_list EXCEPT ![cur.pba] = Increase(@)] /\ pc' = "store" /\ cur' = cur
      /\ UNCHANGED <<status, hash, refs, ltp, zinfo, buf, used, fi, after, buffer_flushed>>
      /\ pc \in Running
  BY DEF FlushGrow, PlainInv, InstructionInv, newVars, codeVars, Running
<1>2. ~buffer_flushed
  <2> SUFFICES ASSUME buffer_flushed PROVE FALSE
    OBVIOUS
  <2>1. PICK p \in Tracks : StoredAt(fi, p) /\ cur.pba = p /\ Settled(p)
    BY <1>1, LastRound DEF Reflushing
  <2>2. PICK n \in Nat : n = Len(buf[fi].lba)
    BY <1>1, FlushBasics
  <2>3. PICK k, c \in Nat : k = Len(lba_list[p]) /\ c = Capacity(lba_list[p]) /\ k <= c + 1
    BY <1>1, <2>1, FlushBasics, CapacityIs
  <2>4. status[p] = "in_use" /\ refs[p] = n - 1
    BY <2>1, <2>2 DEF StoredAt
  <2>5. Lists(p, refs[p] + 1, {})
    BY <2>1, <2>4 DEF Settled
  <2>6. refs[p] + 1 <= k
    BY <2>3, <2>5 DEF Lists
  <2>7. n <= k
    BY <2>2, <2>3, <2>4, <2>6
  <2>8. c < n - 1
    BY <1>1, <2>1, <2>2, <2>3 DEF NeededToStore
  <2>9. QED
    BY <2>2, <2>3, <2>7, <2>8
<1>3. /\ BlocksInv /\ StoreInv /\ Target \in LBAs /\ cur.pba \in Booked /\ fi # 0
      /\ TypeOK /\ cur.pba \in Tracks /\ after = NoInstruction /\ Unstored = fi .. BufNum
  BY <1>1, <1>2, FirstRound, PlainBasics
<1>4. PICK q \in Tracks : q = cur.pba /\ status[q] = "booked"
  BY <1>3 DEF Booked
<1>5. PICK s \in Seq(Cells) : s = lba_list[q] /\ Len(s) > 1
  BY <1>1, <1>4, FlushBasics
<1>6. PICK g : g = Increase(s) /\ lba_list'[q] = g
  BY <1>1, <1>3, <1>4, <1>5 DEF TypeOK
<1>7. /\ \A i \in 1 .. Len(g) : g[i] = IF i <= Len(s) THEN s[i] ELSE NoLba
      /\ Len(s) \in Nat /\ Len(g) \in Nat
  BY <1>5, <1>6, IncreaseCells
<1>8. \A p \in Tracks \ {q} : lba_list'[p] = lba_list[p]
  BY <1>1, <1>3, <1>4 DEF TypeOK
<1>9. Target' = Target
  BY <1>1 DEF Target
<1>10. TracksInv'
  <2>1. \A p \in Tracks \ {q} : Settled(p)
    BY <1>3, <1>4 DEF StoreInv, TracksInv, UnderWay
  <2>2. \A p \in Tracks \ {q} : Settled(p)'
    BY <1>1, <1>8, <2>1 DEF Settled, Vacated, Lists, Owner
  <2>3. ToWrite(q)
    BY <1>1, <1>3, <1>4 DEF StoreInv, TracksInv
  <2>4. ToWrite(q)'
    BY <1>1, <1>9, <2>3 DEF ToWrite, Owner
  <2>5. QED
    BY <1>1, <1>4, <2>2, <2>4 DEF TracksInv, UnderWay
<1>11. EntriesInv'
  <2>1. EntriesInv
    BY <1>3 DEF StoreInv
  <2>2. ASSUME NEW p \in Tracks, NEW i \in 1 .. Len(lba_list'[p]), lba_list'[p][i] \in LBAs
        PROVE  ltp'[lba_list'[p][i]].valid \/ ltp'[lba_list'[p][i]].trim
    <3>1. CASE p # q
      BY <1>1, <1>8, <2>1, <2>2, <3>1 DEF EntriesInv
    <3>2. CASE p = q
      <4>1. PICK m \in LBAs : m = g[i] /\ m = lba_list'[p][i]
        BY <1>6, <2>2, <3>2
      <4>2. i \in 1 .. Len(s) /\ m = s[i]
        BY <1>6, <1>7, <2>2, <3>2, <4>1, CellAssumption
      <4>3. ltp[m].valid \/ ltp[m].trim
        BY <1>5, <2>1, <4>2, CellKnown
      <4>4. QED
        BY <1>1, <4>1, <4>3
    <3>3. QED
      BY <3>1, <3>2
  <2>3. QED
    BY <1>1, <1>9, <2>1, <2>2 DEF EntriesInv
<1>12. WriteInv'
  BY <1>1, <1>3, <1>9 DEF StoreInv, WriteInv
<1>13. BlocksInv'
  <2>1. Unstored' = Unstored /\ OnTracks' = OnTracks /\ \A j : Owners(j)' = Owners(j)
    BY <1>1, <1>3 DEF Unstored, OnTracks, Waiting, Owners
  <2>2. \A j : InBufferOnly(j) => InBufferOnly(j)'
    BY <1>1, <1>9, <2>1 DEF InBufferOnly
  <2>3. \A j : \A p \in Tracks : StoredAt(j, p) => StoredAt(j, p)'
    <3>1. \A j : ~StoredAt(j, q)
      BY <1>4 DEF StoredAt
    <3>2. \A j : \A p \in Tracks \ {q} : StoredAt(j, p) => StoredAt(j, p)'
      BY <1>1, <1>8 DEF StoredAt
    <3>3. QED
      BY <3>1, <3>2
  <2>4. \A j \in OnTracks : \E p \in Tracks : StoredAt(j, p)'
    BY <1>3, <2>3 DEF BlocksInv
  <2>5. QED
    BY <1>1, <1>3, <2>1, <2>2, <2>4 DEF BlocksInv
<1>14. BookedInv'
  <2>1. Booked' = Booked
    BY <1>1 DEF Booked
  <2>2. QED
    BY <1>1, <2>1 DEF PlainInv, BookedInv
<1>15. InstructionInv'
  BY <1>1, <1>2, <1>3 DEF PlainInv, InstructionInv, instruction, Booked
<1>16. QED
  BY <1>1, <1>2, <1>10, <1>11, <1>12, <1>13, <1>14, <1>15
    DEF PlainInv, SettledInv, Reflushing, StoreInv

LEMMA StoredCells ==
  ASSUME NEW s \in Seq(Cells), Len(s) > 1, NEW own \in Seq(LBAs), Len(own) <= Capacity(s) + 1,
         NEW w, w = WithOwners(s, own)
  PROVE  /\ Len(w) \in Nat /\ Len(s) \in Nat /\ Len(own) \in Nat
         /\ Len(own) <= Len(w) /\ Len(s) <= Len(w) /\ (Len(own) <= Len(s) => Len(w) = Len(s))
         /\ \A i \in 1 .. Len(own) : w[i] = own[i] /\ own[i] \in LBAs
         /\ \A i \in 1 .. Len(w) : \/ i \in 1 .. Len(own)
                                   \/ IF i <= Len(s) THEN w[i] = s[i] ELSE w[i] = NoLba
<1>1. /\ Len(s) \in Nat /\ Len(own) \in Nat /\ Capacity(s) \in Nat
      /\ \A i \in 1 .. Len(own) : own[i] \in LBAs
  BY LenProperties, ElementOfSeq, CapacityIs
<1>2. /\ w \in Seq(Cells) /\ Len(w) \in Nat /\ Len(own) <= Len(w) /\ Len(s) <= Len(w)
      /\ \A i \in 1 .. Len(w) : w[i] = IF i <= Len(own) THEN own[i]
                                       ELSE IF i <= Len(s) THEN s[i] ELSE NoLba
  BY WithOwnersRefs
<1>3. ASSUME Len(own) <= Len(s) PROVE Len(w) = Len(s)
  <2>1. Reaching(s, Len(own)) = s
    BY <1>1, <1>3 DEF Reaching
  <2>2. w = [i \in 1 .. Len(s) |-> IF i <= Len(own) THEN own[i] ELSE s[i]]
    BY <2>1 DEF WithOwners
  <2>3. DOMAIN w = 1 .. Len(s) /\ DOMAIN w = 1 .. Len(w)
    BY <1>2, <2>2, LenProperties
  <2>4. QED
    BY <1>1, <1>2, <2>3
<1>4. \A i \in 1 .. Len(own) : i \in 1 .. Len(w) /\ i <= Len(own)
  BY <1>1, <1>2
<1>5. \A i \in 1 .. Len(own) : w[i] = own[i]
  BY <1>2, <1>4
<1>6. \A i \in 1 .. Len(w) : i <= Len(own) => i \in 1 .. Len(own)
  BY <1>1
<1>7. \A i \in 1 .. Len(w) : \/ i \in 1 .. Len(own)
                            \/ IF i <= Len(s) THEN w[i] = s[i] ELSE w[i] = NoLba
  BY <1>2, <1>6
<1>8. QED
  BY <1>1, <1>2, <1>3, <1>5, <1>7

(* What writing a block makes of its track and of its owners' entries.     *)
BlockWritten(q, own, h) ==
  /\ q = cur.pba /\ own = buf[fi].lba /\ h = cur.hash /\ h = buf[fi].hash /\ h \in Hashes
  /\ Len(own) \in Nat /\ Len(own) > 0 /\ Len(lba_list[q]) \in Nat
  /\ \A p \in Tracks \ {q} : /\ status'[p] = status[p] /\ hash'[p] = hash[p]
                             /\ refs'[p] = refs[p] /\ lba_list'[p] = lba_list[p]
  /\ status'[q] = "in_use" /\ hash'[q] = h /\ refs'[q] = Len(own) - 1
  /\ Len(lba_list'[q]) \in Nat /\ Len(own) <= Len(lba_list'[q])
  /\ Len(lba_list[q]) <= Len(lba_list'[q])
  /\ Len(own) <= Len(lba_list[q]) => Len(lba_list'[q]) = Len(lba_list[q])
  /\ \A i \in 1 .. Len(own) : lba_list'[q][i] = own[i] /\ own[i] \in LBAs
  /\ \A i \in 1 .. Len(lba_list'[q]) :
       \/ i \in 1 .. Len(own)
       \/ IF i <= Len(lba_list[q]) THEN lba_list'[q][i] = lba_list[q][i] ELSE lba_list'[q][i] = NoLba
  /\ \A l \in LBAs : ltp'[l] = IF l \in SeqToSet(own) THEN Mapped(q, h) ELSE ltp[l]

LEMMA FlushStoreFacts ==
  ASSUME NewIInv, PlainInv, FlushStore
  PROVE  /\ fi > 0 /\ pc = "store" /\ pc \in Running /\ NextBlock
         /\ UNCHANGED <<buf, buffer_flushed, zinfo>>
         /\ \E q \in Tracks, own \in Seq(LBAs), h \in Hashes : BlockWritten(q, own, h)
<1>1. /\ fi > 0 /\ pc = "store" /\ pc \in Running /\ NextBlock
      /\ UNCHANGED <<buf, buffer_flushed, zinfo>>
      /\ Storing
      /\ refs' = [refs EXCEPT ![cur.pba] = Len(buf[fi].lba) - 1]
      /\ hash' = [hash EXCEPT ![cur.pba] = cur.hash]
      /\ lba_list' = [lba_list EXCEPT ![cur.pba] = WithOwners(@, buf[fi].lba)]
      /\ MapAll(buf[fi].lba, cur.pba) /\ WriteTrack(cur.pba)
  BY DEF FlushStore, Storing, NextBlock, Running
<1>2. /\ TypeOK /\ buf[fi].lba \in Seq(LBAs) /\ Len(buf[fi].lba) \in Nat /\ Len(buf[fi].lba) > 0
      /\ cur.hash \in Hashes /\ cur.pba \in Tracks
      /\ lba_list[cur.pba] \in Seq(Cells) /\ Len(lba_list[cur.pba]) > 1
      /\ Len(buf[fi].lba) <= Capacity(lba_list[cur.pba]) + 1
  BY <1>1, FlushBasics, StoringBasics
<1>3. PICK q \in Tracks, own \in Seq(LBAs), h \in Hashes :
        q = cur.pba /\ own = buf[fi].lba /\ h = cur.hash
  BY <1>2
<1>4. h = buf[fi].hash
  BY <1>1, <1>3 DEF PlainInv, InstructionInv
<1>5. PICK s \in Seq(Cells) : s = lba_list[q] /\ Len(s) > 1
  BY <1>2, <1>3
<1>6. Len(own) <= Capacity(s) + 1
  BY <1>2, <1>3, <1>5
<1>7. PICK w : w = WithOwners(s, own)
  OBVIOUS
<1>8. /\ Len(w) \in Nat /\ Len(s) \in Nat /\ Len(own) \in Nat
      /\ Len(own) <= Len(w) /\ Len(s) <= Len(w) /\ (Len(own) <= Len(s) => Len(w) = Len(s))
      /\ \A i \in 1 .. Len(own) : w[i] = own[i] /\ own[i] \in LBAs
      /\ \A i \in 1 .. Len(w) : \/ i \in 1 .. Len(own)
                                \/ IF i <= Len(s) THEN w[i] = s[i] ELSE w[i] = NoLba
  BY <1>5, <1>6, <1>7, StoredCells
<1>9. lba_list' = [lba_list EXCEPT ![q] = w]
  BY <1>1, <1>3, <1>5, <1>7
<1>10. lba_list'[q] = w /\ \A p \in Tracks \ {q} : lba_list'[p] = lba_list[p]
  BY <1>2, <1>9 DEF TypeOK
<1>11. /\ refs'[q] = Len(own) - 1 /\ hash'[q] = h /\ status'[q] = "in_use"
       /\ \A p \in Tracks \ {q} : status'[p] = status[p] /\ hash'[p] = hash[p] /\ refs'[p] = refs[p]
  BY <1>1, <1>2, <1>3 DEF WriteTrack, TypeOK
<1>12. \A l \in LBAs : ltp'[l] = IF l \in SeqToSet(own) THEN Mapped(q, h) ELSE ltp[l]
  BY <1>1, <1>3 DEF MapAll
<1>13. BlockWritten(q, own, h)
  BY <1>2, <1>3, <1>4, <1>5, <1>6, <1>8, <1>10, <1>11, <1>12 DEF BlockWritten
<1>14. QED
  BY <1>1, <1>13

(* What comes after a block: the turn of the next one, or the end.         *)
LEMMA FlushNext ==
  ASSUME NewIInv, NewIInv', PlainInv, fi > 0, NextBlock
  PROVE  /\ buf' = buf /\ fi \in Nat /\ BufNum \in Nat /\ used' \in Nat
         /\ \/ /\ fi < BufNum /\ fi' = fi + 1 /\ used' = used /\ after' = after /\ pc' = "search"
               /\ cur'.lba = buf'[fi'].lba[1] /\ cur'.hash = buf'[fi'].hash /\ ~cur'.pass
               /\ cur'.hash \in Hashes /\ Target' \in LBAs
            \/ /\ fi = BufNum /\ fi' = 0 /\ used' = 0 /\ after' = NoInstruction
               /\ \/ after = NoInstruction /\ pc' = "idle" /\ cur' = NoInstruction
                  \/ after # NoInstruction /\ pc' = "search" /\ cur' = after
<1>1. NewTypeOK /\ BufferInv /\ TurnInv /\ fi \in Nat /\ BufNum \in Nat
  BY PlainBasics DEF NewIInv
<1>2. /\ buf' = buf /\ used' \in 0 .. BufNum
      /\ \/ /\ fi < BufNum /\ fi' = fi + 1 /\ used' = used /\ after' = after
            /\ pc' = "search"
         \/ /\ fi = BufNum /\ fi' = 0 /\ used' = 0 /\ after' = NoInstruction
            /\ \/ after = NoInstruction /\ pc' = "idle" /\ cur' = NoInstruction
               \/ after # NoInstruction /\ pc' = "search" /\ cur' = after
  BY <1>1, FlushGoesOn
<1>3. ASSUME fi < BufNum
      PROVE  /\ cur'.lba = buf'[fi'].lba[1] /\ cur'.hash = buf'[fi'].hash /\ ~cur'.pass
             /\ cur'.hash \in Hashes /\ Target' \in LBAs /\ cur'.lba \in LBAs
  <2>1. cur' = Turn(fi + 1) /\ fi' = fi + 1
    BY <1>3 DEF NextBlock
  <2>2. cur'.lba = buf'[fi'].lba[1] /\ cur'.hash = buf'[fi'].hash /\ ~cur'.pass
    BY <2>1, TurnFields
  <2>3. fi' > 0
    BY <1>1, <2>1
  <2>4. cur'.lba \in LBAs /\ cur'.i = 0 /\ cur'.hash \in Hashes
    BY <2>3 DEF NewIInv, TurnInv
  <2>5. Target' \in LBAs
    BY <2>4 DEF Target, LBAs
  <2>6. QED
    BY <2>2, <2>4, <2>5
<1>4. QED
  BY <1>1, <1>2, <1>3

LEMMA FirstStoreSettled ==
  ASSUME NewIInv, PlainInv, fi > 0, ~buffer_flushed, pc = "store",
         NEW q \in Tracks, NEW own \in Seq(LBAs), NEW h \in Hashes, BlockWritten(q, own, h)
  PROVE  /\ (\A p \in Tracks : Settled(p)') /\ EntriesInv' /\ Booked' = {}
         /\ \A l \in SeqToSet(own) : \A p \in Tracks \ {q} : ~Owner(l, p)
         /\ status[q] = "booked" /\ Target \in SeqToSet(own)
<1>1. /\ q = cur.pba /\ own = buf[fi].lba /\ h = cur.hash /\ h = buf[fi].hash
      /\ Len(own) \in Nat /\ Len(own) > 0 /\ Len(lba_list[q]) \in Nat
      /\ \A p \in Tracks \ {q} : /\ status'[p] = status[p] /\ hash'[p] = hash[p]
                                 /\ refs'[p] = refs[p] /\ lba_list'[p] = lba_list[p]
      /\ status'[q] = "in_use" /\ hash'[q] = h /\ refs'[q] = Len(own) - 1
      /\ Len(lba_list'[q]) \in Nat /\ Len(own) <= Len(lba_list'[q])
      /\ \A i \in 1 .. Len(own) : lba_list'[q][i] = own[i] /\ own[i] \in LBAs
      /\ \A i \in 1 .. Len(lba_list'[q]) :
           \/ i \in 1 .. Len(own)
           \/ IF i <= Len(lba_list[q]) THEN lba_list'[q][i] = lba_list[q][i] ELSE lba_list'[q][i] = NoLba
      /\ \A l \in LBAs : ltp'[l] = IF l \in SeqToSet(own) THEN Mapped(q, h) ELSE ltp[l]
  BY DEF BlockWritten
<1>2. /\ InBufferOnly(fi) /\ StoreInv /\ Target \in LBAs /\ Target \in Owners(fi) /\ TypeOK
      /\ cur.pba \in Booked
  BY FirstRound, PlainBasics
<1>3. status[q] = "booked" /\ Booked \subseteq {q} /\ refs[q] = 0
  BY <1>1, <1>2 DEF Booked, PlainInv, BookedInv
<1>4. PICK t \in LBAs : t = Target
  BY <1>2
<1>5. /\ SeqToSet(own) \subseteq LBAs /\ t \in SeqToSet(own)
      /\ \A l \in SeqToSet(own) : (~ltp[l].valid /\ ~ltp[l].trim) \/ l = t
      /\ \A a, b \in 1 .. Len(own) : own[a] = own[b] => a = b
  BY <1>1, <1>2, <1>4 DEF InBufferOnly, Owners, SeqToSet
<1>6. /\ \A p \in Tracks \ {q} : Settled(p)
      /\ \A l \in LBAs : Owner(l, q) => l = t
      /\ EntriesInv /\ ltp[t] = Mapped(q, h)
  BY <1>1, <1>2, <1>3, <1>4 DEF StoreInv, TracksInv, WriteInv, UnderWay, ToWrite
<1>7. \A l \in SeqToSet(own) : /\ ~ltp[l].trim
                               /\ \A p \in Tracks \ {q} : ~Owner(l, p)
  <2>1. ltp[t].pba = q /\ ~ltp[t].trim
    BY <1>6 DEF Mapped
  <2>2. QED
    BY <1>5, <2>1 DEF Owner
<1>8. \A l \in LBAs : Owner(l, q)' <=> l \in SeqToSet(own)
  <2>1. \A l \in SeqToSet(own) : Owner(l, q)'
    BY <1>1, <1>5 DEF Owner, Mapped
  <2>2. \A l \in LBAs : l \notin SeqToSet(own) => ltp'[l] = ltp[l]
    BY <1>1
  <2>3. \A l \in LBAs : l \notin SeqToSet(own) => ~Owner(l, q)'
    BY <1>5, <1>6, <2>2 DEF Owner
  <2>4. QED
    BY <2>1, <2>3
<1>9. ASSUME NEW p \in Tracks \ {q} PROVE Settled(p)'
  <2>1. SameOwners(p)
    <3>1. \A l \in SeqToSet(own) : ~Owner(l, p)'
      BY <1>1, <1>5, <1>9 DEF Owner, Mapped
    <3>2. \A l \in LBAs : l \notin SeqToSet(own) => ltp'[l] = ltp[l]
      BY <1>1
    <3>3. QED
      BY <1>7, <1>9, <3>1, <3>2 DEF SameOwners, Owner
  <2>2. status[p] = "trimed" => LET l == lba_list[p][1] IN
          l \in LBAs => ltp'[l].trim = ltp[l].trim /\ ltp'[l].pba = ltp[l].pba
    <3>1. status[p] = "trimed" => Vacated(p)
      BY <1>6, <1>9 DEF Settled
    <3>2. status[p] = "trimed" => lba_list[p][1] \notin SeqToSet(own)
      BY <1>7, <3>1 DEF Vacated
    <3>3. QED
      BY <1>1, <3>2
  <2>3. QED
    BY <1>1, <1>2, <1>6, <1>9, <2>1, <2>2, SettledKept
<1>10. Settled(q)'
  <2>1. PICK n \in Nat : n = Len(own) /\ n > 0
    BY <1>1
  <2>2. \A l \in SeqToSet(own) : \E i \in 1 .. n : own[i] = l
    BY <2>1 DEF SeqToSet
  <2>3. \A i \in 1 .. n : own[i] \in SeqToSet(own)
    BY <2>1 DEF SeqToSet
  <2>4. Lists(q, n, {})'
    <3>1. n <= Len(lba_list'[q])
      BY <1>1, <2>1
    <3>2. \A i \in 1 .. n : lba_list'[q][i] = own[i] /\ own[i] \in LBAs /\ Owner(own[i], q)'
      BY <1>1, <1>8, <2>1, <2>3
    <3>3. \A i, j \in 1 .. n : lba_list'[q][i] = lba_list'[q][j] => i = j
      BY <1>5, <2>1, <3>2
    <3>4. \A l \in LBAs : Owner(l, q)' => \E i \in 1 .. n : lba_list'[q][i] = l
      BY <1>8, <2>2, <3>2
    <3>5. QED
      BY <3>1, <3>2, <3>3, <3>4 DEF Lists, Owner
  <2>5. refs'[q] + 1 = n
    BY <1>1, <2>1
  <2>6. QED
    BY <1>1, <2>4, <2>5 DEF Settled, Lists
<1>11. EntriesInv'
  <2>1. \A l \in LBAs : ltp'[l].valid => ~ltp'[l].trim /\ ltp'[l].hash \in Hashes
    BY <1>1, <1>6 DEF EntriesInv, Mapped
  <2>2. ASSUME NEW l \in LBAs, ltp'[l].valid PROVE hash'[ltp'[l].pba] = ltp'[l].hash
    <3>1. CASE l \in SeqToSet(own)
      <4>1. ltp'[l] = Mapped(q, h)
        BY <1>1, <3>1
      <4>2. ltp'[l].pba = q /\ ltp'[l].hash = h
        BY <4>1 DEF Mapped
      <4>3. QED
        BY <1>1, <4>2
    <3>2. CASE l \notin SeqToSet(own)
      <4>1. ltp'[l] = ltp[l] /\ l # t
        BY <1>1, <1>5, <3>2
      <4>2. ltp[l].pba # q /\ ltp[l].pba \in Tracks
        BY <1>2, <1>6, <2>2, <4>1, EntryType DEF Owner
      <4>3. hash[ltp[l].pba] = ltp[l].hash
        BY <1>4, <1>6, <2>2, <4>1 DEF EntriesInv
      <4>4. QED
        BY <1>1, <4>1, <4>2, <4>3
    <3>3. QED
      BY <3>1, <3>2
  <2>3. ASSUME NEW p \in Tracks, NEW i \in 1 .. Len(lba_list'[p]), lba_list'[p][i] \in LBAs
        PROVE  ltp'[lba_list'[p][i]].valid \/ ltp'[lba_list'[p][i]].trim
    <3>1. PICK m \in LBAs : m = lba_list'[p][i]
      BY <2>3
    <3>2. CASE m \in SeqToSet(own)
      BY <1>1, <3>1, <3>2 DEF Mapped
    <3>3. CASE m \notin SeqToSet(own)
      <4>1. \A a \in 1 .. Len(own) : own[a] \in SeqToSet(own)
        BY DEF SeqToSet
      <4>2. i \in 1 .. Len(lba_list[p]) /\ m = lba_list[p][i]
        BY <1>1, <2>3, <3>1, <3>3, <4>1, CellAssumption
      <4>3. ltp[m].valid \/ ltp[m].trim
        BY <1>6, <4>2, CellKnown
      <4>4. QED
        BY <1>1, <3>1, <3>3, <4>3
    <3>4. QED
      BY <3>2, <3>3
  <2>4. QED
    BY <2>1, <2>2, <2>3 DEF EntriesInv
<1>12. Booked' = {}
  BY <1>1, <1>3 DEF Booked
<1>13. QED
  BY <1>3, <1>4, <1>5, <1>7, <1>9, <1>10, <1>11, <1>12

LEMMA FirstStoreBlocks ==
  ASSUME NewIInv, NewIInv', PlainInv, fi > 0, ~buffer_flushed, pc = "store", NextBlock,
         UNCHANGED <<buf, buffer_flushed, zinfo>>,
         NEW q \in Tracks, NEW own \in Seq(LBAs), NEW h \in Hashes, BlockWritten(q, own, h)
  PROVE  BlocksInv'
<1>1. /\ q = cur.pba /\ own = buf[fi].lba /\ h = buf[fi].hash
      /\ \A p \in Tracks \ {q} : /\ status'[p] = status[p] /\ hash'[p] = hash[p]
                                 /\ refs'[p] = refs[p] /\ lba_list'[p] = lba_list[p]
      /\ status'[q] = "in_use" /\ hash'[q] = h /\ refs'[q] = Len(own) - 1
      /\ \A i \in 1 .. Len(own) : lba_list'[q][i] = own[i] /\ own[i] \in LBAs
      /\ \A l \in LBAs : ltp'[l] = IF l \in SeqToSet(own) THEN Mapped(q, h) ELSE ltp[l]
  BY DEF BlockWritten
<1>2. /\ status[q] = "booked" /\ Target \in SeqToSet(own)
      /\ \A l \in SeqToSet(own) : \A p \in Tracks \ {q} : ~Owner(l, p)
  BY FirstStoreSettled
<1>3. /\ BlocksInv /\ Unstored = fi .. BufNum /\ OnTracks = 1 .. fi - 1 /\ fi \in Unstored
      /\ after = NoInstruction
  BY FirstRound
<1>4. /\ fi \in Nat /\ BufNum \in Nat
      /\ \/ fi < BufNum /\ fi' = fi + 1 /\ used' = used
         \/ fi = BufNum /\ fi' = 0 /\ used' = 0
  BY FlushNext
<1>5. /\ \A j \in Unstored' : j \in Unstored /\ j # fi
      /\ \A j \in OnTracks' : j \in OnTracks \/ j = fi
  <2>1. CASE fi < BufNum
    <3>1. fi' = fi + 1 /\ fi' > 0 /\ fi' # 0
      BY <1>4, <2>1
    <3>2. Unstored' = fi' .. BufNum /\ OnTracks' = 1 .. fi' - 1
      BY <3>1 DEF Unstored, OnTracks, Waiting
    <3>3. QED
      BY <1>3, <1>4, <3>1, <3>2
  <2>2. CASE fi = BufNum
    <3>1. fi' = 0 /\ used' = 0
      BY <1>4, <2>2
    <3>2. Unstored' = {}
      BY <3>1 DEF Unstored, Waiting
    <3>3. \A j \in OnTracks' : j \in 1 .. BufNum
      BY <3>1 DEF OnTracks, BufIndex
    <3>4. QED
      BY <1>3, <1>4, <2>2, <3>2, <3>3
  <2>3. QED
    BY <1>4, <2>1, <2>2
<1>6. \A j : Owners(j)' = Owners(j)
  BY DEF Owners
<1>7. \A j \in BufIndex : /\ Len(buf[j].lba) \in Nat
                          /\ \A a \in 1 .. Len(buf[j].lba) : buf[j].lba[a] \in LBAs
  <2>1. \A j \in BufIndex : buf[j].lba \in Seq(LBAs)
    BY PlainBasics DEF BufferBlocks
  <2>2. QED
    BY <2>1, ElementOfSeq, LenProperties
<1>8. \A j : j \in Unstored \/ j \in OnTracks => j \in BufIndex
  BY <1>3, <1>4 DEF BufIndex
<1>9. Owners(fi) = SeqToSet(own)
  BY <1>1 DEF Owners
<1>10. ASSUME NEW j \in Unstored, j # fi PROVE InBufferOnly(j)'
  <2>1. InBufferOnly(j) /\ buf[j].hash # h /\ Owners(j) \cap SeqToSet(own) = {}
    BY <1>1, <1>3, <1>9, <1>10 DEF BlocksInv
  <2>2. \A p \in Tracks : hash'[p] # buf[j].hash
    BY <1>1, <2>1 DEF InBufferOnly
  <2>3. \A l \in Owners(j) : l \in LBAs /\ l # Target /\ l \notin SeqToSet(own)
    BY <1>2, <1>7, <1>8, <2>1 DEF Owners, SeqToSet
  <2>4. \A l \in Owners(j) : ~ltp'[l].valid /\ ~ltp'[l].trim
    BY <1>1, <2>1, <2>3 DEF InBufferOnly
  <2>5. QED
    BY <1>6, <2>1, <2>2, <2>4 DEF InBufferOnly
<1>11. ASSUME NEW j \in OnTracks PROVE \E p \in Tracks : StoredAt(j, p)'
  <2>1. PICK p \in Tracks : StoredAt(j, p)
    BY <1>3 DEF BlocksInv
  <2>2. p # q
    BY <1>2, <2>1 DEF StoredAt
  <2>3. ASSUME NEW a \in 1 .. Len(buf[j].lba)
        PROVE  ltp'[buf[j].lba[a]] = ltp[buf[j].lba[a]]
    <3>1. PICK l \in LBAs : l = buf[j].lba[a]
      BY <1>7, <1>8
    <3>2. ltp[l] = Mapped(p, buf[j].hash)
      BY <2>1, <3>1 DEF StoredAt
    <3>3. Owner(l, p)
      BY <3>2 DEF Owner, Mapped
    <3>4. l \notin SeqToSet(own)
      BY <1>2, <2>2, <3>3
    <3>5. QED
      BY <1>1, <3>1, <3>4
  <2>4. StoredAt(j, p)'
    BY <1>1, <2>1, <2>2, <2>3 DEF StoredAt
  <2>5. QED
    BY <2>4
<1>12. ASSUME NEW i, i = fi PROVE StoredAt(i, q)'
  <2>1. ASSUME NEW a \in 1 .. Len(own) PROVE ltp'[own[a]] = Mapped(q, h)
    BY <1>1 DEF SeqToSet
  <2>2. buf'[i].lba = own /\ buf'[i].hash = h
    BY <1>1, <1>12
  <2>3. QED
    BY <1>1, <2>1, <2>2 DEF StoredAt
<1>13. \A j \in Unstored' : InBufferOnly(j)'
  BY <1>5, <1>10
<1>14. \A j \in OnTracks' : \E p \in Tracks : StoredAt(j, p)'
  BY <1>5, <1>11, <1>12
<1>15. \A j, k \in Unstored' : j # k =>
         buf'[j].hash # buf'[k].hash /\ Owners(j)' \cap Owners(k)' = {}
  BY <1>3, <1>5, <1>6 DEF BlocksInv
<1>16. fi' = 0 => used' = 0
  BY <1>4
<1>17. QED
  BY <1>13, <1>14, <1>15, <1>16 DEF BlocksInv

LEMMA FirstStorePlain ==
  ASSUME NewIInv, NewIInv', PlainInv, FlushStore, ~buffer_flushed
  PROVE  PlainInv'
<1>1. /\ fi > 0 /\ pc = "store" /\ pc \in {"search", "alloc", "store"} /\ NextBlock
      /\ UNCHANGED <<buf, buffer_flushed, zinfo>>
  BY FlushStoreFacts
<1>2. PICK q \in Tracks, own \in Seq(LBAs), h \in Hashes : BlockWritten(q, own, h)
  BY FlushStoreFacts
<1>3. (\A p \in Tracks : Settled(p)') /\ EntriesInv' /\ Booked' = {}
  BY <1>1, <1>2, FirstStoreSettled
<1>4. BlocksInv'
  BY <1>1, <1>2, FirstStoreBlocks
<1>5. after = NoInstruction
  BY <1>1, FirstRound
<1>6. fi \in Nat /\ fi # 0 /\ instruction.n = 1 /\ instruction.i = 0
  BY <1>1, PlainBasics DEF PlainInv, InstructionInv
<1>7. NoInstruction.n = 1 /\ NoInstruction.i = 0
  BY <1>5, <1>6 DEF instruction
<1>8. \/ /\ fi' = fi + 1 /\ fi' # 0 /\ after' = NoInstruction /\ pc' = "search"
         /\ cur'.lba = buf'[fi'].lba[1] /\ cur'.hash = buf'[fi'].hash /\ ~cur'.pass
         /\ cur'.hash \in Hashes /\ Target' \in LBAs
      \/ fi' = 0 /\ after' = NoInstruction /\ pc' = "idle" /\ cur' = NoInstruction
  <2>1. /\ fi \in Nat
        /\ \/ /\ fi' = fi + 1 /\ after' = after /\ pc' = "search"
              /\ cur'.lba = buf'[fi'].lba[1] /\ cur'.hash = buf'[fi'].hash /\ ~cur'.pass
              /\ cur'.hash \in Hashes /\ Target' \in LBAs
           \/ fi' = 0 /\ after' = NoInstruction /\ pc' = "idle" /\ cur' = NoInstruction
    BY <1>1, <1>5, FlushNext
  <2>2. QED
    BY <1>5, <2>1
<1>9. StoreInv'
  BY <1>3, <1>8, CalmStore
<1>10. BookedInv'
  BY <1>3, <1>8 DEF BookedInv
<1>11. InstructionInv'
  BY <1>1, <1>7, <1>8 DEF InstructionInv, instruction
<1>12. SettledInv'
  BY <1>1, <1>9 DEF SettledInv, Reflushing
<1>13. QED
  BY <1>4, <1>10, <1>11, <1>12 DEF PlainInv

(* Writing a block where it is already changes nothing on the disk.        *)
LEMMA LastStoreSame ==
  ASSUME NewIInv, NewIInv', PlainInv, FlushStore, buffer_flushed
  PROVE  UNCHANGED <<status, hash, refs, lba_list, ltp>>
<1>1. fi > 0 /\ pc = "store" /\ pc \in Running
  BY FlushStoreFacts
<1>2. PICK q \in Tracks, own \in Seq(LBAs), h \in Hashes : BlockWritten(q, own, h)
  BY FlushStoreFacts
<1>3. /\ q = cur.pba /\ own = buf[fi].lba /\ h = buf[fi].hash
      /\ \A p \in Tracks \ {q} : /\ status'[p] = status[p] /\ hash'[p] = hash[p]
                                 /\ refs'[p] = refs[p] /\ lba_list'[p] = lba_list[p]
      /\ status'[q] = "in_use" /\ hash'[q] = h /\ refs'[q] = Len(own) - 1
      /\ Len(own) \in Nat /\ Len(own) > 0
      /\ Len(own) <= Len(lba_list[q]) => Len(lba_list'[q]) = Len(lba_list[q])
      /\ \A i \in 1 .. Len(own) : lba_list'[q][i] = own[i] /\ own[i] \in LBAs
      /\ \A i \in 1 .. Len(lba_list'[q]) :
           \/ i \in 1 .. Len(own)
           \/ IF i <= Len(lba_list[q]) THEN lba_list'[q][i] = lba_list[q][i] ELSE lba_list'[q][i] = NoLba
      /\ \A l \in LBAs : ltp'[l] = IF l \in SeqToSet(own) THEN Mapped(q, h) ELSE ltp[l]
  BY <1>2 DEF BlockWritten
<1>4. StoredAt(fi, q) /\ Settled(q)
  BY <1>1, <1>3, LastRound DEF Reflushing
<1>5. /\ status[q] = "in_use" /\ hash[q] = h /\ refs[q] = Len(own) - 1
      /\ \A a \in 1 .. Len(own) : lba_list[q][a] = own[a] /\ ltp[own[a]] = Mapped(q, h)
  BY <1>3, <1>4 DEF StoredAt
<1>6. TypeOK /\ TypeOK'
  BY NewBasics DEF NewIInv, NewTypeOK
<1>7. status' = status /\ hash' = hash /\ refs' = refs
  BY <1>3, <1>5, <1>6 DEF TypeOK
<1>8. lba_list' = lba_list
  <2>1. PICK s \in Seq(Cells), w \in Seq(Cells) : s = lba_list[q] /\ w = lba_list'[q]
    BY <1>6 DEF TypeOK
  <2>2. Len(w) = Len(s) /\ \A i \in 1 .. Len(s) : w[i] = s[i]
    <3>1. Lists(q, refs[q] + 1, {}) /\ refs[q] + 1 = Len(own)
      BY <1>3, <1>4, <1>5 DEF Settled
    <3>2. Len(own) <= Len(s)
      BY <2>1, <3>1 DEF Lists
    <3>3. Len(w) = Len(s)
      BY <1>3, <2>1, <3>2
    <3>4. ASSUME NEW i \in 1 .. Len(s) PROVE w[i] = s[i]
      <4>1. i \in 1 .. Len(own) => w[i] = s[i]
        BY <1>3, <1>5, <2>1
      <4>2. QED
        BY <1>3, <2>1, <3>3, <4>1
    <3>5. QED
      BY <3>3, <3>4
  <2>3. w = s
    BY <2>2, SeqEqual
  <2>4. \A p \in Tracks : lba_list'[p] = lba_list[p]
    BY <1>3, <2>1, <2>3
  <2>5. lba_list \in [Tracks -> Seq(Cells)] /\ lba_list' \in [Tracks -> Seq(Cells)]
    BY <1>6 DEF TypeOK
  <2>6. QED
    BY <2>4, <2>5
<1>9. ltp' = ltp
  <2>1. \A l \in SeqToSet(own) : ltp[l] = Mapped(q, h)
    BY <1>5 DEF SeqToSet
  <2>2. \A l \in LBAs : ltp'[l] = ltp[l]
    BY <1>3, <2>1
  <2>3. QED
    BY <1>6, <2>2 DEF TypeOK
<1>10. QED
  BY <1>7, <1>8, <1>9

LEMMA LastStorePlain ==
  ASSUME NewIInv, NewIInv', PlainInv, FlushStore, buffer_flushed
  PROVE  PlainInv'
<1>1. /\ fi > 0 /\ pc = "store" /\ pc \in Running /\ NextBlock
      /\ UNCHANGED <<buf, buffer_flushed, zinfo>>
  BY FlushStoreFacts
<1>2. UNCHANGED <<status, hash, refs, lba_list, ltp>>
  BY LastStoreSame
<1>3. /\ BlocksInv /\ (\A p \in Tracks : Settled(p)) /\ EntriesInv /\ OnTracks = BufIndex
      /\ Target \in LBAs
      /\ \E p \in Tracks : StoredAt(fi, p) /\ ltp[Target] = Mapped(p, cur.hash)
      /\ cur.hash = buf[fi].hash
  BY <1>1, LastRound DEF Reflushing
<1>4. fi \in Nat /\ fi # 0 /\ TurnInv /\ instruction = after /\ after.n = 1 /\ after.i = 0
  BY <1>1, PlainBasics DEF PlainInv, InstructionInv, instruction, NewIInv
<1>5. \/ /\ fi' = fi + 1 /\ fi' # 0 /\ after' = after /\ pc' = "search"
         /\ cur'.lba = buf'[fi'].lba[1] /\ cur'.hash = buf'[fi'].hash /\ ~cur'.pass
         /\ cur'.hash \in Hashes /\ Target' \in LBAs
      \/ /\ fi' = 0 /\ used' = 0 /\ after' = NoInstruction
         /\ \/ after = NoInstruction /\ pc' = "idle" /\ cur' = NoInstruction
            \/ after # NoInstruction /\ pc' = "search" /\ cur' = after
  <2>1. /\ fi \in Nat
        /\ \/ /\ fi' = fi + 1 /\ after' = after /\ pc' = "search"
              /\ cur'.lba = buf'[fi'].lba[1] /\ cur'.hash = buf'[fi'].hash /\ ~cur'.pass
              /\ cur'.hash \in Hashes /\ Target' \in LBAs
           \/ /\ fi' = 0 /\ used' = 0 /\ after' = NoInstruction
              /\ \/ after = NoInstruction /\ pc' = "idle" /\ cur' = NoInstruction
                 \/ after # NoInstruction /\ pc' = "search" /\ cur' = after
    BY <1>1, FlushNext
  <2>2. QED
    BY <2>1
<1>6. ASSUME after # NoInstruction
      PROVE  /\ ~after.pass /\ after.hash \in Hashes /\ after.lba \in LBAs
             /\ PlainTarget(after.lba, after.hash)
  BY <1>4, <1>6 DEF PlainInv, InstructionInv, PlainTarget, TurnInv
<1>7. \A l, h : PlainTarget(l, h) => PlainTarget(l, h)'
  BY <1>2 DEF PlainTarget
<1>8. \A p \in Tracks : Settled(p)'
  BY <1>2, <1>3, DiskSame DEF blocks
<1>9. EntriesInv'
  <2>1. PICK p \in Tracks, m \in LBAs :
          StoredAt(fi, p) /\ m = Target /\ ltp[m] = Mapped(p, cur.hash)
    BY <1>3
  <2>2. hash[ltp[m].pba] = ltp[m].hash
    BY <1>3, <2>1 DEF StoredAt, Mapped
  <2>3. \A l \in LBAs : ltp[l].valid => hash[ltp[l].pba] = ltp[l].hash
    BY <1>3, <2>1, <2>2 DEF EntriesInv
  <2>4. QED
    BY <1>2, <1>3, <2>3 DEF EntriesInv
<1>10. ASSUME after # NoInstruction, cur' = after
       PROVE  Target' = after.lba /\ ~cur'.pass
  BY <1>4, <1>6, <1>10, LogicalNumAssumption DEF Target, LBAs
<1>11. StoreInv' /\ WriteInv'
  <2>1. pc' = "search" => Target' \in LBAs /\ cur'.hash \in Hashes
    BY <1>5, <1>6, <1>10
  <2>2. QED
    BY <1>5, <1>8, <1>9, <2>1, CalmStore
<1>12. BlocksInv'
  <2>1. CASE fi' = 0
    BY <1>1, <1>5, <2>1, BufferGone
  <2>2. CASE fi' # 0
    <3>1. Unstored' = {} /\ OnTracks' = BufIndex
      <4>1. fi' > 0
        BY <1>4, <1>5, <2>2
      <4>2. QED
        BY <1>1, <4>1 DEF Unstored, OnTracks
    <3>2. \A j : \A p : StoredAt(j, p) => StoredAt(j, p)'
      BY <1>1, <1>2 DEF StoredAt
    <3>3. \A j \in OnTracks' : \E p \in Tracks : StoredAt(j, p)'
      BY <1>3, <3>1, <3>2 DEF BlocksInv
    <3>4. QED
      BY <2>2, <3>1, <3>3 DEF BlocksInv
  <2>3. QED
    BY <2>1, <2>2
<1>13. BookedInv'
  <2>1. Booked' = {}
    <3>1. PICK p \in Tracks : StoredAt(fi, p) /\ cur.pba = p
      BY <1>1, LastRound DEF Reflushing
    <3>2. Booked \subseteq {p} /\ p \notin Booked
      BY <1>1, <3>1 DEF PlainInv, BookedInv, StoredAt, Booked
    <3>3. QED
      BY <1>2, <3>2 DEF Booked
  <2>2. pc' = "search" => ~cur'.pass
    BY <1>5, <1>10
  <2>3. QED
    BY <1>5, <2>1, <2>2 DEF BookedInv
<1>14. InstructionInv'
  <2>1. CASE fi' # 0
    <3>1. after # NoInstruction => PlainTarget(after.lba, after.hash)'
      <4>1. PICK l, h : l = after.lba /\ h = after.hash
        OBVIOUS
      <4>2. after # NoInstruction => PlainTarget(l, h)'
        BY <1>6, <1>7, <4>1
      <4>3. after' = after
        BY <1>5, <2>1
      <4>4. QED
        BY <4>1, <4>2, <4>3 DEF PlainTarget
    <3>2. QED
      BY <1>1, <1>4, <1>5, <1>6, <2>1, <3>1 DEF InstructionInv, instruction
  <2>2. CASE fi' = 0 /\ after = NoInstruction
    BY <1>1, <1>4, <1>5, <2>2 DEF InstructionInv, instruction
  <2>3. CASE fi' = 0 /\ after # NoInstruction
    <3>1. pc' = "search" /\ cur' = after /\ after' = NoInstruction
      BY <1>5, <2>3
    <3>2. PICK l, h : l = after.lba /\ h = after.hash
      OBVIOUS
    <3>3. PlainTarget(l, h)'
      BY <1>6, <1>7, <2>3, <3>2
    <3>4. Target' = l /\ cur'.hash = h
      BY <1>10, <2>3, <3>1, <3>2
    <3>5. PlainTarget(Target, cur.hash)'
      BY <3>3, <3>4 DEF PlainTarget
    <3>6. zinfo'.phases # 1
      BY <1>1, <1>4 DEF TurnInv
    <3>7. QED
      BY <1>4, <1>6, <2>3, <3>1, <3>5, <3>6 DEF InstructionInv, instruction
  <2>4. QED
    BY <2>1, <2>2, <2>3
<1>15. SettledInv'
  BY <1>8, <1>9, <1>11 DEF SettledInv
<1>16. QED
  BY <1>12, <1>13, <1>14, <1>15 DEF PlainInv

LEMMA FlushPlain ==
  ASSUME NewIInv, NewIInv', PlainInv, FlushStep
  PROVE  PlainInv'
  BY FlushUpdatePlain, RestoreNever, FlushNewPlain, FlushGrowPlain, FirstStorePlain, LastStorePlain
    DEF FlushStep

-----------------------------------------------------------------------------
(* The theorems.                                                           *)

LEMMA InitPlain == NewInit => PlainInv
<1> SUFFICES ASSUME NewInit PROVE PlainInv
  OBVIOUS
<1>1. /\ pc = "idle" /\ fi = 0 /\ used = 0 /\ zinfo.phases = 1 /\ ~buffer_flushed
      /\ cur = NoInstruction /\ after = NoInstruction /\ \A l \in LBAs : ~ltp[l].valid
      /\ \A p \in Tracks : /\ status[p] = "free" /\ refs[p] = 0
                           /\ lba_list[p] = <<NoLba, NoLba>>
  BY DEF NewInit
<1>2. BlocksInv
  <2>1. Unstored = 1 .. 0 /\ OnTracks = {}
    BY <1>1 DEF Unstored, OnTracks, Waiting
  <2>2. Unstored = {}
    BY <2>1
  <2>3. QED
    BY <1>1, <2>1, <2>2 DEF BlocksInv
<1>3. TracksInv
  BY <1>1 DEF TracksInv, Settled, Vacated, Owner
<1>4. EntriesInv
  <2>1. \A p \in Tracks : \A i \in 1 .. Len(lba_list[p]) : lba_list[p][i] \notin LBAs
    BY <1>1, CellAssumption
  <2>2. QED
    BY <1>1, <2>1 DEF EntriesInv
<1>5. StoreInv
  BY <1>1, <1>3, <1>4 DEF StoreInv, WriteInv, Running, Stopped
<1>6. BookedInv
  BY <1>1 DEF BookedInv, Booked
<1>7. InstructionInv
  BY <1>1 DEF InstructionInv, instruction, NoInstruction
<1>8. QED
  BY <1>1, <1>2, <1>5, <1>6, <1>7 DEF PlainInv, SettledInv, Reflushing

LEMMA StutterPlain ==
  ASSUME PlainInv, UNCHANGED allVars
  PROVE  PlainInv'
<1>1. /\ UNCHANGED <<status, hash, refs, lba_list, ltp, zinfo, pc, cur>> /\ Target' = Target
      /\ UNCHANGED <<buf, used, fi, after, buffer_flushed>> /\ instruction' = instruction
  BY DEF allVars, vars, newVars, codeVars, Target, instruction
<1>2. BlocksInv'
  BY <1>1, BlocksSame DEF PlainInv, blocks
<1>3. BookedInv'
  BY <1>1 DEF PlainInv, BookedInv, Booked
<1>4. InstructionInv'
  <2>1. PICK l, h : l = Target /\ h = cur.hash
    OBVIOUS
  <2>2. PICK m, g : m = after.lba /\ g = after.hash
    OBVIOUS
  <2>3. (PlainTarget(l, h) => PlainTarget(l, h)') /\ (PlainTarget(m, g) => PlainTarget(m, g)')
    BY <1>1 DEF PlainTarget
  <2>4. Buffered(l)' = Buffered(l)
    BY <1>1 DEF Buffered, Waiting
  <2>5. Target' = l /\ cur'.hash = h /\ after'.lba = m /\ after'.hash = g
    BY <1>1, <2>1, <2>2
  <2>6. PlainTarget(Target, cur.hash) => PlainTarget(Target, cur.hash)'
    BY <2>1, <2>3, <2>5 DEF PlainTarget
  <2>7. PlainTarget(after.lba, after.hash) => PlainTarget(after.lba, after.hash)'
    BY <2>2, <2>3, <2>5 DEF PlainTarget
  <2>8. Buffered(Target)' = Buffered(Target)
    BY <2>1, <2>4, <2>5 DEF Buffered
  <2>9. QED
    BY <1>1, <2>6, <2>7, <2>8 DEF PlainInv, InstructionInv, Booked
<1>5. (\A p \in Tracks : Settled(p) => Settled(p)') /\ Reflushing' = Reflushing
  BY <1>1, DiskSame DEF blocks, Reflushing
<1>6. (TracksInv => TracksInv') /\ (EntriesInv => EntriesInv') /\ (WriteInv => WriteInv')
  <2>1. TracksInv => TracksInv'
    <3>1. PICK q : q = cur.pba
      OBVIOUS
    <3>2. /\ ToWrite(q) => ToWrite(q)'
          /\ ToPass(q) => ToPass(q)'
          /\ ToJoin(q) => ToJoin(q)'
          /\ Lists(q, 1, {}) => Lists(q, 1, {})'
      BY <1>1 DEF ToWrite, ToPass, ToJoin, Lists, Owner
    <3>3. pc # "flush"
      BY DEF PlainInv, InstructionInv
    <3>4. \A p : UnderWay(p)' <=> UnderWay(p)
      BY <1>1 DEF UnderWay
    <3>5. /\ ToWrite(cur.pba) => ToWrite(cur.pba)'
          /\ ToPass(cur.pba) => ToPass(cur.pba)'
          /\ ToJoin(cur.pba) => ToJoin(cur.pba)'
      BY <1>1, <3>1, <3>2 DEF ToWrite, ToPass, ToJoin, Lists, Owner
    <3>6. QED
      BY <1>1, <1>5, <3>3, <3>4, <3>5 DEF TracksInv
  <2>2. EntriesInv => EntriesInv'
    BY <1>1 DEF EntriesInv
  <2>3. WriteInv => WriteInv'
    BY <1>1 DEF WriteInv
  <2>4. QED
    BY <2>1, <2>2, <2>3
<1>7. SettledInv'
  BY <1>5, <1>6 DEF PlainInv, SettledInv, StoreInv
<1>8. QED
  BY <1>2, <1>3, <1>4, <1>7 DEF PlainInv

LEMMA NextPlain ==
  ASSUME NewIInv, NewIInv', PlainInv, Garbage = {NoLba}, plain, [NewNext]_allVars, ~Overrun
  PROVE  PlainInv'
<1>1. CASE UNCHANGED allVars
  BY <1>1, StutterPlain
<1>2. CASE WriteStep
  BY <1>2, SharePlain, JoinPlain, FillPlain, BeyondNever, FlushAgainPlain, LookupPlain,
    MismatchNever, NewSharedPlain, NewOwnedPlain DEF WriteStep
<1>3. CASE FlushStep
  BY <1>3, FlushPlain
<1>4. CASE NewAllocate
  BY <1>4, AllocatePlain
<1>5. CASE \E l \in 0 .. L, n \in 1 .. MaxBlocks, h \in Hashes : NewStartWrite(l, n, h)
  BY <1>5, NewStartPlain
<1>6. CASE \E l \in LBAs : NewTrim(l)
  BY <1>6, NewTrimPlain
<1>7. QED
  BY <1>1, <1>2, <1>3, <1>4, <1>5, <1>6 DEF NewNext, NewProgress

LEMMA PlainKept == [NewNext]_allVars => plain' = plain
<1>1. WriteStep => plain' = plain
  BY DEF WriteStep, ShareOnDisk, JoinBuffered, FillBlock, BeyondTable, FlushAgain, Lookup,
    NewMismatch, NewStoreShared, NewStoreOwned, newVars
<1>2. FlushStep => plain' = plain
  BY DEF FlushStep, FlushUpdate, FlushRestore, FlushNew, FlushGrow, FlushJoin, FlushStore, newVars
<1>3. NewAllocate => plain' = plain
  BY DEF NewAllocate, NewPhase1, NewPhase1Last, NewPhase1Full, NewAllocUnchanged, newVars
<1>4. Overrun => plain' = plain
  BY DEF Overrun, newVars
<1>5. QED
  BY <1>1, <1>2, <1>3, <1>4
    DEF NewNext, NewProgress, NewStartWrite, NewTrim, CountInstruction, allVars, newVars

LEMMA OverranStays ==
  ASSUME Overran, [NewNext]_allVars
  PROVE  UNCHANGED allVars
<1>1. pc = "undefined"
  BY DEF Overran
<1>2. ~WriteStep
  <2>1. ~Search
    BY <1>1 DEF Search, SearchOverwriteInPlace, SearchOverwriteSwapped, Overwrites, SearchRestore,
      SearchRestoreMoved, SearchSame, SearchShare, SearchTakeOver, SearchNew, SearchBeyond, Searching
  <2>2. QED
    BY <1>1, <2>1 DEF WriteStep, ShareOnDisk, JoinBuffered, FillBlock, Buffering, Phase1Write,
      BeyondTable, SearchBeyond, FlushAgain, Lookup, NewMismatch, StoreMismatch, NewStoreShared,
      Sharing, NewStoreOwned
<1>3. ~FlushStep
  BY <1>1 DEF FlushStep, FlushUpdate, FlushRestore, FlushNew, FlushTurn, Searching, FlushGrow,
    FlushJoin, FlushStore, Storing
<1>4. ~NewAllocate
  BY <1>1 DEF NewAllocate, NewPhase1, NewPhase1Last, NewPhase1Full, AllocPhase2, AllocPhase3,
    AllocPhase3Over, AllocPhase4, AllocDiskFull, Allocating
<1>5. ~Overrun
  BY <1>1 DEF Overrun, Buffering, Phase1Write, Sharing, Storing
<1>6. \A l, n, h : ~NewStartWrite(l, n, h) /\ ~NewTrim(l)
  BY <1>1 DEF NewStartWrite, StartWrite, NewTrim, Trim, TrimBadStatus, TrimNotListed, TrimListed,
    Trimming
<1>7. QED
  BY <1>2, <1>3, <1>4, <1>5, <1>6 DEF NewNext, NewProgress

(* The inductive invariant of plain traces of the new_alloc build, for     *)
(* every disk and every size of the buffer: a block waits in the buffer    *)
(* only, or a flush has put it on a track just as it would again; the      *)
(* tracks are settled as in DedupStore, also while the last flush goes     *)
(* over blocks that are stored already (lba.c:774-1003, pba.c:45-257).     *)
(* What an owner written past its array may do to other memory is outside  *)
(* of it: either there is a spare cell, or the program is over.            *)
THEOREM PlainInvariant ==
  ASSUME Garbage = {NoLba} PROVE NewSpec => [](NewIInv /\ (plain => PlainInv \/ Overran))
<1>1. NewInit => (plain => PlainInv \/ Overran)
  BY InitPlain
<1>2. ASSUME NewIInv, NewIInv', plain, PlainInv \/ Overran, [NewNext]_allVars
      PROVE  (PlainInv \/ Overran)'
  <2>1. CASE Overran
    BY <1>2, <2>1, OverranStays DEF Overran, allVars, vars
  <2>2. CASE PlainInv /\ ~Overrun
    BY <1>2, <2>2, NextPlain
  <2>3. CASE Overrun
    BY <2>3 DEF Overrun, Overran
  <2>4. QED
    BY <1>2, <2>1, <2>2, <2>3
<1>3. NewIInv /\ NewIInv' /\ (plain => PlainInv \/ Overran) /\ [NewNext]_allVars
      => (plain => PlainInv \/ Overran)'
  BY <1>2, PlainKept
<1>4. QED
  BY <1>1, <1>3, NewInvariant, PTL DEF NewSpec

LEMMA IdleStore ==
  ASSUME NewIInv, PlainInv, pc \in {"idle"} \cup Stopped
  PROVE  TypeOK /\ StoreInv
<1>1. TypeOK
  BY PlainBasics
<1>2. ~Reflushing => StoreInv
  BY DEF PlainInv, SettledInv
<1>3. Reflushing => pc \in {"search", "store"}
  BY DEF Reflushing, PlainInv, InstructionInv
<1>4. pc \notin {"search", "store"}
  BY DEF Stopped
<1>5. QED
  BY <1>1, <1>2, <1>3, <1>4

(* Between instructions a track in use lists exactly the logical blocks    *)
(* mapped to it, each once, and counts all but one of them, however they   *)
(* got there: one by one, or collected in the buffer and flushed, once or  *)
(* twice (lba.c:842-904, 940-1000).                                        *)
THEOREM BufferedOwnersExact == ASSUME Garbage = {NoLba} PROVE NewSpec => []PlainOwners
<1>1. NewIInv /\ (plain => PlainInv \/ Overran) => PlainOwners
  <2> SUFFICES ASSUME NewIInv, PlainInv, pc = "idle" PROVE OwnersListed
    BY DEF PlainOwners, OwnersListed, Overran
  <2>1. QED
    BY IdleStore, OwnersFrom
<1>2. QED
  BY <1>1, PlainInvariant, PTL

(* Buffered or not, the program stops only because the disk is full, or    *)
(* where an owner goes past its array and there is no spare cell, as long  *)
(* as the track before the first and the one past the last do not look     *)
(* shared (lba.c:862-911, 922-1002, pba.c:176-240).                        *)
THEOREM BufferedStops ==
  ASSUME Garbage = {NoLba}, TRUE \notin OutOfBounds PROVE NewSpec => []PlainStops
<1>1. NewIInv /\ (plain => PlainInv \/ Overran) => PlainStops
  <2> SUFFICES ASSUME NewIInv, PlainInv PROVE StopsOnlyWhenFull
    BY DEF PlainStops, Overran
  <2>1. WriteInv
    BY PlainBasics
  <2>2. QED
    BY <2>1 DEF WriteInv, StopsOnlyWhenFull
<1>2. QED
  BY <1>1, PlainInvariant, PTL

-----------------------------------------------------------------------------
(* The disk with its buffer implements the logical store.                  *)

AtRest == pc = "idle" => cur = NoInstruction

LEMMA RestKept ==
  ASSUME NewIInv, AtRest, [NewNext]_allVars
  PROVE  AtRest'
<1> SUFFICES ASSUME pc' = "idle" PROVE cur' = NoInstruction
  BY DEF AtRest
<1>1. CASE WriteStep
  <2>1. ASSUME Search PROVE pc' # "idle"
    BY <2>1 DEF Search, SearchOverwriteInPlace, UpdateInPlace, SearchOverwriteSwapped, UpdateSwapped,
      SearchRestore, SearchRestoreMoved, SearchSame, SearchShare, SearchTakeOver, SearchNew,
      SearchBeyond, Found
  <2>2. SearchBeyond => Search
    BY DEF Search
  <2>3. QED
    BY <1>1, <2>1, <2>2 DEF WriteStep, ShareOnDisk, JoinBuffered, FillBlock, StartFlush, BeyondTable,
      FlushAgain, Lookup, NewMismatch, StoreMismatch, NewStoreShared, NewStoreOwned, Finish
<1>2. CASE FlushStep
  <2>1. NextBlock => cur' = NoInstruction
    BY DEF NextBlock, Finish
  <2>2. ~FlushUpdate /\ ~FlushRestore /\ ~FlushNew /\ ~FlushGrow
    BY DEF FlushUpdate, UpdateInPlace, UpdateSwapped, Found, FlushRestore, FlushNew, FlushGrow
  <2>3. QED
    BY <1>2, <2>1, <2>2 DEF FlushStep, FlushJoin, FlushStore
<1>3. CASE NewAllocate
  BY <1>3, AllocateMoves DEF Book, Found
<1>4. CASE \E l \in 0 .. L, n \in 1 .. MaxBlocks, h \in Hashes : NewStartWrite(l, n, h)
  BY <1>4 DEF NewStartWrite, StartWrite
<1>5. CASE \E l \in LBAs : NewTrim(l)
  BY <1>5 DEF NewTrim, Trim, TrimBadStatus, TrimNotListed, TrimListed, Trimming, AtRest
<1>6. CASE UNCHANGED allVars
  BY <1>6 DEF allVars, vars, AtRest
<1>7. CASE Overrun
  BY <1>7 DEF Overrun
<1>8. QED
  BY <1>1, <1>2, <1>3, <1>4, <1>5, <1>6, <1>7 DEF NewNext, NewProgress

(* What a user reads of a block: the buffer if it is there only, else its  *)
(* entry.                                                                  *)
Reads(l, c) ==
  \/ \E j \in Unstored : l \in Owners(j) /\ c = buf[j].hash
  \/ (\A j \in Unstored : l \notin Owners(j)) /\ c = Kept(l)

ReadsUnique == \A l, c, d : Reads(l, c) /\ Reads(l, d) => c = d

LEMMA ReadsOne == BlocksInv => ReadsUnique
<1> SUFFICES ASSUME BlocksInv, NEW l, NEW c, NEW d, Reads(l, c), Reads(l, d) PROVE c = d
  BY DEF ReadsUnique
<1>1. CASE \E j \in Unstored : l \in Owners(j)
  <2>1. PICK j \in Unstored : l \in Owners(j) /\ c = buf[j].hash
    BY <1>1 DEF Reads
  <2>2. PICK k \in Unstored : l \in Owners(k) /\ d = buf[k].hash
    BY <1>1 DEF Reads
  <2>3. j = k
    BY <2>1, <2>2 DEF BlocksInv
  <2>4. QED
    BY <2>1, <2>2, <2>3
<1>2. CASE \A j \in Unstored : l \notin Owners(j)
  BY <1>2 DEF Reads
<1>3. QED
  BY <1>1, <1>2

LEMMA ReadsOneNext == (BlocksInv => ReadsUnique)'
  BY ReadsOne, PTL

LEMMA InstructionAt ==
  ASSUME NewIInv, PlainInv, plain, AtRest
  PROVE  /\ fi = 0 => instruction = cur
         /\ fi = 0 /\ pc \in Running \cup Stopped =>
              Underway /\ instruction.lba = Target /\ instruction.hash = cur.hash
         /\ fi # 0 => instruction = after
         /\ pc = "idle" => fi = 0 /\ ~Underway
<1>1. WriteInv /\ Target = cur.lba
  BY PlainBasics
<1>2. pc \in Running \cup Stopped => cur.hash \in Hashes /\ cur.hash # NoInstruction.hash
  BY <1>1, HashAssumption DEF WriteInv, NoInstruction
<1>3. pc = "idle" => fi = 0
  BY DEF NewIInv, TurnInv
<1>4. QED
  BY <1>1, <1>2, <1>3 DEF Underway, instruction, AtRest

ContentRead == \A l \in LBAs : (Underway /\ l = instruction.lba) \/ Reads(l, buffered_content[l])

LEMMA ContentReads == NewIInv /\ PlainInv /\ plain /\ AtRest => ContentRead
<1> SUFFICES ASSUME NewIInv, PlainInv, plain, AtRest, NEW l \in LBAs,
                    ~(Underway /\ l = instruction.lba)
             PROVE  Reads(l, buffered_content[l])
  BY DEF ContentRead
<1>1. PICK c : c = buffered_content[l]
  OBVIOUS
<1>2. c = IF Buffered(l) # {} THEN buf[CHOOSE i \in Buffered(l) : TRUE].hash
          ELSE IF ltp[l].valid THEN hash[ltp[l].pba] ELSE NoHash
  BY <1>1 DEF buffered_content
<1>3. \A j : j \in Buffered(l) <=> j \in Waiting /\ l \in Owners(j)
  BY DEF Buffered, Owners
<1>4. Buffered(l) # {} => \E j \in Waiting : l \in Owners(j) /\ c = buf[j].hash
  BY <1>2, <1>3
<1>5. /\ BlocksInv /\ EntriesInv /\ fi \in 0 .. BufNum /\ BufNum \in Nat /\ used \in 0 .. BufNum
      /\ TypeOK /\ TurnInv /\ InstructionInv
  BY PlainBasics DEF PlainInv, NewIInv
<1>6. Buffered(l) = {} /\ ~(pc = "store" /\ l = Target) => c = Kept(l)
  BY <1>2, <1>5 DEF EntriesInv, Kept
<1>7. pc = "store" /\ l = Target => fi > 0
  <2>1. fi = 0 => ~(pc = "store" /\ l = Target)
    BY InstructionAt DEF Running
  <2>2. QED
    BY <1>5, <2>1
<1>8. fi > 0 /\ pc = "store" => fi \in Waiting /\ Target \in Owners(fi)
  <2> SUFFICES ASSUME fi > 0, pc = "store" PROVE fi \in Waiting /\ Target \in Owners(fi)
    OBVIOUS
  <2>1. fi \in BufIndex /\ Target = buf[fi].lba[1] /\ Len(buf[fi].lba) \in Nat /\ Len(buf[fi].lba) > 0
    BY <1>5, FlushBasics DEF InstructionInv, Running
  <2>2. fi \in Waiting
    BY <2>1 DEF Waiting, BufIndex
  <2>3. 1 \in 1 .. Len(buf[fi].lba)
    BY <2>1
  <2>4. QED
    BY <2>1, <2>2, <2>3 DEF Owners, SeqToSet
<1>9. Buffered(l) = {} => c = Kept(l)
  BY <1>3, <1>6, <1>7, <1>8
<1>10. CASE ~buffer_flushed
  <2>1. Unstored = Waiting
    BY <1>10 DEF Unstored
  <2>2. QED
    BY <1>1, <1>3, <1>4, <1>9, <2>1 DEF Reads
<1>11. CASE buffer_flushed
  <2>1. Unstored = {}
    BY <1>11 DEF Unstored
  <2>2. ASSUME NEW j \in Waiting, l \in Owners(j)
        PROVE  Kept(l) = buf[j].hash
    <3>1. fi # 0
      <4> SUFFICES ASSUME fi = 0 PROVE FALSE
        OBVIOUS
      <4>1. zinfo.phases # 1 /\ zinfo.phases \in 1 .. 4
        BY <1>5, <1>11 DEF TurnInv, TypeOK, Allocators
      <4>2. zinfo.phases > 1
        BY <4>1
      <4>3. used = 0
        BY <1>5, <4>2 DEF BlocksInv
      <4>4. Waiting = 1 .. 0
        BY <4>3 DEF Waiting
      <4>5. QED
        BY <2>2, <4>4
    <3>2. fi > 0 /\ OnTracks = BufIndex
      BY <1>5, <1>11, <3>1 DEF OnTracks
    <3>3. j \in BufIndex
      BY <1>5, <2>2, <3>1 DEF Waiting, BufIndex
    <3>4. PICK p \in Tracks : StoredAt(j, p)
      BY <1>5, <3>2, <3>3 DEF BlocksInv
    <3>5. ltp[l] = Mapped(p, buf[j].hash)
      BY <2>2, <3>4 DEF StoredAt, Owners, SeqToSet
    <3>6. QED
      BY <3>5 DEF Kept, Mapped
  <2>3. c = Kept(l)
    BY <1>4, <1>9, <2>2
  <2>4. QED
    BY <1>1, <2>1, <2>3 DEF Reads
<1>12. QED
  BY <1>10, <1>11

LEMMA ContentReadsNext == (NewIInv /\ PlainInv /\ plain /\ AtRest => ContentRead)'
  BY ContentReads, PTL

LEMMA ReadsSame ==
  ASSUME Unstored' = Unstored, buf' = buf, NEW l, Kept(l)' = Kept(l), NEW c, Reads(l, c)
  PROVE  Reads(l, c)'
<1>1. \A j : Owners(j)' = Owners(j) /\ buf'[j].hash = buf[j].hash
  BY DEF Owners
<1>2. QED
  BY <1>1 DEF Reads

(* What a write does to what a user reads: nothing, until it ends.         *)
ReadsKept(l) == \A c : Reads(l, c) => Reads(l, c)'

WriteGoesOn ==
  /\ Underway' = Underway
  /\ instruction'.lba = instruction.lba /\ instruction'.hash = instruction.hash
  /\ \A l \in LBAs : (Underway /\ l = instruction.lba) \/ ReadsKept(l)

WriteEnds ==
  /\ Underway /\ ~Underway'
  /\ \E l \in LBAs, h \in Hashes :
       /\ l = instruction.lba /\ h = instruction.hash /\ Reads(l, h)'
       /\ \A m \in LBAs \ {l} : ReadsKept(m)

LEMMA ContentKept ==
  ASSUME ContentRead, ContentRead', BlocksInv', NEW l \in LBAs, ReadsKept(l),
         ~(Underway /\ l = instruction.lba), ~(Underway' /\ l = instruction'.lba)
  PROVE  buffered_content'[l] = buffered_content[l]
<1>1. PICK c, d : c = buffered_content[l] /\ d = buffered_content'[l]
  OBVIOUS
<1>2. Reads(l, c)'
  BY <1>1 DEF ContentRead, ReadsKept
<1>3. Reads(l, d)'
  BY <1>1 DEF ContentRead, Reads
<1>4. c = d
  BY <1>2, <1>3, ReadsOneNext DEF ReadsUnique
<1>5. QED
  BY <1>1, <1>4

LEMMA ContentIsFunction ==
  ASSUME plain
  PROVE  /\ buffered_content = [l \in LBAs |-> buffered_content[l]]
         /\ \A l \in LBAs : Underway /\ l = instruction.lba => buffered_content[l] = InFlight
  BY DEF buffered_content

LEMMA ContentIsFunctionNext ==
  ASSUME plain'
  PROVE  /\ buffered_content' = [l \in LBAs |-> buffered_content'[l]]
         /\ \A l \in LBAs : Underway' /\ l = instruction'.lba => buffered_content'[l] = InFlight
  BY DEF buffered_content

LEMMA GoingOnStutters ==
  ASSUME plain, plain', ContentRead, ContentRead', BlocksInv', WriteGoesOn
  PROVE  buffered_content' = buffered_content
<1>1. ASSUME NEW l \in LBAs PROVE buffered_content'[l] = buffered_content[l]
  <2>1. CASE Underway /\ l = instruction.lba
    BY <2>1, ContentIsFunction, ContentIsFunctionNext DEF WriteGoesOn
  <2>2. CASE ~(Underway /\ l = instruction.lba)
    BY <2>2, ContentKept DEF WriteGoesOn
  <2>3. QED
    BY <2>1, <2>2
<1>2. QED
  BY <1>1, ContentIsFunction, ContentIsFunctionNext

LEMMA EndingWrites ==
  ASSUME plain, plain', ContentRead, ContentRead', BlocksInv', WriteEnds
  PROVE  buffered_content' = [buffered_content EXCEPT ![instruction.lba] = instruction.hash]
<1>1. PICK l \in LBAs, h \in Hashes :
        /\ l = instruction.lba /\ h = instruction.hash /\ Reads(l, h)'
        /\ \A m \in LBAs \ {l} : ReadsKept(m)
  BY DEF WriteEnds
<1>2. ~Underway'
  BY DEF WriteEnds
<1>3. \A m \in LBAs \ {l} : buffered_content'[m] = buffered_content[m]
  BY <1>1, <1>2, ContentKept
<1>4. buffered_content'[l] = h
  <2>1. PICK d : d = buffered_content'[l]
    OBVIOUS
  <2>2. Reads(l, d)'
    BY <1>2, <2>1 DEF ContentRead, Reads
  <2>3. QED
    BY <1>1, <2>1, <2>2, ReadsOneNext DEF ReadsUnique
<1>5. QED
  BY <1>1, <1>3, <1>4, ContentIsFunction, ContentIsFunctionNext

(* The writes that end.                                                    *)
LEMMA Phase1Reads ==
  ASSUME NewIInv, PlainInv, plain, AtRest, Phase1Write
  PROVE  /\ Underway /\ instruction.lba = Target /\ instruction.hash = cur.hash
         /\ Target \in LBAs /\ cur.hash \in Hashes /\ fi = 0 /\ ~buffer_flushed
         /\ after = NoInstruction /\ Unstored = 1 .. used
         /\ \A j \in Unstored : Target \notin Owners(j)
<1>1. /\ pc = "search" /\ fi = 0 /\ ~buffer_flushed /\ after = NoInstruction
      /\ Target \in LBAs /\ cur.hash \in Hashes /\ Buffered(Target) = {}
  BY Phase1Facts
<1>2. Underway /\ instruction.lba = Target /\ instruction.hash = cur.hash
  BY <1>1, InstructionAt DEF Running
<1>3. Unstored = 1 .. used /\ \A j \in Unstored : Target \notin Owners(j)
  BY <1>1 DEF Unstored, Waiting, Buffered, Owners
<1>4. QED
  BY <1>1, <1>2, <1>3

LEMMA ShareEnds ==
  ASSUME NewIInv, PlainInv, plain, AtRest, ShareOnDisk
  PROVE  WriteEnds
<1>1. /\ Phase1Write /\ pc' = "idle" /\ cur' = NoInstruction
      /\ UNCHANGED <<buf, used, fi, after, buffer_flushed>>
      /\ \E p : ltp' = [ltp EXCEPT ![Target] = Mapped(p, cur.hash)]
  BY DEF ShareOnDisk, Finish, newVars, codeVars
<1>2. PICK l \in LBAs, h \in Hashes : l = Target /\ h = cur.hash
  BY <1>1, Phase1Reads
<1>3. /\ Underway /\ instruction.lba = l /\ instruction.hash = h /\ fi = 0
      /\ \A j \in Unstored : l \notin Owners(j)
  BY <1>1, <1>2, Phase1Reads
<1>4. ~Underway'
  BY <1>1, <1>3 DEF Underway, instruction
<1>5. PICK p : ltp' = [ltp EXCEPT ![l] = Mapped(p, h)]
  BY <1>1, <1>2
<1>6. \A m \in LBAs \ {l} : Kept(m)' = Kept(m)
  BY <1>5, PlainBasics DEF Kept, TypeOK
<1>7. Kept(l)' = h
  <2>1. ltp'[l] = Mapped(p, h)
    BY <1>5, PlainBasics DEF TypeOK
  <2>2. QED
    BY <2>1 DEF Kept, Mapped
<1>8. Unstored' = Unstored /\ buf' = buf
  BY <1>1 DEF Unstored, Waiting
<1>9. \A m \in LBAs \ {l} : ReadsKept(m)
  BY <1>6, <1>8, ReadsSame DEF ReadsKept
<1>10. Reads(l, h)'
  BY <1>3, <1>7, <1>8 DEF Reads, Owners
<1>11. QED
  BY <1>3, <1>4, <1>9, <1>10 DEF WriteEnds

LEMMA JoinEnds ==
  ASSUME NewIInv, PlainInv, plain, AtRest, JoinBuffered
  PROVE  WriteEnds
<1>1. /\ Phase1Write /\ pc' = "idle" /\ cur' = NoInstruction
      /\ UNCHANGED <<ltp, used, fi, after, buffer_flushed>>
  BY DEF JoinBuffered, Buffering, Finish
<1>2. PICK l \in LBAs, h \in Hashes : l = Target /\ h = cur.hash
  BY <1>1, Phase1Reads
<1>3. /\ Underway /\ instruction.lba = l /\ instruction.hash = h /\ fi = 0 /\ Unstored = 1 .. used
      /\ \A j \in Unstored : l \notin Owners(j)
  BY <1>1, <1>2, Phase1Reads
<1>4. ~Underway'
  BY <1>1, <1>3 DEF Underway, instruction
<1>5. PICK i \in 1 .. used :
        /\ i \in BufIndex /\ buf[i].hash = h /\ buf[i].lba \in Seq(LBAs)
        /\ buf'[i].hash = buf[i].hash /\ buf'[i].lba = Append(buf[i].lba, l)
        /\ \A j \in BufIndex \ {i} : buf'[j] = buf[j]
  BY <1>2, JoinFacts
<1>6. Unstored' = Unstored /\ \A j \in Unstored : j \in BufIndex
  <2>1. used \in 0 .. BufNum /\ BufNum \in Nat
    BY PlainBasics
  <2>2. QED
    BY <1>1, <1>3, <2>1 DEF Unstored, Waiting, BufIndex
<1>7. \A m : m \in Owners(i)' <=> m \in Owners(i) \/ m = l
  <2>0. PICK s \in Seq(LBAs) : s = buf[i].lba
    BY <1>5
  <2>1. PICK w : w = buf'[i].lba /\ w = Append(s, l)
    BY <1>5, <2>0
  <2>2. /\ Len(s) \in Nat /\ Len(w) = Len(s) + 1 /\ w[Len(s) + 1] = l
        /\ \A a \in 1 .. Len(s) : w[a] = s[a]
    BY <2>1, AppendCells
  <2>3. \A m : m \in SeqToSet(w) <=> m \in SeqToSet(s) \/ m = l
    <3>1. \A a \in 1 .. Len(w) : a \in 1 .. Len(s) \/ a = Len(s) + 1
      BY <2>2
    <3>2. \A a \in 1 .. Len(s) : a \in 1 .. Len(w)
      BY <2>2
    <3>3. Len(s) + 1 \in 1 .. Len(w)
      BY <2>2
    <3>4. QED
      BY <2>2, <3>1, <3>2, <3>3 DEF SeqToSet
  <2>4. QED
    BY <2>0, <2>1, <2>3 DEF Owners
<1>8. \A j \in Unstored : /\ buf'[j].hash = buf[j].hash
                          /\ \A m \in LBAs \ {l} : m \in Owners(j)' <=> m \in Owners(j)
  <2>1. \A j \in Unstored \ {i} : buf'[j].hash = buf[j].hash /\ Owners(j)' = Owners(j)
    BY <1>5, <1>6 DEF Owners
  <2>2. QED
    BY <1>5, <1>7, <2>1
<1>9. ASSUME NEW m \in LBAs \ {l} PROVE ReadsKept(m)
  <2>1. Kept(m)' = Kept(m)
    BY <1>1 DEF Kept
  <2>2. QED
    BY <1>6, <1>8, <2>1 DEF ReadsKept, Reads
<1>10. Reads(l, h)'
  <2>1. i \in Unstored' /\ l \in Owners(i)' /\ buf'[i].hash = h
    BY <1>3, <1>5, <1>6, <1>7
  <2>2. QED
    BY <2>1 DEF Reads
<1>11. QED
  BY <1>3, <1>4, <1>9, <1>10 DEF WriteEnds

LEMMA FillEnds ==
  ASSUME NewIInv, PlainInv, plain, AtRest, FillBlock
  PROVE  WriteEnds
<1>1. /\ Phase1Write /\ UNCHANGED <<ltp, buffer_flushed>>
      /\ IF used' = BufNum THEN StartFlush(NoInstruction) ELSE Finish /\ UNCHANGED <<fi, after>>
  BY DEF FillBlock, Buffering
<1>2. PICK l \in LBAs, h \in Hashes : l = Target /\ h = cur.hash
  BY <1>1, Phase1Reads
<1>3. /\ Underway /\ instruction.lba = l /\ instruction.hash = h /\ fi = 0 /\ Unstored = 1 .. used
      /\ ~buffer_flushed /\ after = NoInstruction
      /\ \A j \in Unstored : l \notin Owners(j)
  BY <1>1, <1>2, Phase1Reads
<1>4. after' = NoInstruction /\ \/ fi' = 0 /\ cur' = NoInstruction
                                \/ fi' = 1 /\ used' = BufNum
  BY <1>1, <1>3 DEF StartFlush, Finish
<1>5. ~Underway'
  BY <1>4 DEF Underway, instruction
<1>6. NewTypeOK /\ BufferInv /\ used \in Nat /\ BufNum \in Nat /\ Target \in LBAs /\ cur.hash \in Hashes
  BY <1>2, PlainBasics DEF NewIInv
<1>7. PICK n \in BufIndex : /\ n = used + 1 /\ used' = n /\ \A j \in BufIndex \ {n} : buf'[j] = buf[j]
                            /\ buf'[n].hash = h /\ buf'[n].lba = <<l>>
  BY <1>2, <1>6, BlockFilled
<1>8. Unstored' = 1 .. n
  <2>1. Waiting' = 1 .. n
    BY <1>4, <1>7 DEF Waiting
  <2>2. QED
    BY <1>1, <1>3, <2>1 DEF Unstored
<1>9. /\ \A j \in Unstored' : j = n \/ (j \in Unstored /\ buf'[j] = buf[j] /\ Owners(j)' = Owners(j))
      /\ Unstored \subseteq Unstored' /\ n \in Unstored' /\ n \notin Unstored
  <2>1. \A j \in 1 .. n : j = n \/ (j \in 1 .. used /\ j \in BufIndex \ {n})
    BY <1>6, <1>7 DEF BufIndex
  <2>2. 1 .. used \subseteq 1 .. n /\ n \in 1 .. n /\ n \notin 1 .. used
    BY <1>6, <1>7
  <2>3. \A j \in BufIndex \ {n} : buf'[j] = buf[j] /\ Owners(j)' = Owners(j)
    BY <1>7 DEF Owners
  <2>4. QED
    BY <1>3, <1>8, <2>1, <2>2, <2>3
<1>10. Owners(n)' = {l}
  BY <1>7 DEF Owners, SeqToSet
<1>11. ASSUME NEW m \in LBAs \ {l} PROVE ReadsKept(m)
  <2>1. Kept(m)' = Kept(m)
    BY <1>1 DEF Kept
  <2>2. m \notin Owners(n)'
    BY <1>10
  <2>3. \A j \in Unstored : buf'[j] = buf[j] /\ Owners(j)' = Owners(j)
    BY <1>9
  <2>4. QED
    BY <1>9, <2>1, <2>2, <2>3 DEF ReadsKept, Reads
<1>12. Reads(l, h)'
  <2>1. n \in Unstored' /\ l \in Owners(n)' /\ buf'[n].hash = h
    BY <1>7, <1>9, <1>10
  <2>2. QED
    BY <2>1 DEF Reads
<1>13. QED
  BY <1>3, <1>5, <1>11, <1>12 DEF WriteEnds

LEMMA StoreEnds ==
  ASSUME NewIInv, PlainInv, plain, AtRest, NewStoreShared \/ NewStoreOwned
  PROVE  WriteEnds
<1>1. fi = 0 /\ pc = "store" /\ UNCHANGED <<ltp, buf, used, fi, after, buffer_flushed>>
  BY DEF NewStoreShared, Sharing, NewStoreOwned, StoreUnchanged, newVars, codeVars
<1>2. /\ buffer_flushed /\ cur.n = 1 /\ cur.i = 0 /\ Target \in LBAs /\ StoreInv
  BY <1>1, LaterFacts
<1>3. pc' = "idle" /\ cur' = NoInstruction
  <2>1. ~(cur.i + 1 < cur.n)
    BY <1>2
  <2>2. QED
    BY <2>1 DEF NewStoreShared, NewStoreOwned, Finish
<1>4. PICK l \in LBAs, h \in Hashes : l = Target /\ h = cur.hash /\ ltp[l] = Mapped(cur.pba, h)
  BY <1>1, <1>2 DEF StoreInv, WriteInv, Running
<1>5. Underway /\ instruction.lba = l /\ instruction.hash = h
  BY <1>1, <1>4, InstructionAt DEF Running
<1>6. ~Underway'
  BY <1>1, <1>3 DEF Underway, instruction
<1>7. Unstored = {} /\ Unstored' = {}
  BY <1>1, <1>2 DEF Unstored
<1>8. \A m : Kept(m)' = Kept(m)
  BY <1>1 DEF Kept
<1>9. \A m \in LBAs \ {l} : ReadsKept(m)
  BY <1>7, <1>8 DEF ReadsKept, Reads
<1>10. Kept(l) = h
  BY <1>4 DEF Kept, Mapped
<1>11. Reads(l, h)'
  BY <1>7, <1>8, <1>10 DEF Reads
<1>12. QED
  BY <1>5, <1>6, <1>9, <1>11 DEF WriteEnds

(* The writes that go on.                                                  *)
LEMMA AgainGoesOn ==
  ASSUME NewIInv, PlainInv, plain, FlushAgain
  PROVE  WriteGoesOn
<1>1. /\ fi = 0 /\ zinfo.phases > 1 /\ ~buffer_flushed /\ buffer_flushed'
      /\ fi' = 1 /\ after' = cur /\ plain' = plain /\ UNCHANGED <<ltp, buf, used>>
  BY DEF FlushAgain, Flushed, StartFlush
<1>2. instruction = cur /\ instruction' = cur
  BY <1>1 DEF instruction
<1>3. Unstored = {} /\ Unstored' = {}
  <2>1. used = 0
    BY <1>1 DEF PlainInv, BlocksInv
  <2>2. Waiting = 1 .. 0
    BY <1>1, <2>1 DEF Waiting
  <2>3. QED
    BY <1>1, <2>2 DEF Unstored
<1>4. \A l \in LBAs : ReadsKept(l)
  BY <1>1, <1>3 DEF ReadsKept, Reads, Kept
<1>5. QED
  BY <1>1, <1>2, <1>4 DEF WriteGoesOn, Underway

(* A lookup or an allocation changes what is kept of its own block only.   *)
LEMMA OwnEntryOnly ==
  ASSUME UNCHANGED <<buf, used, fi, after, buffer_flushed, plain>>, NEW t \in LBAs,
         \A l \in LBAs \ {t} : Kept(l)' = Kept(l),
         (t \in Owners(fi) /\ fi \in Unstored) \/ (Underway /\ t = instruction.lba),
         Underway' = Underway,
         instruction'.lba = instruction.lba /\ instruction'.hash = instruction.hash
  PROVE  WriteGoesOn
<1>1. Unstored' = Unstored
  BY DEF Unstored, Waiting
<1>2. \A l \in LBAs \ {t} : ReadsKept(l)
  BY <1>1, ReadsSame DEF ReadsKept
<1>3. ASSUME fi \in Unstored, t \in Owners(fi) PROVE ReadsKept(t)
  <2>1. \A j : Owners(j)' = Owners(j) /\ buf'[j].hash = buf[j].hash
    BY DEF Owners
  <2>2. QED
    BY <1>1, <1>3, <2>1 DEF ReadsKept, Reads
<1>4. QED
  BY <1>2, <1>3 DEF WriteGoesOn

LEMMA LookupGoesOn ==
  ASSUME NewIInv, NewIInv', PlainInv, PlainInv', plain, AtRest, Lookup
  PROVE  WriteGoesOn
<1>1. fi = 0 /\ Search /\ UNCHANGED <<buf, used, fi, after, buffer_flushed, plain>>
  BY DEF Lookup, newVars, codeVars
<1>2. pc = "search"
  BY <1>1 DEF Search, SearchOverwriteInPlace, SearchOverwriteSwapped, Overwrites, SearchRestore,
    SearchRestoreMoved, SearchSame, SearchShare, SearchTakeOver, SearchNew, SearchBeyond, Searching
<1>3. PlainTarget(Target, cur.hash) /\ TypeOK
  BY <1>1, <1>2, PlainBasics DEF PlainInv, InstructionInv
<1>4. PlainSearch /\ Booked = {}
  BY <1>2, <1>3, NewSearchFacts
<1>5. cur'.lba = cur.lba /\ cur'.hash = cur.hash
  BY <1>1, <1>4, SearchLeaves
<1>6. PICK t \in LBAs : t = Target
  BY <1>3 DEF PlainTarget
<1>7. \A l \in LBAs \ {t} : Kept(l)' = Kept(l)
  BY <1>1, <1>3, <1>6, EntriesKept
<1>8. Underway /\ instruction = cur /\ t = instruction.lba /\ cur.hash # NoHash
  BY <1>1, <1>2, <1>4, <1>6, InstructionAt, HashAssumption DEF Running, PlainSearch
<1>9. instruction' = cur' /\ Underway'
  <2>1. instruction' = cur'
    BY <1>1 DEF instruction
  <2>2. cur'.hash # NoInstruction.hash
    BY <1>5, <1>8 DEF NoInstruction
  <2>3. QED
    BY <1>1, <2>1, <2>2 DEF Underway
<1>10. QED
  BY <1>1, <1>5, <1>6, <1>7, <1>8, <1>9, OwnEntryOnly

LEMMA AllocateGoesOn ==
  ASSUME NewIInv, PlainInv, plain, AtRest, NewAllocate
  PROVE  WriteGoesOn
<1>1. /\ pc = "alloc" /\ AllocUnchanged /\ UNCHANGED <<buf, used, fi, after, buffer_flushed>>
      /\ \/ \E t \in Tracks : status[t] = "free" /\ Book(t)
         \/ UNCHANGED <<status, ltp, cur>>
  BY AllocateMoves
<1>2. plain' = plain
  BY DEF NewAllocate, NewPhase1, NewPhase1Last, NewPhase1Full, NewAllocUnchanged, newVars
<1>3. StoreInv /\ fi \in Nat
  <2>1. fi > 0 => ~buffer_flushed
    BY <1>1 DEF PlainInv, InstructionInv
  <2>2. QED
    BY <2>1, PlainBasics DEF PlainInv, SettledInv, Reflushing
<1>4. PICK t \in LBAs : t = Target
  BY <1>1, <1>3 DEF StoreInv, WriteInv, Running
<1>5. /\ \A l \in LBAs \ {t} : ltp'[l] = ltp[l]
      /\ cur'.lba = cur.lba /\ cur'.hash = cur.hash
  <2>1. CASE UNCHANGED <<status, ltp, cur>>
    BY <2>1
  <2>2. CASE \E q \in Tracks : status[q] = "free" /\ Book(q)
    <3>1. PICK q \in Tracks : status[q] = "free" /\ Book(q)
      BY <2>2
    <3>2. QED
      BY <1>1, <1>3, <1>4, <3>1, BookFacts
  <2>3. QED
    BY <1>1, <2>1, <2>2
<1>6. \A l \in LBAs \ {t} : Kept(l)' = Kept(l)
  BY <1>5 DEF Kept
<1>7. CASE fi = 0
  <2>1. Underway /\ instruction = cur /\ t = instruction.lba /\ cur.hash \in Hashes
    BY <1>1, <1>3, <1>4, <1>7, InstructionAt DEF Running, StoreInv, WriteInv
  <2>2. instruction' = cur'
    BY <1>1, <1>7 DEF instruction
  <2>3. cur'.hash # NoInstruction.hash
    BY <1>5, <2>1, HashAssumption DEF NoInstruction
  <2>4. Underway'
    BY <1>2, <2>2, <2>3 DEF Underway
  <2>5. QED
    BY <1>1, <1>2, <1>5, <1>6, <2>1, <2>2, <2>4, OwnEntryOnly
<1>8. CASE fi # 0
  <2>1. instruction' = instruction /\ Underway' = Underway
    BY <1>1, <1>2, <1>8 DEF instruction, Underway
  <2>2. fi > 0 /\ ~buffer_flushed
    BY <1>1, <1>3, <1>8 DEF PlainInv, InstructionInv
  <2>3. t \in Owners(fi) /\ fi \in Unstored
    BY <1>1, <1>4, <2>2, FirstRound
  <2>4. /\ UNCHANGED <<buf, used, fi, after, buffer_flushed, plain>>
        /\ instruction'.lba = instruction.lba /\ instruction'.hash = instruction.hash
    BY <1>1, <1>2, <2>1
  <2>5. QED
    BY <1>6, <2>1, <2>3, <2>4, OwnEntryOnly
<1>9. QED
  BY <1>7, <1>8

(* A flush changes nothing that a user reads.                              *)
LEMMA UpdateKept ==
  ASSUME NewIInv, PlainInv, FlushUpdate, NEW l \in LBAs
  PROVE  Kept(l)' = Kept(l)
<1>1. UpdateInPlace \/ UpdateSwapped
  BY DEF FlushUpdate
<1>2. CASE UpdateInPlace
  <2>1. fi > 0 /\ pc \in Running /\ Reflushing /\ TypeOK
    BY FlushTurnFacts, PlainBasics DEF FlushUpdate, NeverWritten, Reflushing
  <2>2. PICK p \in Tracks : ltp[Target] = Mapped(p, cur.hash)
    BY <2>1, LastRound
  <2>3. ltp' = [ltp EXCEPT ![Target] = Mapped(p, cur.hash)]
    BY <1>2, <2>2 DEF UpdateInPlace, Mapped
  <2>4. ltp'[l] = ltp[l]
    BY <2>1, <2>2, <2>3 DEF TypeOK
  <2>5. QED
    BY <2>4 DEF Kept
<1>3. CASE UpdateSwapped
  <2>1. PICK b, t \in Tracks : Exchanged(b, t) /\ ltp[Target] = Mapped(b, cur.hash)
    BY <1>3, SwapBegins
  <2>2. CASE l = Target
    <3>1. ltp'[l] = Mapped(t, cur.hash) /\ ltp[l] = Mapped(b, cur.hash)
      BY <2>1, <2>2 DEF Exchanged
    <3>2. QED
      BY <3>1 DEF Kept, Mapped
  <2>3. CASE l # Target
    BY <2>1, <2>3 DEF Exchanged, Kept
  <2>4. QED
    BY <2>2, <2>3
<1>4. QED
  BY <1>1, <1>2, <1>3

LEMMA FirstStoreReads ==
  ASSUME NewIInv, NewIInv', PlainInv, FlushStore, ~buffer_flushed, NEW l \in LBAs
  PROVE  ReadsKept(l)
<1>1. /\ fi > 0 /\ pc = "store" /\ pc \in {"search", "alloc", "store"} /\ NextBlock
      /\ UNCHANGED <<buf, buffer_flushed>>
  BY FlushStoreFacts
<1>2. PICK q \in Tracks, own \in Seq(LBAs), h \in Hashes : BlockWritten(q, own, h)
  BY FlushStoreFacts
<1>3. own = buf[fi].lba /\ h = buf[fi].hash
      /\ \A m \in LBAs : ltp'[m] = IF m \in SeqToSet(own) THEN Mapped(q, h) ELSE ltp[m]
  BY <1>2 DEF BlockWritten
<1>4. BlocksInv /\ Unstored = fi .. BufNum /\ fi \in Unstored
  BY <1>1, FirstRound
<1>5. \A j : Owners(j)' = Owners(j) /\ buf'[j].hash = buf[j].hash
  BY <1>1 DEF Owners
<1>6. Owners(fi) = SeqToSet(own)
  BY <1>3 DEF Owners
<1>7. \A j : j \in Unstored' <=> j \in Unstored /\ j # fi
  <2>1. /\ fi \in Nat /\ BufNum \in Nat
        /\ \/ fi < BufNum /\ fi' = fi + 1
           \/ fi = BufNum /\ fi' = 0 /\ used' = 0
    BY <1>1, FlushNext
  <2>2. CASE fi < BufNum
    <3>1. fi' = fi + 1 /\ fi' # 0
      BY <2>1, <2>2
    <3>2. Unstored' = fi + 1 .. BufNum
      BY <1>1, <3>1 DEF Unstored, Waiting
    <3>3. QED
      BY <1>4, <2>1, <3>2
  <2>3. CASE fi = BufNum
    <3>1. fi' = 0 /\ used' = 0
      BY <2>1, <2>3
    <3>2. Unstored' = 1 .. 0
      BY <1>1, <3>1 DEF Unstored, Waiting
    <3>3. QED
      BY <1>4, <2>1, <2>3, <3>2
  <2>4. QED
    BY <2>1, <2>2, <2>3
<1>8. CASE l \in SeqToSet(own)
  <2>1. \A j \in Unstored : j # fi => l \notin Owners(j)
    BY <1>4, <1>6, <1>8 DEF BlocksInv
  <2>2. \A c : Reads(l, c) => c = h
    BY <1>3, <1>4, <1>6, <1>8, <2>1 DEF Reads
  <2>3. ltp'[l] = Mapped(q, h)
    BY <1>3, <1>8
  <2>4. Kept(l)' = h
    BY <2>3 DEF Kept, Mapped
  <2>5. \A j \in Unstored' : l \notin Owners(j)'
    BY <1>5, <1>7, <2>1
  <2>6. QED
    BY <2>2, <2>4, <2>5 DEF ReadsKept, Reads
<1>9. CASE l \notin SeqToSet(own)
  <2>1. Kept(l)' = Kept(l)
    BY <1>3, <1>9 DEF Kept
  <2>2. l \notin Owners(fi)
    BY <1>6, <1>9
  <2>3. QED
    BY <1>5, <1>7, <2>1, <2>2 DEF ReadsKept, Reads
<1>10. QED
  BY <1>8, <1>9

LEMMA FlushStill ==
  ASSUME NewIInv, NewIInv', PlainInv, FlushStep
  PROVE  fi # 0 /\ instruction' = instruction /\ plain' = plain
<1>1. CASE FlushUpdate \/ FlushNew \/ FlushGrow
  <2>1. fi > 0 /\ UNCHANGED <<fi, after, plain>>
    BY <1>1 DEF FlushUpdate, FlushNew, FlushGrow, FlushTurn, newVars, codeVars
  <2>2. fi # 0
    BY <2>1
  <2>3. QED
    BY <2>1, <2>2 DEF instruction
<1>2. CASE FlushStore
  <2>1. fi > 0 /\ NextBlock /\ fi \in Nat /\ plain' = plain
    BY <1>2, FlushStoreFacts, PlainBasics DEF FlushStore
  <2>2. \/ fi' = fi + 1 /\ after' = after
        \/ /\ fi' = 0
           /\ \/ after = NoInstruction /\ cur' = NoInstruction
              \/ cur' = after
    BY <2>1, FlushNext
  <2>3. fi # 0 /\ fi + 1 # 0
    BY <2>1
  <2>4. QED
    BY <2>1, <2>2, <2>3 DEF instruction
<1>3. QED
  BY <1>1, <1>2, RestoreNever DEF FlushStep

LEMMA FlushKeepsOn ==
  ASSUME NewIInv, NewIInv', PlainInv, plain, FlushStep
  PROVE  WriteGoesOn
<1>1. instruction' = instruction /\ Underway' = Underway
  BY FlushStill DEF Underway
<1>2. ASSUME NEW l \in LBAs PROVE ReadsKept(l)
  <2>1. CASE FlushUpdate \/ FlushNew \/ FlushGrow
    <3>0. UNCHANGED <<buf, used, fi, buffer_flushed>>
      BY <2>1 DEF FlushUpdate, FlushNew, FlushGrow, newVars, codeVars
    <3>1. Unstored' = Unstored /\ buf' = buf
      BY <3>0 DEF Unstored, Waiting
    <3>2. Kept(l)' = Kept(l)
      <4>1. CASE FlushUpdate
        BY <4>1, UpdateKept
      <4>2. CASE FlushNew \/ FlushGrow
        BY <4>2 DEF FlushNew, FlushGrow, Kept
      <4>3. QED
        BY <2>1, <4>1, <4>2
    <3>3. QED
      BY <3>1, <3>2, ReadsSame DEF ReadsKept
  <2>2. CASE FlushStore /\ ~buffer_flushed
    BY <2>2, FirstStoreReads
  <2>3. CASE FlushStore /\ buffer_flushed
    <3>1. buf' = buf /\ buffer_flushed' = buffer_flushed /\ ltp' = ltp
      BY <2>3, FlushStoreFacts, LastStoreSame
    <3>2. Unstored = {} /\ Unstored' = {}
      BY <2>3, <3>1 DEF Unstored
    <3>3. QED
      BY <3>1, <3>2 DEF ReadsKept, Reads, Kept
  <2>4. QED
    BY <2>1, <2>2, <2>3, RestoreNever DEF FlushStep
<1>3. QED
  BY <1>1, <1>2 DEF WriteGoesOn

(* Every step of a write, as the logical store sees it.                    *)
LEMMA StepsOfWrites ==
  ASSUME NewIInv, NewIInv', PlainInv, PlainInv', plain, AtRest, NewProgress, ~Overrun
  PROVE  WriteGoesOn \/ WriteEnds
<1>1. CASE WriteStep
  BY <1>1, ShareEnds, JoinEnds, FillEnds, StoreEnds, BeyondNever, MismatchNever, AgainGoesOn,
    LookupGoesOn DEF WriteStep
<1>2. CASE FlushStep
  BY <1>2, FlushKeepsOn
<1>3. CASE NewAllocate
  BY <1>3, AllocateGoesOn
<1>4. QED
  BY <1>1, <1>2, <1>3 DEF NewProgress

LEMMA StartReads ==
  ASSUME NewIInv, PlainInv, plain, AtRest,
         NEW l \in 0 .. L, NEW n \in 1 .. MaxBlocks, NEW h \in Hashes, NewStartWrite(l, n, h)
  PROVE  /\ ~Underway /\ Underway' /\ l \in LBAs
         /\ instruction'.lba = l /\ instruction'.hash = h
         /\ \A m \in LBAs : ReadsKept(m)
<1>1. /\ pc = "idle" /\ fi = 0 /\ l \in LBAs /\ cur'.lba = l /\ cur'.hash = h
      /\ UNCHANGED <<ltp, buf, used, fi, buffer_flushed, plain>>
  BY NewStartFacts DEF newVars, codeVars
<1>2. instruction' = cur' /\ cur'.hash # NoInstruction.hash
  BY <1>1, HashAssumption DEF instruction, NoInstruction
<1>3. ~Underway /\ Underway'
  BY <1>1, <1>2, InstructionAt DEF Underway
<1>4. Unstored' = Unstored
  BY <1>1 DEF Unstored, Waiting
<1>5. \A m \in LBAs : Kept(m)' = Kept(m)
  BY <1>1 DEF Kept
<1>6. QED
  BY <1>1, <1>2, <1>3, <1>4, <1>5, ReadsSame DEF ReadsKept

LEMMA TrimReads ==
  ASSUME NewIInv, PlainInv, PlainInv', plain, AtRest, NEW l \in LBAs, NewTrim(l)
  PROVE  /\ ~Underway /\ ~Underway' /\ Reads(l, NoHash)'
         /\ \A m \in LBAs \ {l} : ReadsKept(m)
<1>1. Trim(l) /\ PlainTrim(l) /\ UNCHANGED <<buf, used, fi, after, buffer_flushed, plain>>
  BY DEF NewTrim, codeVars, CountInstruction
<1>2. /\ pc = "idle" /\ cur' = cur /\ ltp' = [ltp EXCEPT ![l].trim = TRUE, ![l].valid = FALSE]
  BY <1>1 DEF Trim, TrimBadStatus, TrimNotListed, TrimListed, Trimming
<1>3. fi = 0 /\ ~Underway /\ (zinfo.phases = 1 => ~buffer_flushed)
  BY <1>2, InstructionAt DEF NewIInv, TurnInv
<1>4. ~Underway'
  BY <1>1, <1>2, <1>3 DEF Underway, instruction
<1>5. Unstored' = Unstored /\ \A j \in Unstored : l \notin Owners(j)
  <2>1. Unstored' = Unstored
    BY <1>1 DEF Unstored, Waiting
  <2>2. Buffered(l) = {}
    BY <1>1 DEF PlainTrim
  <2>3. \A j \in Unstored : j \in Waiting
    BY DEF Unstored
  <2>4. QED
    BY <2>1, <2>2, <2>3 DEF Buffered, Owners
<1>6. \A m \in LBAs : Kept(m)' = IF m = l THEN NoHash ELSE Kept(m)
  BY <1>2, PlainBasics DEF Kept, TypeOK, Entries
<1>7. \A m \in LBAs \ {l} : ReadsKept(m)
  BY <1>1, <1>5, <1>6, ReadsSame DEF ReadsKept
<1>8. \A j : Owners(j)' = Owners(j)
  BY <1>1 DEF Owners
<1>9. Reads(l, NoHash)'
  BY <1>5, <1>6, <1>8 DEF Reads
<1>10. QED
  BY <1>3, <1>4, <1>7, <1>9

LEMMA InitReads == NewInit => AtRest /\ ~Underway /\ buffered_content = [l \in LBAs |-> NoHash]
<1> SUFFICES ASSUME NewInit
             PROVE  AtRest /\ ~Underway /\ buffered_content = [l \in LBAs |-> NoHash]
  OBVIOUS
<1>1. /\ fi = 0 /\ used = 0 /\ cur = NoInstruction /\ \A l \in LBAs : ~ltp[l].valid
  BY DEF NewInit
<1>2. AtRest /\ ~Underway
  BY <1>1 DEF AtRest, Underway, instruction
<1>3. Waiting = 1 .. 0
  BY <1>1 DEF Waiting
<1>4. \A l : Buffered(l) = {}
  BY <1>3 DEF Buffered
<1>5. QED
  BY <1>1, <1>2, <1>4 DEF buffered_content

(* For every disk, every size of the buffer and every plain trace, the     *)
(* new_alloc build implements the logical store: a logical block keeps its *)
(* content until it is itself written or trimed, whether it waits in the   *)
(* buffer, is on its way to a track, or is flushed there a second time     *)
(* (lba.c:774-1003, pba.c:45-257, 682-899).                                *)
THEOREM ImplementsBufferedStore ==
  ASSUME Garbage = {NoLba} PROVE NewSpec => BufferKeepsContent
<1> DEFINE op == IF Underway THEN <<instruction.lba, instruction.hash>> ELSE <<>>
<1>1. NewInit => BufferedStore!StoreInit
  BY InitReads DEF BufferedStore!StoreInit, BufferedStore!Idle
<1>2. ASSUME NewIInv, NewIInv', PlainInv, PlainInv', AtRest, AtRest', plain, plain',
             [NewNext]_allVars, ~Overrun
      PROVE  [BufferedStore!StoreNext]_<<buffered_content, op>>
  <2>1. ContentRead /\ ContentRead' /\ BlocksInv'
    BY <1>2, ContentReads, ContentReadsNext DEF PlainInv
  <2>2. CASE NewProgress
    <3>1. CASE WriteGoesOn
      <4>1. buffered_content' = buffered_content
        BY <1>2, <2>1, <3>1, GoingOnStutters
      <4>2. op' = op
        BY <3>1 DEF WriteGoesOn
      <4>3. QED
        BY <4>1, <4>2
    <3>2. CASE WriteEnds
      <4>1. buffered_content' = [buffered_content EXCEPT ![instruction.lba] = instruction.hash]
        BY <1>2, <2>1, <3>2, EndingWrites
      <4>2. op = <<instruction.lba, instruction.hash>> /\ op' = <<>>
        BY <3>2 DEF WriteEnds
      <4>3. BufferedStore!EndWrite
        BY <4>1, <4>2 DEF BufferedStore!EndWrite, BufferedStore!Idle
      <4>4. QED
        BY <4>3 DEF BufferedStore!StoreNext
    <3>3. QED
      BY <1>2, <2>2, <3>1, <3>2, StepsOfWrites
  <2>3. ASSUME NEW l \in LBAs, NewTrim(l) PROVE BufferedStore!TrimBlock(l)
    <3>1. /\ ~Underway /\ ~Underway' /\ Reads(l, NoHash)'
          /\ \A m \in LBAs \ {l} : ReadsKept(m)
      BY <1>2, <2>3, TrimReads
    <3>2. \A m \in LBAs \ {l} : buffered_content'[m] = buffered_content[m]
      BY <2>1, <3>1, ContentKept
    <3>3. buffered_content'[l] = NoHash
      <4>1. PICK d : d = buffered_content'[l]
        OBVIOUS
      <4>2. Reads(l, d)'
        BY <2>1, <3>1, <4>1 DEF ContentRead, Reads
      <4>3. QED
        BY <2>1, <3>1, <4>1, <4>2, ReadsOneNext DEF ReadsUnique
    <3>4. buffered_content' = [buffered_content EXCEPT ![l] = NoHash]
      BY <1>2, <3>2, <3>3, ContentIsFunction, ContentIsFunctionNext
    <3>5. QED
      BY <3>1, <3>4 DEF BufferedStore!TrimBlock, BufferedStore!Idle
  <2>4. ASSUME NEW l \in 0 .. L, NEW n \in 1 .. MaxBlocks, NEW h \in Hashes, NewStartWrite(l, n, h)
        PROVE  l \in LBAs /\ BufferedStore!BeginWrite(l, h)
    <3>1. /\ ~Underway /\ Underway' /\ l \in LBAs
          /\ instruction'.lba = l /\ instruction'.hash = h
          /\ \A m \in LBAs : ReadsKept(m)
      BY <1>2, <2>4, StartReads
    <3>2. \A m \in LBAs \ {l} : buffered_content'[m] = buffered_content[m]
      BY <2>1, <3>1, ContentKept
    <3>3. buffered_content'[l] = InFlight
      BY <1>2, <3>1, ContentIsFunctionNext
    <3>4. buffered_content' = [buffered_content EXCEPT ![l] = InFlight]
      BY <1>2, <3>2, <3>3, ContentIsFunction, ContentIsFunctionNext
    <3>5. QED
      BY <3>1, <3>4 DEF BufferedStore!BeginWrite, BufferedStore!Idle
  <2>5. CASE UNCHANGED allVars
    BY <2>5 DEF allVars, vars, newVars, codeVars, buffered_content, Underway, instruction, Buffered, Waiting
  <2>6. QED
    BY <1>2, <2>2, <2>3, <2>4, <2>5 DEF NewNext, BufferedStore!StoreNext
<1>3. ASSUME ~plain, plain' = plain
      PROVE  [BufferedStore!StoreNext]_<<buffered_content, op>>
  BY <1>3 DEF buffered_content, Underway
<1>4. NewIInv /\ AtRest /\ [NewNext]_allVars => AtRest'
  BY RestKept
<1>5. ASSUME NewIInv, NewIInv', plain => PlainInv \/ Overran, AtRest, AtRest', [NewNext]_allVars
      PROVE  [BufferedStore!StoreNext]_<<buffered_content, op>>
  <2>1. plain' = plain
    BY <1>5, PlainKept
  <2>2. CASE ~plain
    BY <1>3, <2>1, <2>2
  <2>3. CASE Overran \/ Overrun
    <3>1. UNCHANGED <<hash, ltp, cur, buf, used, fi, after, plain>>
      BY <1>5, <2>3, OverranStays DEF Overrun, blocks, newVars, codeVars, allVars, vars
    <3>2. QED
      BY <3>1 DEF buffered_content, Underway, instruction, Buffered, Waiting
  <2>4. CASE plain /\ PlainInv /\ ~Overrun
    <3>1. PlainInv'
      BY <1>5, <2>4, NextPlain
    <3>2. QED
      BY <1>2, <1>5, <2>1, <2>4, <3>1
  <2>5. QED
    BY <1>5, <2>2, <2>3, <2>4
<1>6. NewInit => AtRest
  BY InitReads
<1>7. QED
  BY <1>1, <1>4, <1>5, <1>6, PlainInvariant, PTL DEF NewSpec, BufferKeepsContent, BufferedStore!StoreSpec
=============================================================================
