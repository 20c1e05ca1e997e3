--------------------------- MODULE DedupStoreProofs ---------------------------
(***************************************************************************)
(* What holds of DedupWrite for the traces it gets right, on every disk:   *)
(* lists of owners are exact, every valid block leads to its content, and  *)
(* the disk implements the logical store.  IInv of DedupWriteProofs is     *)
(* taken for granted; what is added is about single-block instructions     *)
(* (SingleInv), then about plain traces of them (StoreInv).                *)
(***************************************************************************)
EXTENDS DedupStore, DedupWriteProofs, FunctionTheorems

-----------------------------------------------------------------------------
(* Single-block instructions.                                              *)

SingleBlocks == MaxBlocks = 1

Booked == {t \in Tracks : status[t] = "booked"}

(* The batch, and the booked tracks, hold at most the track of the write;  *)
(* what a lookup finds is still what the instruction was chosen for.       *)
BatchInv ==
  /\ pc \in {"idle", "search", "alloc"} => gbtable = {} /\ Booked = {}
  /\ pc \in {"search", "alloc"} => ~cur.pass
  /\ pc = "search" => KindOf(Target, cur.hash) \in Trace
  /\ pc = "store" => /\ gbtable = {} /\ Booked \subseteq {cur.pba}
                     /\ cur.pba \in Booked => refs[cur.pba] = 0 /\ ~cur.pass
  /\ pc = "flush" => gbtable \subseteq {cur.pba} /\ Booked \subseteq gbtable

FreeUnshared == \A t \in Tracks : status[t] = "free" => refs[t] = 0

(* The tracks phase 1 has tried are counted as in use, but for one that is *)
(* booked and still to be written.                                         *)
NextToTry == zinfo.current_track + (IF zinfo.phase1_is_full THEN 2 ELSE 0)
CountInv ==
  zinfo.phases = 1 /\ pc \in {"idle"} \cup Running =>
    NextToTry <= 2 * (current_use + (IF Booked = {} THEN 0 ELSE 1))

SingleInv == BatchInv /\ FreeUnshared /\ CountInv

LEMMA OneBlock ==
  ASSUME SingleBlocks, TypeOK
  PROVE  cur.i = 0 /\ cur.n = 1 /\ Target = cur.lba /\ cur.lba \in Nat
  BY LogicalNumAssumption DEF SingleBlocks, TypeOK, Instructions, Target

(* Counting on, up to the bound, keeps up with what phase 1 has tried.     *)
LEMMA FrontierBound ==
  ASSUME TypeOK, AllocatorInv, zinfo.phases = 1
  PROVE  NextToTry \in Nat /\ NextToTry <= 2 * UseCap
<1>1. zinfo.current_track \in Bottoms /\ (zinfo.phase1_is_full => zinfo.current_track = phase1_end)
  BY DEF AllocatorInv, Phase1Frontier
<1>2. zinfo.current_track \in Nat /\ zinfo.current_track <= N - 2
  BY <1>1, NextBottomTrack, TracksNat, Geometry DEF Bottoms
<1>3. 2 * UseCap = N
  <2>1. N \in Nat /\ N % 2 = 0
    BY TrackNumAssumption
  <2>2. QED
    BY <2>1 DEF UseCap, BottomNum
<1>4. QED
  BY <1>1, <1>2, <1>3, Geometry DEF NextToTry

LEMMA CountedOn ==
  ASSUME TypeOK, NEW k \in Nat, AddUse(k), NEW n \in Nat, n <= 2 * UseCap,
         n <= 2 * (current_use + k)
  PROVE  n <= 2 * current_use'
<1>1. current_use \in Nat /\ UseCap \in Nat
  BY UseBound DEF TypeOK
<1>2. QED
  BY <1>1 DEF AddUse

(* A lookup that finds a track leaves nothing booked.                      *)
LEMMA FoundSingle ==
  ASSUME TypeOK, AllocatorInv, SingleInv, pc = "search", pc' = "store", gbtable' = gbtable,
         Booked' = {}, FreeUnshared', zinfo' = zinfo,
         NEW k \in Nat, current_use' = current_use \/ AddUse(k)
  PROVE  SingleInv'
<1>1. Booked = {} /\ gbtable = {}
  BY DEF SingleInv, BatchInv
<1>2. BatchInv'
  BY <1>1 DEF BatchInv
<1>3. CountInv'
  <2> SUFFICES ASSUME zinfo.phases = 1 PROVE NextToTry <= 2 * (current_use' + 0)
    BY DEF CountInv, NextToTry
  <2>1. NextToTry \in Nat /\ NextToTry <= 2 * UseCap
    BY FrontierBound
  <2>2. current_use \in Nat /\ current_use' \in Nat /\ NextToTry <= 2 * current_use
    <3>1. current_use' \in Nat
      BY AddUseType DEF TypeOK
    <3>2. QED
      BY <1>1, <3>1 DEF SingleInv, CountInv, TypeOK, Running
  <2>3. CASE AddUse(k)
    <3>1. NextToTry <= 2 * (current_use + k)
      BY <2>1, <2>2
    <3>2. NextToTry <= 2 * current_use'
      BY <2>1, <2>3, <3>1, CountedOn
    <3>3. QED
      BY <2>2, <3>2
  <2>4. QED
    BY <2>2, <2>3
<1>4. QED
  BY <1>2, <1>3 DEF SingleInv

LEMMA SearchSingle ==
  ASSUME SingleBlocks, IInv, SingleInv, Search
  PROVE  SingleInv'
<1>0. /\ TypeOK /\ AllocatorInv /\ UseInv /\ MappedAllocated /\ HashAllocated
      /\ pc = "search" /\ Booked = {} /\ gbtable = {} /\ ~cur.pass
  <2>1. pc = "search"
    BY DEF Search, SearchOverwriteInPlace, SearchOverwriteSwapped, Overwrites, SearchRestore,
      SearchRestoreMoved, SearchSame, SearchShare, SearchTakeOver, SearchNew, SearchBeyond, Searching
  <2>2. QED
    BY <2>1 DEF IInv, UseInv, SingleInv, BatchInv
<1>1. CASE SearchOverwriteInPlace \/ SearchRestore \/ SearchSame
  <2>1. /\ pc' = "store" /\ gbtable' = gbtable /\ zinfo' = zinfo
        /\ status' = status /\ refs' = refs /\ current_use' = current_use
    BY <1>1 DEF SearchOverwriteInPlace, UpdateInPlace, SearchRestore, SearchSame, Found, blocks
  <2>2. Booked' = {} /\ FreeUnshared'
    BY <1>0, <2>1 DEF Booked, SingleInv, FreeUnshared
  <2>3. QED
    BY <1>0, <2>1, <2>2, FoundSingle
<1>2. CASE SearchOverwriteSwapped
  <2>1. PICK b, t \in Tracks :
          /\ b = ltp[Target].pba /\ status[b] # "free" /\ status[t] = "in_use"
          /\ status' = SwapIn([status EXCEPT ![b] = "in_use"], t, b)
          /\ refs' = SwapIn(refs, t, b)
          /\ Found(t, cur.pass)
    BY <1>0, <1>2, SwapAllocated DEF SearchOverwriteSwapped, Overwrites
  <2>2. Booked' = {} /\ FreeUnshared'
    BY <1>0, <2>1 DEF Booked, SingleInv, FreeUnshared, SwapIn, TypeOK
  <2>3. PICK k \in {0, 1} : AddUse(k)
    BY <1>2 DEF SearchOverwriteSwapped, UpdateSwapped
  <2>4. gbtable' = gbtable /\ zinfo' = zinfo /\ pc' = "store"
    BY <1>2, <2>1 DEF SearchOverwriteSwapped, UpdateSwapped, Found
  <2>5. QED
    BY <1>0, <2>2, <2>3, <2>4, FoundSingle
<1>3. CASE SearchRestoreMoved \/ SearchShare
  <2>1. PICK p \in Tracks : /\ status[p] # "free"
                            /\ refs' = [refs EXCEPT ![p] = @ + 1] \/ refs' = refs
    <3>1. CASE SearchRestoreMoved
      <4>1. ltp[Target].pba \in Tracks /\ status[ltp[Target].pba] # "free"
        BY <1>0, <3>1, EntryAllocated DEF SearchRestoreMoved, Searching, NeverWritten
      <4>2. \A p \in {t \in Holding(cur.hash) : status[t] = "in_use"} :
              p \in Tracks /\ status[p] # "free"
        BY HoldingType
      <4>3. QED
        BY <3>1, <4>1, <4>2 DEF SearchRestoreMoved, FirstOf
    <3>2. CASE SearchShare
      <4>1. cur.hash \in Hashes
        BY <1>0 DEF UseInv, InProgress, Running
      <4>2. QED
        BY <1>0, <3>2, <4>1, HoldingAllocated DEF SearchShare, FirstOf
    <3>3. QED
      BY <1>3, <3>1, <3>2
  <2>2. /\ pc' = "store" /\ gbtable' = gbtable /\ zinfo' = zinfo
        /\ status' = status /\ current_use' = current_use
    BY <1>3 DEF SearchRestoreMoved, SearchShare, Found
  <2>3. Booked' = {} /\ FreeUnshared'
    BY <1>0, <2>1, <2>2 DEF Booked, SingleInv, FreeUnshared, TypeOK
  <2>4. QED
    BY <1>0, <2>2, <2>3, FoundSingle
<1>4. CASE SearchTakeOver
  <2>1. PICK p : /\ status' = [status EXCEPT ![p] = "in_use"]
                 /\ refs' = refs /\ pc' = "store" /\ gbtable' = gbtable /\ zinfo' = zinfo
                 /\ current_use' = current_use
    BY <1>4 DEF SearchTakeOver, Found
  <2>2. Booked' = {} /\ FreeUnshared'
    BY <1>0, <2>1 DEF Booked, SingleInv, FreeUnshared, TypeOK
  <2>3. QED
    BY <1>0, <2>1, <2>2, FoundSingle
<1>5. CASE SearchNew
  <2>1. pc' = "alloc" /\ UNCHANGED <<status, refs, gbtable, zinfo, current_use, cur>>
    BY <1>5 DEF SearchNew, blocks
  <2>2. BatchInv' /\ FreeUnshared'
    BY <1>0, <2>1 DEF SingleInv, BatchInv, FreeUnshared, Booked
  <2>3. CountInv'
    BY <1>0, <2>1 DEF SingleInv, CountInv, NextToTry, Booked, Running
  <2>4. QED
    BY <2>2, <2>3 DEF SingleInv
<1>6. CASE SearchBeyond
  BY <1>0, <1>6 DEF SearchBeyond, blocks, SingleInv, BatchInv, FreeUnshared, CountInv, Running
<1>7. QED
  BY <1>1, <1>2, <1>3, <1>4, <1>5, <1>6 DEF Search

LEMMA BookSingle ==
  ASSUME TypeOK, SingleInv, pc = "alloc", gbtable' = gbtable, refs' = refs,
         NEW t \in Tracks, status[t] = "free", Book(t)
  PROVE  BatchInv' /\ FreeUnshared' /\ Booked' = {t}
<1>1. Booked = {} /\ gbtable = {} /\ ~cur.pass /\ refs[t] = 0
  BY DEF SingleInv, BatchInv, FreeUnshared
<1>2. status' = [status EXCEPT ![t] = "booked"] /\ pc' = "store"
      /\ cur'.pba = t /\ cur'.pass = cur.pass
  BY DEF Book, Found, TypeOK, Instructions
<1>3. Booked' = {t}
  BY <1>1, <1>2 DEF Booked, TypeOK
<1>4. QED
  BY <1>1, <1>2, <1>3 DEF SingleInv, BatchInv, FreeUnshared, TypeOK

LEMMA AllocSingle ==
  ASSUME SingleBlocks, IInv, SingleInv, Alloc
  PROVE  SingleInv'
<1>0. /\ TypeOK /\ AllocatorInv /\ pc = "alloc" /\ Booked = {} /\ gbtable = {} /\ ~cur.pass
      /\ gbtable' = gbtable /\ refs' = refs /\ current_use' = current_use
  <2>1. pc = "alloc" /\ gbtable' = gbtable /\ refs' = refs /\ current_use' = current_use
    BY DEF Alloc, AllocPhase1, AllocPhase1Full, AllocPhase2, AllocPhase3, AllocPhase3Over,
      AllocPhase4, AllocDiskFull, Allocating, AllocUnchanged
  <2>2. QED
    BY <2>1 DEF IInv, SingleInv, BatchInv
<1>1. CASE AllocPhase1
  <2> DEFINE c == zinfo.current_track
  <2>1. c \in Tracks /\ zinfo.phases = 1 /\ ~zinfo.phase1_is_full /\ status[c] = "free"
    <3>1. c \in Bottoms /\ zinfo.phases = 1 /\ ~zinfo.phase1_is_full
      BY <1>0, <1>1 DEF AllocPhase1, Allocating, AllocatorInv, Phase1Frontier
    <3>2. c \in Tracks /\ c \in Nat /\ c >= c
      <4>1. c \in Tracks
        BY <3>1 DEF Bottoms
      <4>2. c \in Nat
        BY <4>1, TracksNat
      <4>3. c >= c
        BY <4>2
      <4>4. QED
        BY <4>1, <4>2, <4>3
    <3>3. QED
      BY <1>0, <3>1, <3>2 DEF AllocatorInv, Phase1Frontier
  <2>2. Book(c)
    BY <1>1, <2>1 DEF AllocPhase1, TryTrack
  <2>3. BatchInv' /\ FreeUnshared' /\ Booked' = {c}
    BY <1>0, <2>1, <2>2, BookSingle
  <2>4. c \in Nat /\ NextToTry = c /\ c <= 2 * current_use /\ current_use \in Nat
    BY <1>0, <2>1 DEF NextToTry, SingleInv, CountInv, Running, TypeOK, Allocators
  <2>5. NextToTry' = c + 2
    BY <1>0, <1>1, <2>1, <2>4 DEF AllocPhase1, NextToTry, NextBottom, TypeOK, Allocators
  <2>6. CountInv'
    BY <1>0, <2>3, <2>4, <2>5 DEF CountInv
  <2>7. QED
    BY <2>3, <2>6 DEF SingleInv
<1>2. CASE AllocPhase1Full
  <2>1. Free(EveryOther(phase1_start, phase1_end)) = {}
    BY <1>0, <1>2, EveryOtherBottom DEF AllocPhase1Full, Allocating, AllocatorInv, Phase1Frontier,
      Free, Bottoms
  <2>2. zinfo'.phases = 2 /\ status[zinfo.current_track] # "free"
    BY <1>0, <1>2, <2>1 DEF AllocPhase1Full, Allocating, AllocatorInv, Phase1Frontier, Bottoms,
      TypeOK, Allocators
  <2>3. UNCHANGED <<status, ltp, pc, cur>>
    BY <1>2, <2>1, <2>2 DEF AllocPhase1Full, TryTrack
  <2>4. QED
    BY <1>0, <2>2, <2>3 DEF SingleInv, BatchInv, FreeUnshared, CountInv, Booked
<1>3. CASE AllocPhase2 \/ AllocPhase3 \/ AllocPhase3Over \/ AllocPhase4 \/ AllocDiskFull
  <2>1. zinfo'.phases # 1
    <3>1. zinfo \in Allocators
      BY <1>0 DEF TypeOK
    <3>2. CASE AllocPhase2
      BY <3>1, <3>2 DEF AllocPhase2, Allocating, Allocators
    <3>3. CASE AllocPhase3
      BY <3>1, <3>3 DEF AllocPhase3, Allocating, Allocators
    <3>4. CASE AllocPhase3Over
      BY <3>1, <3>4 DEF AllocPhase3Over, Allocators
    <3>5. CASE AllocPhase4
      BY <3>1, <3>5 DEF AllocPhase4, Allocating, Allocators
    <3>6. CASE AllocDiskFull
      BY <3>1, <3>6 DEF AllocDiskFull, Allocating
    <3>7. QED
      BY <1>3, <3>2, <3>3, <3>4, <3>5, <3>6
  <2>2. \/ \E t \in Tracks : status[t] = "free" /\ Book(t)
        \/ UNCHANGED <<status, cur>> /\ pc' \in {"alloc", "undefined", "disk_full"}
    <3>1. CASE AllocPhase2 \/ AllocPhase3
      <4>1. zinfo.current_track \in Tracks \/ AllocPhase3
        BY <1>0, <3>1 DEF AllocPhase2, Allocating, AllocatorInv, TopPhases, Tops
      <4>2. zinfo.current_track \in Tracks
        BY <1>0, <3>1, <4>1, TrackNumAssumption
          DEF AllocPhase3, Allocating, AllocatorInv, TopPhases, Tracks, TypeOK, Allocators
      <4>3. QED
        BY <1>0, <3>1, <4>2 DEF AllocPhase2, AllocPhase3, TryShared, TryTrack
    <3>2. CASE AllocPhase3Over \/ AllocDiskFull
      BY <1>0, <3>2 DEF AllocPhase3Over, AllocDiskFull
    <3>3. CASE AllocPhase4
      BY <3>3 DEF AllocPhase4, FirstOf, Free, EveryOther
    <3>4. QED
      BY <1>3, <3>1, <3>2, <3>3
  <2>3. BatchInv' /\ FreeUnshared'
    <3>1. CASE \E t \in Tracks : status[t] = "free" /\ Book(t)
      BY <1>0, <3>1, BookSingle
    <3>2. CASE UNCHANGED <<status, cur>> /\ pc' \in {"alloc", "undefined", "disk_full"}
      BY <1>0, <3>2 DEF SingleInv, BatchInv, FreeUnshared, Booked
    <3>3. QED
      BY <2>2, <3>1, <3>2
  <2>4. QED
    BY <2>1, <2>3 DEF SingleInv, CountInv
<1>4. QED
  BY <1>1, <1>2, <1>3 DEF Alloc

LEMMA StoreSingle ==
  ASSUME SingleBlocks, IInv, SingleInv, StoreMismatch \/ StoreShared \/ StoreOwned
  PROVE  SingleInv'
<1>0. /\ TypeOK /\ pc = "store" /\ gbtable = {} /\ Booked \subseteq {cur.pba} /\ cur.pba \in Tracks
      /\ cur.pba \in Booked => refs[cur.pba] = 0 /\ ~cur.pass
      /\ UNCHANGED <<status, refs, zinfo, current_use>>
  <2>1. pc = "store" /\ UNCHANGED <<status, refs, zinfo, current_use>>
    BY DEF StoreMismatch, StoreShared, StoreOwned, StoreUnchanged
  <2>2. QED
    BY <2>1 DEF IInv, SingleInv, BatchInv, TypeOK, Instructions
<1>1. FreeUnshared' /\ Booked' = Booked /\ NextToTry' = NextToTry
  BY <1>0 DEF SingleInv, FreeUnshared, Booked, NextToTry
<1>2. CountInv'
  BY <1>0, <1>1 DEF SingleInv, CountInv, Running
<1>3. CASE StoreMismatch
  BY <1>1, <1>2, <1>3 DEF StoreMismatch, BatchInv, SingleInv
<1>4. CASE StoreShared
  <2>1. Booked = {} /\ pc' = "idle" /\ gbtable' = gbtable
    BY <1>0, <1>4, FS_EmptySet DEF StoreShared
  <2>2. QED
    BY <1>0, <1>1, <1>2, <2>1 DEF BatchInv, SingleInv
<1>5. CASE StoreOwned
  <2>1. pc' = "flush" /\ cur' = cur
    BY <1>0, <1>5, OneBlock DEF StoreOwned
  <2>2. gbtable' \subseteq {cur.pba} /\ Booked \subseteq gbtable'
    BY <1>0, <1>5 DEF StoreOwned
  <2>3. QED
    BY <1>1, <1>2, <2>1, <2>2 DEF BatchInv, SingleInv
<1>6. QED
  BY <1>3, <1>4, <1>5

LEMMA FlushSingle ==
  ASSUME SingleBlocks, IInv, SingleInv, Flush
  PROVE  SingleInv'
<1> DEFINE unused == {t \in gbtable : status[t] # "in_use"}
<1>0. /\ TypeOK /\ AllocatorInv /\ pc = "flush" /\ gbtable \subseteq {cur.pba} /\ Booked \subseteq gbtable
      /\ gbtable' = {} /\ pc' = "idle" /\ UNCHANGED <<refs, zinfo>>
  BY DEF Flush, IInv, SingleInv, BatchInv
<1>1. \A t \in Tracks : status'[t] = IF t \in gbtable THEN "in_use" ELSE status[t]
  BY DEF Flush
<1>2. Booked' = {} /\ FreeUnshared'
  BY <1>0, <1>1 DEF Booked, SingleInv, FreeUnshared
<1>3. CountInv'
  <2> SUFFICES ASSUME zinfo.phases = 1 PROVE NextToTry <= 2 * (current_use' + 0)
    BY <1>0, <1>2 DEF CountInv, NextToTry
  <2>1. NextToTry \in Nat /\ NextToTry <= 2 * UseCap
    BY <1>0, FrontierBound
  <2>2. AddUse(Cardinality(unused)) /\ Cardinality(unused) \in Nat
    BY <1>0, FlushedType DEF Flush
  <2>3. NextToTry <= 2 * (current_use + (IF Booked = {} THEN 0 ELSE 1)) /\ current_use \in Nat
    BY <1>0 DEF SingleInv, CountInv, Running, TypeOK
  <2>4. Booked # {} => Cardinality(unused) = 1
    <3>1. Booked # {} => unused = {cur.pba}
      BY <1>0 DEF Booked
    <3>2. QED
      BY <3>1, FS_Singleton
  <2>5. NextToTry <= 2 * (current_use + Cardinality(unused))
    BY <2>1, <2>2, <2>3, <2>4
  <2>6. NextToTry <= 2 * current_use' /\ current_use' \in Nat
    BY <1>0, <2>1, <2>2, <2>5, CountedOn, AddUseType DEF TypeOK
  <2>7. QED
    BY <2>6
<1>4. QED
  BY <1>0, <1>2, <1>3 DEF SingleInv, BatchInv

LEMMA TrimSingle ==
  ASSUME IInv, SingleInv, NEW l \in LBAs, Trim(l)
  PROVE  SingleInv'
<1>0. /\ TypeOK /\ pc = "idle" /\ gbtable = {} /\ Booked = {} /\ UNCHANGED <<zinfo, current_use, gbtable, cur>>
      /\ pc' \in {"idle", "bad_status", "not_listed"} /\ ltp[l].pba \in Tracks
  BY DEF Trim, TrimBadStatus, TrimNotListed, TrimListed, Trimming, IInv, SingleInv, BatchInv,
    TypeOK, Entries
<1>1. Booked' = {} /\ FreeUnshared'
  <2>1. CASE TrimBadStatus(l) \/ TrimNotListed(l)
    BY <1>0, <2>1 DEF TrimBadStatus, TrimNotListed, Booked, SingleInv, FreeUnshared
  <2>2. CASE TrimListed(l)
    BY <1>0, <2>2 DEF TrimListed, Vacate, Booked, SingleInv, FreeUnshared, TypeOK
  <2>3. QED
    BY <2>1, <2>2 DEF Trim
<1>2. QED
  BY <1>0, <1>1 DEF SingleInv, BatchInv, CountInv, NextToTry, Running

LEMMA StartSingle ==
  ASSUME SingleBlocks, IInv, SingleInv,
         NEW l \in 0 .. L, NEW n \in 1 .. MaxBlocks, NEW h \in Hashes, StartWrite(l, n, h)
  PROVE  SingleInv'
<1>1. /\ pc = "idle" /\ pc' \in {"search", "out_of_range"}
      /\ UNCHANGED <<status, refs, ltp, zinfo, current_use, gbtable>>
      /\ cur' = [NoInstruction EXCEPT !.lba = l, !.n = n, !.hash = h]
  BY DEF StartWrite, blocks
<1>2. ~cur'.pass /\ cur'.hash = h /\ Target' = l
  BY <1>1, LogicalNumAssumption DEF NoInstruction, Target
<1>3. n = 1 /\ KindOf(l, h) \in Trace
  BY LogicalNumAssumption DEF StartWrite, SingleBlocks
<1>4. KindOf(Target, cur.hash)' = KindOf(l, h)
  BY <1>1, <1>2 DEF KindOf
<1>5. BatchInv'
  BY <1>1, <1>2, <1>3, <1>4 DEF SingleInv, BatchInv, Booked
<1>6. FreeUnshared' /\ CountInv'
  BY <1>1 DEF SingleInv, FreeUnshared, CountInv, NextToTry, Booked, Running
<1>7. QED
  BY <1>5, <1>6 DEF SingleInv

LEMMA NextSingle ==
  ASSUME SingleBlocks, IInv, SingleInv, [Next]_vars
  PROVE  SingleInv'
<1>1. CASE UNCHANGED vars
  BY <1>1 DEF vars, SingleInv, BatchInv, FreeUnshared, CountInv, Booked, NextToTry, KindOf, Target
<1>2. CASE Progress
  BY <1>2, SearchSingle, AllocSingle, StoreSingle, FlushSingle DEF Progress
<1>3. QED
  BY <1>1, <1>2, TrimSingle, StartSingle DEF Next

LEMMA SingleInvariant ==
  ASSUME SingleBlocks
  PROVE  Spec => []SingleInv
<1>1. Init => SingleInv
  BY Geometry, UseBound DEF Init, SingleInv, BatchInv, FreeUnshared, CountInv, NextToTry, Booked
<1>2. IInv /\ SingleInv /\ [Next]_vars => SingleInv'
  BY NextSingle
<1>3. QED
  BY <1>1, <1>2, InductiveInvariant, PTL DEF Spec

(* On every disk the window of bottom tracks a phase-1 search by hash covers  *)
(* misses no block written, whatever the trace of single blocks does           *)
(* (pba.c:593-603).                                                            *)
THEOREM ScanMissesNothing == ASSUME SingleBlocks PROVE Spec => []ScanComplete
<1>1. IInv /\ SingleInv => ScanComplete
  <2> SUFFICES ASSUME IInv, SingleInv, zinfo.phases = 1, pc \in {"idle", "search"},
                      NEW t \in Tracks, hash[t] # NoHash
               PROVE  t \in Scanned
    BY DEF ScanComplete
  <2>1. TypeOK /\ status[t] # "free"
    BY DEF IInv, UseInv, HashAllocated
  <2>2. ~is_toptrack(t) /\ (t < zinfo.current_track \/ zinfo.phase1_is_full)
        /\ zinfo.current_track \in Bottoms
    BY <2>1 DEF IInv, AllocatorInv, Phase1Frontier, TypeOK, Allocators, Tracks
  <2>3. NextToTry <= 2 * current_use /\ current_use \in Nat /\ zinfo.current_track \in Nat
    BY <2>1 DEF SingleInv, BatchInv, CountInv, Running, TypeOK, Allocators
  <2>4. t <= phase1_end /\ (t < zinfo.current_track \/ zinfo.phase1_is_full) =>
          t < NextToTry
    BY <2>1, <2>2, <2>3, TracksNat DEF NextToTry, IInv, AllocatorInv, Phase1Frontier, TypeOK, Allocators
  <2>5. t <= phase1_end /\ t \in Nat /\ t % 2 = 0
    BY <2>2, NextBottomTrack, TracksNat DEF Bottoms, is_toptrack
  <2>6. (t - 0) \div 2 < current_use /\ (t - 0) % 2 = 0
    <3>1. t < 2 * current_use
      BY <2>2, <2>3, <2>4, <2>5 DEF NextToTry
    <3>2. QED
      BY <2>3, <2>5, <3>1
  <2>7. QED
    BY <2>5, <2>6, Geometry DEF Scanned, EveryOther, Tracks
<1>2. QED
  BY <1>1, InductiveInvariant, SingleInvariant, PTL

-----------------------------------------------------------------------------
(* Plain traces.                                                           *)

PlainKinds == {"append", "fresh", "same", "update", "rewrite", "trim"}

(* Cells that were never assigned do not happen to hold a block's number.  *)
PlainTraces == SingleBlocks /\ Trace \subseteq PlainKinds /\ Garbage = {NoLba}

Owner(l, p) == ltp[l].valid /\ ltp[l].pba = p

(* The first k cells of track p list its owners but for those in S.        *)
Lists(p, k, S) ==
  /\ k <= Len(lba_list[p])
  /\ \A i \in 1 .. k : lba_list[p][i] \in LBAs /\ lba_list[p][i] \notin S
                       /\ Owner(lba_list[p][i], p)
  /\ \A i, j \in 1 .. k : lba_list[p][i] = lba_list[p][j] => i = j
  /\ \A l \in LBAs \ S : Owner(l, p) => \E i \in 1 .. k : lba_list[p][i] = l

(* A track whose owners are all gone has none listed that could be wrong:  *)
(* the last one stays in its first cell, and stays trimed.                 *)
Vacated(p) ==
  /\ refs[p] = 0 /\ \A l \in LBAs : ~Owner(l, p)
  /\ status[p] = "trimed" => LET l == lba_list[p][1] IN
                               l \in LBAs /\ ltp[l].trim /\ ltp[l].pba = p

Settled(p) == IF status[p] = "in_use" THEN Lists(p, refs[p] + 1, {}) ELSE Vacated(p)

UnderWay(p) == pc \in {"store", "flush"} /\ p = cur.pba

(* What the store finds: a track all of whose owners are gone or are the   *)
(* writer, one that holds the writer and its content already, or a shared  *)
(* one with the content whose list has yet to get the writer.              *)
ToWrite(p) == ~cur.pass /\ refs[p] = 0 /\ \A l \in LBAs : Owner(l, p) => l = Target
ToPass(p) == cur.pass /\ refs[p] = 0 /\ Lists(p, 1, {})
ToJoin(p) == /\ refs[p] > 0 /\ Lists(p, refs[p], {Target})
             /\ \A i \in 1 .. Len(lba_list[p]) : lba_list[p][i] # Target

TracksInv ==
  /\ \A p \in Tracks : ~UnderWay(p) => Settled(p)
  /\ pc = "store" => \/ ToWrite(cur.pba)
                     \/ /\ ToPass(cur.pba) \/ ToJoin(cur.pba)
                        /\ status[cur.pba] = "in_use" /\ hash[cur.pba] = cur.hash
  /\ pc = "flush" => /\ refs[cur.pba] = 0 /\ Lists(cur.pba, 1, {})
                     /\ status[cur.pba] = "in_use" \/ cur.pba \in gbtable

EntriesInv ==
  /\ \A l \in LBAs : ltp[l].valid => ~ltp[l].trim /\ ltp[l].hash \in Hashes
  /\ \A l \in LBAs : ltp[l].valid /\ ~(pc = "store" /\ l = Target) =>
                       hash[ltp[l].pba] = ltp[l].hash
  /\ \A p \in Tracks : \A i \in 1 .. Len(lba_list[p]) :
       LET l == lba_list[p][i] IN l \in LBAs => ltp[l].valid \/ ltp[l].trim

(* What the write in progress is about.                                    *)
WriteInv ==
  /\ pc = "alloc" => ~ltp[Target].valid /\ ~ltp[Target].trim
  /\ pc \in {"store", "flush"} => ltp[Target] = Mapped(cur.pba, cur.hash)
  /\ pc \in Running \cup Stopped => Target \in LBAs /\ cur.hash \in Hashes
  /\ pc \in Stopped => pc = "disk_full" \/ (pc = "undefined" /\ TRUE \in OutOfBounds)

StoreInv == TracksInv /\ EntriesInv /\ WriteInv
-----------------------------------------------------------------------------
(* Lists of owners.                                                        *)

(* What a plain write may meet, and what it then is about.                 *)
PlainTarget(l, h) ==
  /\ l \in LBAs
  /\ \/ ltp[l].trim /\ h # ltp[l].hash /\ status[ltp[l].pba] = "trimed"
     \/ ~ltp[l].trim /\ ltp[l].valid /\ refs[ltp[l].pba] = 0
     \/ ~ltp[l].trim /\ ~ltp[l].valid

LEMMA PlainKind ==
  ASSUME NEW l, NEW h, KindOf(l, h) \in PlainKinds
  PROVE  PlainTarget(l, h)
<1>1. l \in LBAs
  BY DEF KindOf, PlainKinds
<1>2. CASE ltp[l].trim
  BY <1>1, <1>2 DEF KindOf, PlainKinds, PlainTarget
<1>3. CASE ~ltp[l].trim /\ ltp[l].valid
  BY <1>1, <1>3 DEF KindOf, PlainKinds, PlainTarget
<1>4. QED
  BY <1>1, <1>2, <1>3 DEF PlainTarget

(* The cells of a list.                                                    *)
LEMMA ListCells ==
  ASSUME TypeOK, NEW p \in Tracks
  PROVE  /\ lba_list[p] \in Seq(Cells) /\ Len(lba_list[p]) \in Nat
         /\ refs[p] \in Nat
         /\ \A i \in 1 .. Len(lba_list[p]) : lba_list[p][i] \in Cells
  BY LenProperties, ElementOfSeq DEF TypeOK

LEMMA CellKnown ==
  ASSUME EntriesInv, NEW p \in Tracks, NEW i \in 1 .. Len(lba_list[p]),
         NEW l \in LBAs, l = lba_list[p][i]
  PROVE  ltp[l].valid \/ ltp[l].trim
  BY DEF EntriesInv

LEMMA ListedOwners ==
  ASSUME TypeOK, NEW p \in Tracks, Lists(p, refs[p] + 1, {})
  PROVE  /\ Listed(p) = {l \in LBAs : Owner(l, p)}
         /\ GarbageIn(p) = {NoLba}
<1>1. refs[p] \in Nat /\ Len(lba_list[p]) \in Nat
  BY ListCells
<1>2. \A i \in 1 .. refs[p] + 1 : Cell(lba_list[p], i) = lba_list[p][i]
  BY <1>1 DEF Lists, Cell
<1>3. Listed(p) = {l \in LBAs : Owner(l, p)}
  BY <1>1, <1>2 DEF Lists, Listed
<1>4. QED
  BY <1>3, CellAssumption DEF GarbageIn

(* Owners that stay keep a list right, and a track settled.                *)
SameOwners(p) == \A l \in LBAs : Owner(l, p)' <=> Owner(l, p)

LEMMA ListsKept ==
  ASSUME NEW p \in Tracks, NEW k \in Nat, Lists(p, k, {}), SameOwners(p),
         lba_list'[p] = lba_list[p]
  PROVE  Lists(p, k, {})'
  BY DEF Lists, SameOwners

LEMMA SettledKept ==
  ASSUME TypeOK, NEW p \in Tracks, Settled(p), SameOwners(p),
         status'[p] = status[p], refs'[p] = refs[p], lba_list'[p] = lba_list[p],
         status[p] = "trimed" => LET l == lba_list[p][1] IN
           l \in LBAs => ltp'[l].trim = ltp[l].trim /\ ltp'[l].pba = ltp[l].pba
  PROVE  Settled(p)'
<1>1. CASE status[p] = "in_use"
  <2>1. refs[p] + 1 \in Nat
    BY ListCells
  <2>2. Lists(p, refs[p] + 1, {})'
    BY <1>1, <2>1, ListsKept DEF Settled
  <2>3. QED
    BY <1>1, <2>2 DEF Settled, Lists
<1>2. CASE status[p] # "in_use"
  <2>1. Vacated(p)
    BY <1>2 DEF Settled
  <2>2. Vacated(p)'
    BY <2>1 DEF Vacated, SameOwners
  <2>3. QED
    BY <1>2, <2>2 DEF Settled
<1>3. QED
  BY <1>1, <1>2

(* Mapping the block of a write to track q leaves the other tracks settled *)
(* unless it led elsewhere before.                                         *)
LEMMA OthersSettled ==
  ASSUME TypeOK, Target \in LBAs, NEW q \in Tracks, NEW h, NEW p \in Tracks, p # q, Settled(p),
         ltp' = [ltp EXCEPT ![Target] = Mapped(q, h)],
         ltp[Target].valid \/ ltp[Target].trim => ltp[Target].pba = q,
         status'[p] = status[p], refs'[p] = refs[p], lba_list'[p] = lba_list[p]
  PROVE  Settled(p)'
<1>1. \A l \in LBAs : ltp'[l] = IF l = Target THEN Mapped(q, h) ELSE ltp[l]
  BY DEF TypeOK
<1>2. SameOwners(p)
  BY <1>1 DEF SameOwners, Owner, Mapped
<1>3. status[p] = "trimed" => lba_list[p][1] # Target
  BY DEF Settled, Vacated
<1>4. QED
  BY <1>1, <1>2, <1>3, SettledKept

(* An owner's track is in use and lists it.                                *)
LEMMA OwnerInUse ==
  ASSUME NEW p \in Tracks, Settled(p), NEW l \in LBAs, Owner(l, p)
  PROVE  status[p] = "in_use" /\ Lists(p, refs[p] + 1, {})
  BY DEF Settled, Vacated

LEMMA OnlyOwner ==
  ASSUME TypeOK, NEW p \in Tracks, Lists(p, 1, {}), NEW l \in LBAs, Owner(l, p)
  PROVE  lba_list[p][1] = l /\ \A m \in LBAs : Owner(m, p) => m = l
  BY DEF Lists

LEMMA EntryType ==
  ASSUME TypeOK, NEW l \in LBAs
  PROVE  /\ ltp[l].pba \in Tracks /\ ltp[l].hash \in Hashes \cup {NoHash}
         /\ ltp[l].valid \in BOOLEAN /\ ltp[l].trim \in BOOLEAN
         /\ ltp[l] = [pba |-> ltp[l].pba, hash |-> ltp[l].hash,
                      valid |-> ltp[l].valid, trim |-> ltp[l].trim]
  BY DEF TypeOK, Entries

-----------------------------------------------------------------------------
(* The lookup.                                                             *)

(* The states in which a plain lookup begins.                              *)
PlainSearch ==
  /\ TypeOK /\ MappedAllocated /\ EntriesInv /\ Searching /\ ~cur.pass /\ cur.hash \in Hashes
  /\ PlainTarget(Target, cur.hash)
  /\ \A p \in Tracks : Settled(p) /\ Len(lba_list[p]) > 0 /\ status[p] # "booked"
  /\ \A t \in Tracks : hash[t] = cur.hash => status[t] # "free"

LEMMA PlainSearchIs ==
  ASSUME PlainSearch
  PROVE  /\ TypeOK /\ pc = "search" /\ Target \in LBAs /\ ~cur.pass /\ cur.pass \in BOOLEAN
         /\ PlainTarget(Target, cur.hash) /\ (\A p \in Tracks : Settled(p))
         /\ cur.hash \in Hashes /\ EntriesInv
  BY DEF PlainSearch, Searching, TypeOK, Instructions

LEMMA SearchFacts ==
  ASSUME PlainTraces, IInv, SingleInv, StoreInv, Search
  PROVE  PlainSearch
<1>1. TypeOK /\ pc = "search"
  BY DEF IInv, Search, SearchOverwriteInPlace, SearchOverwriteSwapped, Overwrites, SearchRestore,
    SearchRestoreMoved, SearchSame, SearchShare, SearchTakeOver, SearchNew, SearchBeyond, Searching
<1>2. /\ ~cur.pass /\ Booked = {} /\ gbtable = {} /\ Target = cur.lba
      /\ KindOf(Target, cur.hash) \in PlainKinds
      /\ \A p \in Tracks : Settled(p)
  BY <1>1, OneBlock DEF PlainTraces, SingleInv, BatchInv, StoreInv, TracksInv, UnderWay
<1>3. Target \in LBAs /\ cur.hash \in Hashes /\ PlainTarget(Target, cur.hash)
  BY <1>1, <1>2, PlainKind DEF StoreInv, WriteInv, Running
<1>4. \A t \in Tracks : hash[t] = cur.hash => status[t] # "free"
  BY <1>3, HashAssumption DEF IInv, UseInv, HashAllocated
<1>5. \A p \in Tracks : Len(lba_list[p]) > 0 /\ status[p] # "booked"
  BY <1>2 DEF IInv, ListInv, Booked
<1>6. QED
  BY <1>1, <1>2, <1>3, <1>4, <1>5 DEF PlainSearch, Searching, IInv, UseInv, StoreInv

(* What a lookup leaves, if it maps the block to track q and the other     *)
(* tracks stay settled.                                                    *)
LEMMA FoundStore ==
  ASSUME TypeOK, Target \in LBAs, cur.hash \in Hashes, NEW q \in Tracks, NEW pass \in BOOLEAN,
         Found(q, pass), ltp'[Target] = Mapped(q, cur.hash), EntriesInv',
         \A p \in Tracks \ {q} : Settled(p)',
         \/ ToWrite(q)'
         \/ (ToPass(q)' \/ ToJoin(q)') /\ status'[q] = "in_use" /\ hash'[q] = cur.hash
  PROVE  StoreInv'
<1>1. /\ pc' = "store" /\ cur'.pba = q /\ cur'.hash = cur.hash /\ cur'.lba = cur.lba
      /\ cur'.i = cur.i /\ Target' = Target
  BY DEF Found, TypeOK, Instructions, Target
<1>2. TracksInv'
  BY <1>1 DEF TracksInv, UnderWay, ToWrite, ToPass, ToJoin
<1>3. WriteInv'
  BY <1>1 DEF WriteInv, Mapped, Stopped, Running
<1>4. QED
  BY <1>2, <1>3 DEF StoreInv

(* Entries and cells when only the entry of the block changes.             *)
LEMMA FoundEntries ==
  ASSUME TypeOK, EntriesInv, Target \in LBAs, cur.hash \in Hashes, NEW q \in Tracks,
         pc' = "store", Target' = Target, hash' = hash, pc # "store",
         ltp' = [ltp EXCEPT ![Target] = Mapped(q, cur.hash)],
         \A p \in Tracks : /\ Len(lba_list'[p]) = Len(lba_list[p])
                           /\ \A i \in 1 .. Len(lba_list[p]) :
                                lba_list'[p][i] \in {lba_list[p][i], Target}
  PROVE  EntriesInv'
<1>1. \A l \in LBAs : ltp'[l] = IF l = Target THEN Mapped(q, cur.hash) ELSE ltp[l]
  BY DEF TypeOK
<1>2. \A l \in LBAs : ltp'[l].valid => ~ltp'[l].trim /\ ltp'[l].hash \in Hashes
  BY <1>1 DEF EntriesInv, Mapped
<1>3. \A l \in LBAs \ {Target} : ltp'[l].valid => hash'[ltp'[l].pba] = ltp'[l].hash
  BY <1>1 DEF EntriesInv
<1>4. \A p \in Tracks : \A i \in 1 .. Len(lba_list'[p]) :
        LET l == lba_list'[p][i] IN l \in LBAs => ltp'[l].valid \/ ltp'[l].trim
  BY <1>1 DEF EntriesInv, Mapped
<1>5. QED
  BY <1>2, <1>3, <1>4 DEF EntriesInv

LEMMA InPlaceStore ==
  ASSUME PlainSearch, SearchOverwriteInPlace
  PROVE  StoreInv'
<1>a. /\ TypeOK /\ pc = "search" /\ ~cur.pass /\ cur.pass \in BOOLEAN /\ Target \in LBAs
      /\ PlainTarget(Target, cur.hash) /\ (\A p \in Tracks : Settled(p))
      /\ cur.hash \in Hashes /\ EntriesInv
  BY PlainSearchIs
<1>b. PICK q \in Tracks : q = ltp[Target].pba
  BY <1>a, EntryType
<1>0. /\ TypeOK /\ pc = "search" /\ ~cur.pass /\ cur.pass \in BOOLEAN /\ Target \in LBAs
      /\ PlainTarget(Target, cur.hash) /\ (\A p \in Tracks : Settled(p))
      /\ cur.hash \in Hashes /\ EntriesInv /\ q = ltp[Target].pba
  BY <1>a, <1>b
<1>1. /\ ltp' = [ltp EXCEPT ![Target] = Mapped(q, cur.hash)] /\ Found(q, cur.pass)
      /\ UNCHANGED <<status, hash, refs, lba_list>> /\ ~NeverWritten(Target)
  BY <1>0 DEF SearchOverwriteInPlace, UpdateInPlace, Overwrites, blocks
<1>2. /\ pc' = "store" /\ Target' = Target /\ ~cur'.pass
      /\ \A l \in LBAs : ltp'[l] = IF l = Target THEN Mapped(q, cur.hash) ELSE ltp[l]
  BY <1>0, <1>1 DEF Found, TypeOK, Instructions, Target
<1>3. EntriesInv'
  BY <1>0, <1>1, <1>2, FoundEntries
<1>4. \A p \in Tracks \ {q} : Settled(p)'
  BY <1>0, <1>1, OthersSettled
<1>5. refs[q] = 0 /\ \A l \in LBAs : Owner(l, q) => l = Target
  <2>1. CASE ltp[Target].trim
    <3>1. ~ltp[Target].valid /\ status[q] = "trimed"
      BY <1>0, <2>1 DEF PlainTarget, EntriesInv
    <3>2. Vacated(q)
      BY <1>0, <3>1 DEF Settled
    <3>3. QED
      BY <3>2 DEF Vacated
  <2>2. CASE ~ltp[Target].trim
    <3>1. Owner(Target, q) /\ refs[q] = 0
      BY <1>0, <1>1, <2>2 DEF PlainTarget, NeverWritten, Deleted, Present, ValidInUse, Owner
    <3>2. Lists(q, 1, {})
      BY <1>0, <3>1, OwnerInUse
    <3>3. QED
      BY <1>0, <3>1, <3>2, OnlyOwner
  <2>3. QED
    BY <2>1, <2>2
<1>6. ToWrite(q)'
  BY <1>1, <1>2, <1>5 DEF ToWrite, Owner
<1>7. ltp'[Target] = Mapped(q, cur.hash)
  BY <1>0, <1>2
<1>8. QED
  BY <1>0, <1>1, <1>3, <1>4, <1>6, <1>7, FoundStore

(* What a swap of the writer's bottom track b with the shared top track t  *)
(* leaves: the contents, counts, lists and owners of the two exchanged,    *)
(* and t to write.                                                         *)
Exchanged(b, t) ==
  /\ b # t /\ b = ltp[Target].pba /\ status[b] # "free" /\ status[t] = "in_use" /\ refs[b] = 0
  /\ Found(t, cur.pass) /\ ltp'[Target] = Mapped(t, cur.hash)
  /\ pc' = "store" /\ Target' = Target
  /\ \A p \in Tracks \ {b, t} : /\ status'[p] = status[p] /\ hash'[p] = hash[p]
                                /\ refs'[p] = refs[p] /\ lba_list'[p] = lba_list[p]
  /\ status'[b] = "in_use" /\ hash'[b] = hash[t] /\ refs'[b] = refs[t] /\ lba_list'[b] = lba_list[t]
  /\ status'[t] = status[t] /\ hash'[t] = hash[b] /\ refs'[t] = 0 /\ lba_list'[t] = lba_list[b]
  /\ \A l \in LBAs \ {Target} :
       /\ ltp'[l].valid = ltp[l].valid /\ ltp'[l].trim = ltp[l].trim /\ ltp'[l].hash = ltp[l].hash
       /\ ltp[l].valid => ltp'[l] = IF Owner(l, t) THEN [ltp[l] EXCEPT !.pba = b] ELSE ltp[l]
       /\ ltp[l].pba # b /\ ~Owner(l, t) => ltp'[l] = ltp[l]
       /\ ~Owner(l, t)'
  /\ ToWrite(t)' /\ EntriesInv' /\ \A p \in Tracks \ {t} : Settled(p)'

LEMMA SwapExchanges ==
  ASSUME PlainSearch, ~NeverWritten(Target), UpdateSwapped
  PROVE  \E b, t \in Tracks : Exchanged(b, t)
<1>a. /\ TypeOK /\ pc = "search" /\ ~cur.pass /\ cur.pass \in BOOLEAN /\ Target \in LBAs
      /\ PlainTarget(Target, cur.hash) /\ (\A p \in Tracks : Settled(p))
      /\ cur.hash \in Hashes /\ EntriesInv
  BY PlainSearchIs
<1>b. PICK b, t \in Tracks :
        /\ b = ltp[Target].pba /\ status[b] # "free" /\ status[t] = "in_use"
        /\ \E gt \in GarbageIn(t), gb \in GarbageIn(b) :
             ltp' = [ltp_table_swap(t, b, gt, gb) EXCEPT ![Target] = Mapped(t, cur.hash)]
        /\ status' = SwapIn([status EXCEPT ![b] = "in_use"], t, b)
        /\ hash' = SwapIn(hash, t, b)
        /\ refs' = SwapIn(refs, t, b)
        /\ lba_list' = SwapIn(lba_list, t, b)
        /\ Found(t, cur.pass)
        /\ refs[b] = 0
  BY SwapAllocated DEF PlainSearch
<1>c. b # t
  <2>1. ~is_toptrack(ltp[Target].pba) /\ \A u \in find_empty_block_swap : is_toptrack(u)
    BY SharedTopsType DEF UpdateSwapped, Tops
  <2>2. PICK u \in find_empty_block_swap : hash' = SwapIn(hash, u, b) /\ Found(u, cur.pass)
    BY <1>b DEF UpdateSwapped
  <2>3. u = t
    BY <1>a, <1>b, <2>2, SharedTopsType DEF Found, TypeOK, Instructions, Tops
  <2>4. QED
    BY <1>b, <2>1, <2>2, <2>3
(* The lists of both tracks name what they should. *)
<1>1. /\ Lists(t, refs[t] + 1, {}) /\ GarbageIn(t) = {NoLba}
      /\ \A l \in LBAs : l \in Listed(t) <=> Owner(l, t)
  BY <1>a, <1>b, ListedOwners DEF Settled
<1>2. /\ GarbageIn(b) = {NoLba}
      /\ \A l \in LBAs : Owner(l, b) => l = Target
      /\ \A l \in LBAs : l \in Listed(b) => ltp[l].pba = b /\ (l = Target \/ ltp[l].trim)
  <2>1. CASE status[b] = "in_use"
    <3>1. Lists(b, 1, {}) /\ GarbageIn(b) = {NoLba} /\ \A l \in LBAs : l \in Listed(b) <=> Owner(l, b)
      BY <1>a, <1>b, <2>1, ListedOwners DEF Settled
    <3>2. Owner(Target, b)
      BY <1>a, <1>b, <2>1 DEF PlainTarget, NeverWritten, Deleted, Present, ValidInUse, Owner
    <3>3. \A l \in LBAs : Owner(l, b) => l = Target
      BY <1>a, <3>1, <3>2, OnlyOwner
    <3>4. QED
      BY <3>1, <3>3 DEF Owner
  <2>2. CASE status[b] # "in_use"
    <3>1. Vacated(b) /\ status[b] = "trimed"
      BY <1>a, <1>b, <2>2 DEF Settled, PlainTarget, NeverWritten, Deleted, Present, ValidInUse
    <3>2. Listed(b) = {lba_list[b][1]}
      BY <1>a, <1>b, ListCells DEF Listed, Cell, PlainSearch
    <3>3. QED
      BY <3>1, <3>2, CellAssumption DEF Vacated, GarbageIn
  <2>3. QED
    BY <2>1, <2>2
<1>3. \A l \in LBAs : ltp'[l] = IF l = Target THEN Mapped(t, cur.hash)
                                ELSE IF l \in Listed(b) THEN [ltp[l] EXCEPT !.pba = t]
                                ELSE IF Owner(l, t) THEN [ltp[l] EXCEPT !.pba = b] ELSE ltp[l]
  <2>1. ltp' = [ltp_table_swap(t, b, NoLba, NoLba) EXCEPT ![Target] = Mapped(t, cur.hash)]
    BY <1>b, <1>1, <1>2
  <2>2. \A l \in LBAs : l # NoLba
    BY CellAssumption
  <2>3. QED
    BY <1>1, <2>1, <2>2 DEF ltp_table_swap
<1>4. /\ pc' = "store" /\ Target' = Target /\ ~cur'.pass
      /\ \A p \in Tracks \ {b, t} : /\ status'[p] = status[p] /\ hash'[p] = hash[p]
                                    /\ refs'[p] = refs[p] /\ lba_list'[p] = lba_list[p]
      /\ status'[b] = "in_use" /\ hash'[b] = hash[t] /\ refs'[b] = refs[t]
      /\ refs'[t] = 0 /\ lba_list'[b] = lba_list[t] /\ lba_list'[t] = lba_list[b]
      /\ hash'[t] = hash[b] /\ status'[t] = status[t]
  BY <1>a, <1>b, <1>c DEF Found, TypeOK, Instructions, Target, SwapIn
(* Who owns which track now. *)
<1>5. \A l \in LBAs \ {Target} :
        /\ ltp'[l].valid = ltp[l].valid /\ ltp'[l].trim = ltp[l].trim /\ ltp'[l].hash = ltp[l].hash
        /\ l \notin Listed(b) /\ ~Owner(l, t) => ltp'[l] = ltp[l]
        /\ Owner(l, t) => l \notin Listed(b) /\ ltp'[l].pba = b
        /\ l \in Listed(b) => ltp'[l].pba = t /\ ~ltp[l].valid
  <2> SUFFICES ASSUME NEW l \in LBAs \ {Target}
               PROVE  /\ ltp'[l].valid = ltp[l].valid /\ ltp'[l].trim = ltp[l].trim
                      /\ ltp'[l].hash = ltp[l].hash
                      /\ l \notin Listed(b) /\ ~Owner(l, t) => ltp'[l] = ltp[l]
                      /\ Owner(l, t) => l \notin Listed(b) /\ ltp'[l].pba = b
                      /\ l \in Listed(b) => ltp'[l].pba = t /\ ~ltp[l].valid
    OBVIOUS
  <2>1. ltp[l] \in Entries
    BY <1>a DEF TypeOK
  <2>2. \A x : [ltp[l] EXCEPT !.pba = x].valid = ltp[l].valid
               /\ [ltp[l] EXCEPT !.pba = x].trim = ltp[l].trim
               /\ [ltp[l] EXCEPT !.pba = x].hash = ltp[l].hash
               /\ [ltp[l] EXCEPT !.pba = x].pba = x
    BY <2>1 DEF Entries
  <2>3. l \in Listed(b) => ltp[l].pba = b /\ ~ltp[l].valid
    BY <1>a, <1>2 DEF EntriesInv
  <2>4. CASE l \in Listed(b)
    BY <1>3, <1>c, <2>2, <2>3, <2>4 DEF Owner
  <2>5. CASE l \notin Listed(b) /\ Owner(l, t)
    <3>1. ltp'[l] = [ltp[l] EXCEPT !.pba = b]
      BY <1>3, <2>5
    <3>2. QED
      BY <2>2, <2>5, <3>1
  <2>6. CASE l \notin Listed(b) /\ ~Owner(l, t)
    <3>1. ltp'[l] = ltp[l]
      BY <1>3, <2>6
    <3>2. QED
      BY <2>6, <3>1
  <2>7. QED
    BY <2>4, <2>5, <2>6
<1>6. \A l \in LBAs \ {Target} : /\ Owner(l, b)' <=> Owner(l, t)
                                 /\ ~Owner(l, t)'
                                 /\ \A p \in Tracks \ {b, t} : Owner(l, p)' <=> Owner(l, p)
  BY <1>5, <1>c, <1>2 DEF Owner
<1>7. \A l \in LBAs : l = Target => /\ Owner(l, t)' /\ ~Owner(l, t)
                                   /\ \A p \in Tracks \ {t} : ~Owner(l, p)'
  <2> SUFFICES ASSUME NEW l \in LBAs, l = Target
               PROVE  Owner(l, t)' /\ ~Owner(l, t) /\ \A p \in Tracks \ {t} : ~Owner(l, p)'
    OBVIOUS
  <2>1. ltp'[l] = Mapped(t, cur.hash)
    BY <1>3
  <2>2. ltp'[l].valid /\ ltp'[l].pba = t
    BY <2>1 DEF Mapped
  <2>3. QED
    BY <1>b, <1>c, <2>2 DEF Owner
<1>8. ToWrite(t)'
  BY <1>4, <1>6 DEF ToWrite
<1>9. Settled(b)'
  <2>1. PICK k \in Nat : k = refs[t] + 1
    BY <1>a, ListCells
  <2>2. \A l \in LBAs : Owner(l, b)' <=> Owner(l, t)
    BY <1>6, <1>7, <1>c
  <2>3. Lists(b, k, {})'
    BY <1>1, <1>4, <2>1, <2>2 DEF Lists
  <2>4. QED
    BY <1>4, <2>1, <2>3 DEF Settled, Lists
<1>10. ASSUME NEW p \in Tracks \ {b, t} PROVE Settled(p)'
  <2>1. SameOwners(p)
    <3>1. \A l \in LBAs : l = Target => ~Owner(l, p) /\ ~Owner(l, p)'
      BY <1>b, <1>7 DEF Owner
    <3>2. \A l \in LBAs \ {Target} : Owner(l, p)' <=> Owner(l, p)
      BY <1>6
    <3>3. QED
      BY <3>1, <3>2 DEF SameOwners
  <2>2. status[p] = "trimed" => LET l == lba_list[p][1] IN
          l \in LBAs => ltp'[l].trim = ltp[l].trim /\ ltp'[l].pba = ltp[l].pba
    <3> SUFFICES ASSUME status[p] = "trimed", NEW l \in LBAs, l = lba_list[p][1]
                 PROVE  ltp'[l].trim = ltp[l].trim /\ ltp'[l].pba = ltp[l].pba
      OBVIOUS
    <3>1. ltp[l].trim /\ ltp[l].pba = p
      BY <1>a DEF Settled, Vacated
    <3>2. l # Target /\ l \notin Listed(b) /\ ~Owner(l, t)
      BY <1>a, <1>b, <1>2, <3>1 DEF Owner
    <3>3. QED
      BY <1>5, <3>2
  <2>3. QED
    BY <1>a, <1>4, <2>1, <2>2, SettledKept
<1>11. EntriesInv'
  <2>1. \A l \in LBAs : ltp'[l].valid => ~ltp'[l].trim /\ ltp'[l].hash \in Hashes
    <3>1. \A l \in LBAs \ {Target} : ltp'[l].valid => ~ltp'[l].trim /\ ltp'[l].hash \in Hashes
      BY <1>a, <1>5 DEF EntriesInv
    <3>2. ltp'[Target] = Mapped(t, cur.hash)
      BY <1>a, <1>3
    <3>3. QED
      BY <1>a, <3>1, <3>2 DEF Mapped
  <2>2. ASSUME NEW l \in LBAs \ {Target}, ltp'[l].valid
        PROVE  hash'[ltp'[l].pba] = ltp'[l].hash
    <3>1. ltp[l].valid /\ hash[ltp[l].pba] = ltp[l].hash /\ ltp[l].hash = ltp'[l].hash
          /\ l \notin Listed(b) /\ ltp[l].pba \in Tracks
      BY <1>a, <1>5, <2>2, EntryType DEF EntriesInv
    <3>2. CASE Owner(l, t)
      BY <1>4, <1>5, <3>1, <3>2 DEF Owner
    <3>3. CASE ~Owner(l, t)
      <4>1. ltp'[l].pba = ltp[l].pba /\ ltp[l].pba # t /\ ltp[l].pba # b
        BY <1>2, <1>5, <3>1, <3>3 DEF Owner
      <4>2. QED
        BY <1>4, <3>1, <4>1
    <3>4. QED
      BY <3>2, <3>3
  <2>3. ASSUME NEW p \in Tracks, NEW i \in 1 .. Len(lba_list'[p]), lba_list'[p][i] \in LBAs
        PROVE  ltp'[lba_list'[p][i]].valid \/ ltp'[lba_list'[p][i]].trim
    <3>1. PICK q \in Tracks : lba_list'[p] = lba_list[q]
      BY <1>4, <1>b
    <3>2. ltp[lba_list'[p][i]].valid \/ ltp[lba_list'[p][i]].trim
      BY <1>a, <2>3, <3>1 DEF EntriesInv
    <3>3. QED
      <4>1. CASE lba_list'[p][i] = Target
        <5>1. ltp'[lba_list'[p][i]] = Mapped(t, cur.hash)
          BY <1>3, <2>3, <4>1
        <5>2. QED
          BY <5>1 DEF Mapped
      <4>2. CASE lba_list'[p][i] # Target
        BY <1>5, <2>3, <3>2, <4>2
      <4>3. QED
        BY <4>1, <4>2
  <2>4. QED
    BY <1>4, <2>1, <2>2, <2>3 DEF EntriesInv
<1>12. ltp'[Target] = Mapped(t, cur.hash)
  BY <1>a, <1>3
<1>13. \A l \in LBAs \ {Target} :
         /\ ltp'[l].valid = ltp[l].valid /\ ltp'[l].trim = ltp[l].trim /\ ltp'[l].hash = ltp[l].hash
         /\ ltp[l].valid => ltp'[l] = IF Owner(l, t) THEN [ltp[l] EXCEPT !.pba = b] ELSE ltp[l]
         /\ ltp[l].pba # b /\ ~Owner(l, t) => ltp'[l] = ltp[l]
         /\ ~Owner(l, t)'
  BY <1>2, <1>3, <1>5, <1>6
<1>14. Exchanged(b, t)
  BY <1>b, <1>c, <1>4, <1>8, <1>9, <1>10, <1>11, <1>12, <1>13 DEF Exchanged
<1>15. QED
  BY <1>14

LEMMA SwappedStore ==
  ASSUME PlainSearch, SearchOverwriteSwapped
  PROVE  StoreInv'
<1>1. /\ TypeOK /\ Target \in LBAs /\ cur.hash \in Hashes /\ cur.pass \in BOOLEAN
  BY PlainSearchIs
<1>2. PICK b, t \in Tracks : Exchanged(b, t)
  BY SwapExchanges DEF SearchOverwriteSwapped, Overwrites
<1>3. QED
  BY <1>1, <1>2, FoundStore DEF Exchanged

LEMMA SameStore ==
  ASSUME PlainSearch, SearchSame
  PROVE  StoreInv'
<1>2. /\ TypeOK /\ pc = "search" /\ Target \in LBAs /\ PlainTarget(Target, cur.hash)
      /\ (\A p \in Tracks : Settled(p)) /\ cur.hash \in Hashes /\ EntriesInv
  BY PlainSearchIs
<1>3. PICK q \in Tracks : q = ltp[Target].pba
  BY <1>2, EntryType
<1>4. /\ UNCHANGED <<status, hash, refs, lba_list, ltp>> /\ Found(q, TRUE)
      /\ Present(Target) /\ ltp[Target].hash = cur.hash
  BY <1>3 DEF SearchSame, blocks
<1>5. pc' = "store" /\ Target' = Target /\ cur'.pass
  BY <1>2, <1>4 DEF Found, TypeOK, Instructions, Target
<1>6. Owner(Target, q) /\ refs[q] = 0 /\ ~ltp[Target].trim
  BY <1>2, <1>3, <1>4 DEF PlainTarget, Present, ValidInUse, Owner
<1>7. status[q] = "in_use" /\ Lists(q, 1, {})
  BY <1>2, <1>6, OwnerInUse
<1>8. ltp'[Target] = Mapped(q, cur.hash)
  BY <1>2, <1>3, <1>4, <1>6, EntryType DEF Mapped, Owner
<1>9. hash[q] = cur.hash
  BY <1>2, <1>3, <1>4, <1>6 DEF EntriesInv, Owner
<1>10. EntriesInv'
  BY <1>2, <1>4, <1>5 DEF EntriesInv
<1>11. \A p \in Tracks : Settled(p)'
  BY <1>2, <1>4 DEF Settled, Vacated, Lists, Owner
<1>12. ToPass(q)'
  BY <1>4, <1>5, <1>6, <1>7 DEF ToPass, Lists, Owner
<1>13. QED
  BY <1>2, <1>4, <1>7, <1>8, <1>9, <1>10, <1>11, <1>12, FoundStore

(* A block that is new to the disk was never written. *)
LEMMA NewTarget ==
  ASSUME TypeOK, EntriesInv, Target \in LBAs, \A p \in Tracks : Settled(p),
         PlainTarget(Target, cur.hash), NeverWritten(Target)
  PROVE  ~ltp[Target].valid /\ ~ltp[Target].trim
<1>1. ltp[Target].valid => status[ltp[Target].pba] = "in_use"
  BY EntryType, OwnerInUse DEF Owner
<1>2. QED
  BY <1>1 DEF PlainTarget, NeverWritten, Deleted, Present, ValidInUse, EntriesInv

LEMMA DuplicateFacts ==
  ASSUME PlainSearch, Duplicate(Target), NEW q \in Holding(cur.hash)
  PROVE  /\ q \in Tracks /\ hash[q] = cur.hash /\ status[q] \in {"in_use", "trimed"}
         /\ ~ltp[Target].valid /\ ~ltp[Target].trim
         /\ \A p \in Tracks : \A i \in 1 .. Len(lba_list[p]) : lba_list[p][i] # Target
<1>1. q \in Tracks /\ hash[q] = cur.hash
  BY HoldingType DEF Holding
<1>2. status[q] \in {"in_use", "trimed"}
  BY <1>1 DEF PlainSearch, TypeOK, Statuses
<1>3. ~ltp[Target].valid /\ ~ltp[Target].trim
  BY PlainSearchIs, NewTarget DEF Duplicate
<1>4. QED
  BY <1>1, <1>2, <1>3, PlainSearchIs DEF EntriesInv

LEMMA ShareStore ==
  ASSUME PlainSearch, SearchShare
  PROVE  StoreInv'
<1>1. Duplicate(Target)
  BY DEF SearchShare
<1>2. /\ TypeOK /\ pc = "search" /\ Target \in LBAs /\ ~cur.pass /\ cur.pass \in BOOLEAN
      /\ (\A p \in Tracks : Settled(p)) /\ cur.hash \in Hashes /\ EntriesInv
  BY PlainSearchIs
<1>3. PICK q \in Holding(cur.hash) :
        /\ status[q] # "trimed" /\ refs' = [refs EXCEPT ![q] = @ + 1]
        /\ ltp' = [ltp EXCEPT ![Target] = Mapped(q, cur.hash)] /\ Found(q, cur.pass)
  BY DEF SearchShare, FirstOf
<1>4. /\ q \in Tracks /\ hash[q] = cur.hash /\ status[q] = "in_use"
      /\ ~ltp[Target].valid /\ ~ltp[Target].trim
      /\ \A i \in 1 .. Len(lba_list[q]) : lba_list[q][i] # Target
  BY <1>1, <1>3, DuplicateFacts
<1>5. UNCHANGED <<status, hash, lba_list>>
  BY DEF SearchShare
<1>6. /\ pc' = "store" /\ Target' = Target
      /\ \A l \in LBAs : ltp'[l] = IF l = Target THEN Mapped(q, cur.hash) ELSE ltp[l]
  BY <1>2, <1>3 DEF Found, TypeOK, Instructions, Target
<1>7. EntriesInv'
  BY <1>2, <1>3, <1>4, <1>5, <1>6, FoundEntries
<1>8. \A p \in Tracks \ {q} : Settled(p)'
  <2>1. \A p \in Tracks \ {q} : refs'[p] = refs[p]
    BY <1>2, <1>3 DEF TypeOK
  <2>2. QED
    BY <1>2, <1>3, <1>4, <1>5, <2>1, OthersSettled
<1>9. ToJoin(q)'
  <2>1. PICK k \in Nat : k = refs[q] + 1 /\ refs'[q] = k
    BY <1>2, <1>3, <1>4, ListCells DEF TypeOK
  <2>2. Lists(q, k, {})
    BY <1>2, <1>4, <2>1 DEF Settled
  <2>3. ~Owner(Target, q)
    BY <1>4 DEF Owner
  <2>4. \A l \in LBAs \ {Target} : Owner(l, q)' <=> Owner(l, q)
    BY <1>6 DEF Owner
  <2>5. Lists(q, k, {Target})'
    BY <1>5, <1>6, <2>2, <2>3, <2>4 DEF Lists
  <2>6. k > 0
    BY <1>2, <1>4, <2>1, ListCells
  <2>7. QED
    BY <1>4, <1>5, <1>6, <2>1, <2>5, <2>6 DEF ToJoin, Lists
<1>10. ltp'[Target] = Mapped(q, cur.hash)
  BY <1>2, <1>6
<1>11. QED
  BY <1>2, <1>3, <1>4, <1>5, <1>7, <1>8, <1>9, <1>10, FoundStore

LEMMA TakeOverStore ==
  ASSUME PlainSearch, SearchTakeOver
  PROVE  StoreInv'
<1>1. Duplicate(Target)
  BY DEF SearchTakeOver
<1>2. /\ TypeOK /\ pc = "search" /\ Target \in LBAs
      /\ (\A p \in Tracks : Settled(p)) /\ cur.hash \in Hashes /\ EntriesInv
  BY PlainSearchIs
<1>3. PICK q \in Holding(cur.hash) :
        /\ status[q] = "trimed" /\ status' = [status EXCEPT ![q] = "in_use"]
        /\ lba_list' = [lba_list EXCEPT ![q][1] = Target]
        /\ ltp' = [ltp EXCEPT ![Target] = Mapped(q, cur.hash)] /\ Found(q, TRUE)
  BY DEF SearchTakeOver, FirstOf
<1>4. q \in Tracks /\ hash[q] = cur.hash /\ ~ltp[Target].valid /\ ~ltp[Target].trim
  BY <1>1, <1>3, DuplicateFacts
<1>5. UNCHANGED <<hash, refs>>
  BY DEF SearchTakeOver
<1>6. /\ pc' = "store" /\ Target' = Target /\ cur'.pass
      /\ \A l \in LBAs : ltp'[l] = IF l = Target THEN Mapped(q, cur.hash) ELSE ltp[l]
  BY <1>2, <1>3 DEF Found, TypeOK, Instructions, Target
<1>7. /\ status'[q] = "in_use" /\ Len(lba_list'[q]) = Len(lba_list[q]) /\ lba_list'[q][1] = Target
      /\ Len(lba_list[q]) > 0 /\ Len(lba_list[q]) \in Nat
      /\ \A i \in 1 .. Len(lba_list[q]) : lba_list'[q][i] \in {lba_list[q][i], Target}
      /\ \A p \in Tracks \ {q} : status'[p] = status[p] /\ lba_list'[p] = lba_list[p]
  <2>1. Len(lba_list[q]) > 0 /\ Len(lba_list[q]) \in Nat /\ lba_list[q] \in Seq(Cells)
    BY <1>2, <1>4, ListCells DEF PlainSearch
  <2>2. lba_list'[q] = [lba_list[q] EXCEPT ![1] = Target]
    BY <1>2, <1>3, <1>4 DEF TypeOK
  <2>3. Len(lba_list'[q]) = Len(lba_list[q])
    BY <1>2, <2>1, <2>2, PutType DEF Cells
  <2>4. \A i \in 1 .. Len(lba_list[q]) : lba_list'[q][i] = IF i = 1 THEN Target ELSE lba_list[q][i]
    BY <2>1, <2>2
  <2>5. \A p \in Tracks \ {q} : status'[p] = status[p] /\ lba_list'[p] = lba_list[p]
    BY <1>2, <1>3, <1>4 DEF TypeOK
  <2>6. QED
    BY <1>2, <1>3, <1>4, <2>1, <2>3, <2>4, <2>5 DEF TypeOK
<1>8. EntriesInv'
  BY <1>2, <1>3, <1>4, <1>5, <1>6, <1>7, FoundEntries
<1>9. \A p \in Tracks \ {q} : Settled(p)'
  BY <1>2, <1>3, <1>4, <1>5, <1>7, OthersSettled
<1>10. ToPass(q)'
  <2>1. refs[q] = 0 /\ \A l \in LBAs : ~Owner(l, q)
    BY <1>2, <1>3, <1>4 DEF Settled, Vacated
  <2>2. \A l \in LBAs : Owner(l, q)' <=> l = Target
    BY <1>6, <2>1 DEF Owner, Mapped
  <2>3. Lists(q, 1, {})'
    BY <1>2, <1>7, <2>2 DEF Lists
  <2>4. QED
    BY <1>5, <1>6, <2>1, <2>3 DEF ToPass
<1>11. ltp'[Target] = Mapped(q, cur.hash)
  BY <1>2, <1>6
<1>12. QED
  BY <1>2, <1>3, <1>4, <1>5, <1>7, <1>8, <1>9, <1>10, <1>11, FoundStore

LEMMA SearchStore ==
  ASSUME PlainSearch, Search
  PROVE  StoreInv'
<1>0. /\ TypeOK /\ pc = "search" /\ Target \in LBAs /\ PlainTarget(Target, cur.hash)
      /\ (\A p \in Tracks : Settled(p)) /\ cur.hash \in Hashes /\ EntriesInv
  BY PlainSearchIs
<1>1. ~(SearchRestore \/ SearchRestoreMoved \/ SearchBeyond)
  BY <1>0 DEF SearchRestore, SearchRestoreMoved, SearchBeyond, Deleted, PlainTarget
<1>2. CASE SearchNew
  <2>1. ~ltp[Target].valid /\ ~ltp[Target].trim
    BY <1>0, <1>2, NewTarget DEF SearchNew
  <2>2. pc' = "alloc" /\ UNCHANGED <<status, hash, refs, lba_list, ltp, cur>> /\ Target' = Target
    BY <1>2 DEF SearchNew, blocks, Target
  <2>3. TracksInv'
    BY <1>0, <2>2 DEF TracksInv, UnderWay, Settled, Vacated, Lists, Owner
  <2>4. EntriesInv'
    BY <1>0, <2>2 DEF EntriesInv
  <2>5. WriteInv'
    BY <1>0, <2>1, <2>2 DEF WriteInv, Stopped, Running
  <2>6. QED
    BY <2>3, <2>4, <2>5 DEF StoreInv
<1>3. QED
  BY <1>1, <1>2, InPlaceStore, SwappedStore, SameStore, ShareStore, TakeOverStore DEF Search

-----------------------------------------------------------------------------
(* The allocator.                                                          *)

LEMMA BookStore ==
  ASSUME TypeOK, ~cur.pass, StoreInv, pc = "alloc",
         UNCHANGED <<hash, refs, lba_list>>,
         NEW t \in Tracks, status[t] = "free", Book(t)
  PROVE  StoreInv'
<1>1. /\ ~cur.pass /\ cur.pass \in BOOLEAN /\ Target \in LBAs /\ cur.hash \in Hashes /\ EntriesInv
      /\ (\A p \in Tracks : Settled(p)) /\ ~ltp[Target].valid /\ ~ltp[Target].trim
  BY DEF StoreInv, WriteInv, TracksInv, UnderWay, TypeOK, Instructions, Running
<1>2. /\ status' = [status EXCEPT ![t] = "booked"]
      /\ ltp' = [ltp EXCEPT ![Target] = Mapped(t, cur.hash)] /\ Found(t, cur.pass)
  BY DEF Book
<1>3. /\ pc' = "store" /\ Target' = Target /\ ~cur'.pass
      /\ \A l \in LBAs : ltp'[l] = IF l = Target THEN Mapped(t, cur.hash) ELSE ltp[l]
      /\ \A p \in Tracks \ {t} : status'[p] = status[p]
  BY <1>1, <1>2 DEF Found, TypeOK, Instructions, Target
<1>4. EntriesInv'
  BY <1>1, <1>2, <1>3, FoundEntries
<1>5. \A p \in Tracks \ {t} : Settled(p)'
  BY <1>1, <1>2, <1>3, OthersSettled
<1>6. ToWrite(t)'
  <2>1. refs[t] = 0 /\ \A l \in LBAs : ~Owner(l, t)
    BY <1>1 DEF Settled, Vacated
  <2>2. \A l \in LBAs \ {Target} : ~Owner(l, t)'
    BY <1>3, <2>1 DEF Owner
  <2>3. QED
    BY <1>3, <2>1, <2>2 DEF ToWrite
<1>7. ltp'[Target] = Mapped(t, cur.hash)
  BY <1>1, <1>3
<1>8. QED
  BY <1>1, <1>2, <1>4, <1>5, <1>6, <1>7, FoundStore

(* An iteration of the allocator's loop books a free track or only moves   *)
(* the allocator on, which ends when the disk is full.                     *)
LEMMA AllocBooks ==
  ASSUME TypeOK, AllocatorInv, Alloc
  PROVE  /\ pc = "alloc" /\ AllocUnchanged
         /\ \/ \E t \in Tracks : status[t] = "free" /\ Book(t)
            \/ /\ UNCHANGED <<status, ltp, cur>>
               /\ \/ pc' \in {"alloc", "disk_full"}
                  \/ pc' = "undefined" /\ TRUE \in OutOfBounds
<1>0. TypeOK /\ AllocatorInv /\ pc = "alloc" /\ AllocUnchanged
  BY DEF Alloc, AllocPhase1, AllocPhase1Full, AllocPhase2, AllocPhase3, AllocPhase3Over,
    AllocPhase4, AllocDiskFull, Allocating
<1>1. CASE AllocPhase1
  <2>1. zinfo.current_track \in Tracks
    BY <1>0, <1>1 DEF AllocPhase1, Allocating, AllocatorInv, Phase1Frontier, Bottoms
  <2>2. QED
    BY <1>0, <1>1, <2>1 DEF AllocPhase1, TryTrack
<1>2. CASE AllocPhase1Full
  <2>1. zinfo.current_track \in Tracks
    BY <1>0, <1>2 DEF AllocPhase1Full, Allocating, AllocatorInv, Phase1Frontier, Bottoms
  <2>2. \A t \in FirstOf(Free(EveryOther(phase1_start, phase1_end))) : t \in Tracks /\ status[t] = "free"
    BY DEF FirstOf, Free, EveryOther
  <2>3. QED
    BY <1>0, <1>2, <2>1, <2>2 DEF AllocPhase1Full, TryTrack
<1>3. CASE AllocPhase2 \/ AllocPhase3
  <2>1. zinfo.current_track \in Tracks \/ AllocPhase3
    BY <1>0, <1>3 DEF AllocPhase2, Allocating, AllocatorInv, TopPhases, Tops
  <2>2. zinfo.current_track \in Tracks
    BY <1>0, <1>3, <2>1, TrackNumAssumption
      DEF AllocPhase3, Allocating, AllocatorInv, TopPhases, Tracks, TypeOK, Allocators
  <2>3. QED
    BY <1>0, <1>3, <2>2 DEF AllocPhase2, AllocPhase3, TryShared, TryTrack
<1>4. CASE AllocPhase3Over \/ AllocDiskFull
  BY <1>0, <1>4 DEF AllocPhase3Over, AllocDiskFull
<1>5. CASE AllocPhase4
  <2>1. PICK t \in FirstOf(Free(EveryOther(phase4_start, phase4_end))) : Book(t)
    BY <1>5 DEF AllocPhase4
  <2>2. t \in Tracks /\ status[t] = "free"
    BY <2>1 DEF FirstOf, Free, EveryOther
  <2>3. QED
    BY <1>0, <2>1, <2>2
<1>6. QED
  BY <1>1, <1>2, <1>3, <1>4, <1>5 DEF Alloc

LEMMA MovesOnStore ==
  ASSUME TypeOK, ~cur.pass, StoreInv, pc = "alloc", AllocUnchanged,
         \/ \E t \in Tracks : status[t] = "free" /\ Book(t)
         \/ /\ UNCHANGED <<status, ltp, cur>>
            /\ \/ pc' \in {"alloc", "disk_full"}
               \/ pc' = "undefined" /\ TRUE \in OutOfBounds
  PROVE  StoreInv'
<1>1. TypeOK /\ pc = "alloc" /\ UNCHANGED <<hash, refs, lba_list>>
  BY DEF AllocUnchanged
<1>2. CASE \E t \in Tracks : status[t] = "free" /\ Book(t)
  BY <1>1, <1>2, BookStore
<1>3. CASE /\ UNCHANGED <<status, ltp, cur>>
           /\ \/ pc' \in {"alloc", "disk_full"}
              \/ pc' = "undefined" /\ TRUE \in OutOfBounds
  <2>1. Target' = Target
    BY <1>3 DEF Target
  <2>2. TracksInv'
    <3>1. \A p \in Tracks : Settled(p)
      BY <1>1 DEF StoreInv, TracksInv, UnderWay
    <3>2. \A p \in Tracks : Settled(p)'
      BY <1>1, <1>3, <3>1 DEF Settled, Vacated, Lists, Owner
    <3>3. pc' \notin {"store", "flush"}
      BY <1>3
    <3>4. QED
      BY <3>2, <3>3 DEF TracksInv
  <2>3. EntriesInv'
    BY <1>1, <1>3, <2>1 DEF StoreInv, EntriesInv
  <2>4. WriteInv'
    BY <1>1, <1>3, <2>1 DEF StoreInv, WriteInv, Running, Stopped
  <2>5. QED
    BY <2>2, <2>3, <2>4 DEF StoreInv
<1>4. QED
  BY <1>2, <1>3

LEMMA AllocStore ==
  ASSUME IInv, SingleInv, StoreInv, Alloc
  PROVE  StoreInv'
<1>1. TypeOK /\ AllocatorInv /\ ~cur.pass
  BY AllocBooks DEF IInv, SingleInv, BatchInv
<1>2. QED
  BY <1>1, AllocBooks, MovesOnStore

-----------------------------------------------------------------------------
(* The store.                                                              *)

LEMMA GrownCells ==
  ASSUME NEW s \in Seq(Cells), NEW i \in 1 .. 2 * Len(s)
  PROVE  increase_storage_lba_capacity(s)[i] = IF i <= Len(s) THEN s[i] ELSE NoLba
<1>1. Len(s) \in Nat
  BY LenProperties
<1>2. [j \in 1 .. Len(s) |-> NoLba] \in Seq(Cells) /\ Len([j \in 1 .. Len(s) |-> NoLba]) = Len(s)
  BY <1>1 DEF Cells
<1>3. QED
  BY <1>1, <1>2, ConcatProperties DEF increase_storage_lba_capacity

(* Tracks that no write is at stay settled through a step of the store.    *)
LEMMA AwayFromStore ==
  ASSUME TypeOK, TracksInv, NEW q \in Tracks, pc \in {"store", "flush"}, q = cur.pba,
         UNCHANGED <<status, refs, ltp>>,
         \A p \in Tracks \ {q} : lba_list'[p] = lba_list[p]
  PROVE  \A p \in Tracks \ {q} : Settled(p)'
<1>1. \A p \in Tracks \ {q} : Settled(p)
  BY DEF TracksInv, UnderWay
<1>2. QED
  BY <1>1 DEF Settled, Vacated, Lists, Owner

(* A block that is in no cell is found nowhere, whatever the scan covers.  *)
LEMMA FoundNowhere ==
  ASSUME Garbage = {NoLba}, NEW s \in Seq(Cells), NEW l \in LBAs, NEW k,
         \A i \in 1 .. Len(s) : s[i] # l
  PROVE  Positions(s, k, l) = {0}
<1>1. \A i : Cell(s, i) # l
  BY CellAssumption DEF Cell
<1>2. QED
  BY <1>1, CellAssumption DEF Positions

(* A block joins the k owners of a track, in the cell after theirs.        *)
LEMMA ListJoined ==
  ASSUME NEW q \in Tracks, NEW k \in Nat, NEW l \in LBAs, Lists(q, k, {l}),
         k + 1 <= Len(lba_list'[q]), \A i \in 1 .. k : lba_list'[q][i] = lba_list[q][i],
         lba_list'[q][k + 1] = l,
         Owner(l, q)', \A m \in LBAs \ {l} : Owner(m, q)' <=> Owner(m, q)
  PROVE  Lists(q, k + 1, {})'
<1>1. \A i \in 1 .. k + 1 : i \in 1 .. k \/ i = k + 1
  OBVIOUS
<1>2. \A i \in 1 .. k : lba_list[q][i] \in LBAs \ {l} /\ Owner(lba_list[q][i], q)
  BY DEF Lists
<1>3. \A i \in 1 .. k : lba_list[q][i] \in LBAs /\ ltp'[lba_list[q][i]].valid /\ ltp'[lba_list[q][i]].pba = q
  BY <1>2 DEF Owner
<1>4. \A i \in 1 .. k + 1 : lba_list'[q][i] \in LBAs /\ ltp'[lba_list'[q][i]].valid
                            /\ ltp'[lba_list'[q][i]].pba = q
  BY <1>1, <1>3 DEF Owner
<1>5. \A i, j \in 1 .. k + 1 : lba_list'[q][i] = lba_list'[q][j] => i = j
  BY <1>1, <1>2 DEF Lists
<1>6. ASSUME NEW m \in LBAs, Owner(m, q)'
       PROVE  \E i \in 1 .. k + 1 : lba_list'[q][i] = m
  <2>1. CASE m = l
    BY <2>1
  <2>2. CASE m # l
    <3>1. PICK i \in 1 .. k : lba_list[q][i] = m
      BY <1>6, <2>2 DEF Lists
    <3>2. QED
      BY <3>1
  <2>3. QED
    BY <2>1, <2>2
<1>7. QED
  BY <1>4, <1>5, <1>6 DEF Lists, Owner

LEMMA PutCell ==
  ASSUME NEW s \in Seq(Cells), NEW k \in Nat, k < Len(s), NEW l \in LBAs,
         NEW w, w = [s EXCEPT ![k + 1] = l]
  PROVE  /\ Len(w) = Len(s)
         /\ \A j \in 1 .. Len(s) : w[j] = IF j = k + 1 THEN l ELSE s[j]
<1>1. Len(s) \in Nat /\ DOMAIN s = 1 .. Len(s) /\ l \in Cells
  BY LenProperties DEF Cells
<1>2. QED
  BY <1>1, PutType

(* The list of a shared track gets the writer, in an array that may grow.  *)
LEMMA WriterListed ==
  ASSUME Garbage = {NoLba}, TypeOK, StoreInv, pc = "store", refs[cur.pba] > 0, Target = cur.lba,
         pc' = "idle", UNCHANGED <<status, hash, refs, ltp>>,
         NEW grown \in Seq(Cells), refs[cur.pba] < Len(grown),
         Len(lba_list[cur.pba]) <= Len(grown),
         \A i \in 1 .. Len(grown) :
           grown[i] = IF i <= Len(lba_list[cur.pba]) THEN lba_list[cur.pba][i] ELSE NoLba,
         NEW n, NEW at \in Positions(grown, n, cur.lba),
         lba_list' = [lba_list EXCEPT ![cur.pba] =
                        IF at = 0 THEN [grown EXCEPT ![refs[cur.pba] + 1] = cur.lba]
                        ELSE IF at <= Len(grown) THEN [grown EXCEPT ![at] = cur.lba] ELSE grown]
  PROVE  StoreInv'
<1>0. Target \in LBAs /\ cur.hash \in Hashes /\ TracksInv /\ EntriesInv
  BY DEF StoreInv, WriteInv, Running
<1>1. PICK q \in Tracks : q = cur.pba
  BY DEF TypeOK, Instructions
<1>2. PICK l \in LBAs : l = Target
  BY <1>0
<1>3. ToJoin(q) /\ status[q] = "in_use" /\ hash[q] = cur.hash /\ ltp[l] = Mapped(q, cur.hash)
  <2>1. ~(refs[q] > 0 /\ refs[q] = 0)
    OBVIOUS
  <2>2. QED
    BY <1>0, <1>1, <1>2, <2>1 DEF TracksInv, ToWrite, ToPass, StoreInv, WriteInv
<1>4. PICK k \in Nat : k = refs[q] /\ k > 0
  BY <1>1, <1>3, ListCells DEF ToJoin
<1>5. Len(grown) \in Nat /\ k < Len(grown) /\ k <= Len(lba_list[q]) /\ Len(lba_list[q]) \in Nat
  BY <1>1, <1>3, <1>4, ListCells, LenProperties DEF ToJoin, Lists
<1>6. \A j \in 1 .. Len(grown) : grown[j] # l
  BY <1>1, <1>2, <1>3, <1>5, CellAssumption DEF ToJoin
<1>7. at = 0
  BY <1>2, <1>6, FoundNowhere
<1>8. lba_list' = [lba_list EXCEPT ![q] = [grown EXCEPT ![k + 1] = l]]
  BY <1>1, <1>2, <1>4, <1>7
<1>9. Lists(q, k, {l})
  BY <1>2, <1>3, <1>4 DEF ToJoin
<1>10. Owner(l, q)' /\ \A m \in LBAs \ {l} : Owner(m, q)' <=> Owner(m, q)
  BY <1>3 DEF Owner, Mapped
<1>11. \A j \in 1 .. k : grown[j] = lba_list[q][j]
  BY <1>1, <1>5
<1>12. /\ \A p \in Tracks \ {q} : lba_list'[p] = lba_list[p]
       /\ Len(lba_list'[q]) = Len(grown)
       /\ \A j \in 1 .. Len(grown) : lba_list'[q][j] = IF j = k + 1 THEN l ELSE grown[j]
  <2>1. DOMAIN lba_list = Tracks
    BY DEF TypeOK
  <2>2. /\ \A p \in Tracks \ {q} : lba_list'[p] = lba_list[p]
        /\ lba_list'[q] = [grown EXCEPT ![k + 1] = l]
    BY <1>8, <2>1
  <2>3. PICK w : w = lba_list'[q] /\ w = [grown EXCEPT ![k + 1] = l]
    BY <2>2
  <2>4. Len(w) = Len(grown) /\ \A j \in 1 .. Len(grown) : w[j] = IF j = k + 1 THEN l ELSE grown[j]
    BY <1>5, <2>3, PutCell
  <2>5. QED
    BY <2>2, <2>3, <2>4
<1>13. Lists(q, k + 1, {})'
  <2>1. /\ k + 1 <= Len(lba_list'[q]) /\ lba_list'[q][k + 1] = l
        /\ \A j \in 1 .. k : lba_list'[q][j] = lba_list[q][j]
    <3>1. \A j \in 1 .. k : j \in 1 .. Len(grown) /\ j # k + 1
      BY <1>5
    <3>2. k + 1 \in 1 .. Len(grown)
      BY <1>5
    <3>3. QED
      BY <1>5, <1>11, <1>12, <3>1, <3>2
  <2>2. QED
    BY <1>9, <1>10, <2>1, ListJoined
<1>14. Settled(q)'
  BY <1>3, <1>4, <1>13 DEF Settled, Lists
<1>15. TracksInv'
  BY <1>0, <1>1, <1>12, <1>14, AwayFromStore DEF TracksInv
<1>16. EntriesInv'
  <2>1. \A m \in LBAs : ltp[m].valid => hash[ltp[m].pba] = ltp[m].hash
    BY <1>0, <1>2, <1>3 DEF EntriesInv, Mapped
  <2>2. \A p \in Tracks \ {q} : \A i \in 1 .. Len(lba_list'[p]) :
          LET m == lba_list'[p][i] IN m \in LBAs => ltp[m].valid \/ ltp[m].trim
    BY <1>0, <1>12 DEF EntriesInv
  <2>3. \A j \in 1 .. Len(lba_list'[q]) :
          LET m == lba_list'[q][j] IN m \in LBAs => ltp[m].valid \/ ltp[m].trim
    <3>0. ltp[l].valid
      BY <1>3 DEF Mapped
    <3> SUFFICES ASSUME NEW j \in 1 .. Len(grown), NEW m \in LBAs, m = lba_list'[q][j]
                 PROVE  ltp[m].valid \/ ltp[m].trim
      BY <1>12
    <3>1. CASE m = l
      BY <3>0, <3>1
    <3>2. CASE m # l
      <4>1. m = grown[j]
        BY <1>12, <3>2
      <4>2. m = lba_list[q][j] /\ j \in 1 .. Len(lba_list[q])
        BY <1>1, <1>5, <4>1, CellAssumption
      <4>3. QED
        BY <1>0, <4>2, CellKnown
    <3>3. QED
      BY <3>1, <3>2
  <2>4. \A m \in LBAs : ltp[m].valid => ~ltp[m].trim /\ ltp[m].hash \in Hashes
    BY <1>0 DEF EntriesInv
  <2>5. QED
    BY <2>1, <2>2, <2>3, <2>4 DEF EntriesInv
<1>17. WriteInv'
  BY DEF WriteInv, Running, Stopped
<1>18. QED
  BY <1>15, <1>16, <1>17 DEF StoreInv

LEMMA SharedStore ==
  ASSUME PlainTraces, IInv, SingleInv, StoreInv, StoreShared
  PROVE  StoreInv'
<1>0. /\ TypeOK /\ pc = "store" /\ Target = cur.lba /\ refs[cur.pba] > 0
      /\ UNCHANGED <<status, hash, refs, ltp>> /\ pc' = "idle"
  BY OneBlock DEF PlainTraces, StoreShared, StoreUnchanged, IInv
<1>1. PICK q \in Tracks : q = cur.pba
  BY <1>0 DEF TypeOK, Instructions
<1> DEFINE s == lba_list[q]
           grown == IF refs[q] + 1 > Len(s) THEN increase_storage_lba_capacity(s) ELSE s
<1>2. PICK k \in Nat : k = refs[q] /\ k > 0
  BY <1>0, <1>1, ListCells
<1>3. s \in Seq(Cells) /\ Len(s) \in Nat /\ k <= Len(s)
  <2>1. ~(refs[q] > 0 /\ refs[q] = 0)
    OBVIOUS
  <2>2. ToJoin(q)
    BY <1>0, <1>1, <2>1 DEF StoreInv, TracksInv, ToWrite, ToPass
  <2>3. QED
    BY <1>0, <1>2, <2>2, ListCells DEF ToJoin, Lists
<1>4. /\ grown \in Seq(Cells) /\ Len(grown) \in Nat /\ k + 1 <= Len(grown) /\ Len(s) <= Len(grown)
      /\ \A i \in 1 .. Len(grown) : grown[i] = IF i <= Len(s) THEN s[i] ELSE NoLba
  <2> DEFINE doubled == increase_storage_lba_capacity(s)
  <2>1. doubled \in Seq(Cells) /\ Len(doubled) = 2 * Len(s)
    BY <1>3, GrownType
  <2>2. \A i \in 1 .. 2 * Len(s) : doubled[i] = IF i <= Len(s) THEN s[i] ELSE NoLba
    BY <1>3, GrownCells
  <2> HIDE DEF doubled
  <2>3. grown = IF k + 1 > Len(s) THEN doubled ELSE s
    BY <1>2 DEF doubled
  <2> HIDE DEF grown, s
  <2>4. CASE k + 1 > Len(s)
    BY <1>2, <1>3, <2>1, <2>2, <2>3, <2>4
  <2>5. CASE k + 1 <= Len(s)
    BY <1>2, <1>3, <2>3, <2>5
  <2>6. QED
    BY <1>2, <1>3, <2>4, <2>5
<1>5. PICK at \in Positions(grown, refs[0] + 1, cur.lba) :
        lba_list' = [lba_list EXCEPT ![cur.pba] =
                       IF at = 0 THEN [grown EXCEPT ![refs[cur.pba] + 1] = cur.lba]
                       ELSE IF at <= Len(grown) THEN [grown EXCEPT ![at] = cur.lba] ELSE grown]
  BY <1>1 DEF StoreShared
<1> HIDE DEF grown
<1>6. refs[cur.pba] < Len(grown)
  BY <1>1, <1>2, <1>4
<1>7. Garbage = {NoLba}
  BY DEF PlainTraces
<1>8. QED
  BY <1>0, <1>1, <1>4, <1>5, <1>6, <1>7, WriterListed

(* Writing a track that has no owner but the writer: its list is the       *)
(* writer alone, and the writer's entry leads to its content.              *)
LEMMA OwnedWritten ==
  ASSUME TypeOK, EntriesInv, NEW q \in Tracks, NEW l \in LBAs, l = Target, Len(lba_list[q]) > 0,
         ltp' = ltp, ltp[l] = Mapped(q, cur.hash), \A m \in LBAs : Owner(m, q) => m = l,
         hash' = [hash EXCEPT ![q] = cur.hash], lba_list' = [lba_list EXCEPT ![q][1] = l]
  PROVE  /\ Lists(q, 1, {})' /\ EntriesInv' /\ hash'[q] = cur.hash
         /\ \A p \in Tracks \ {q} : lba_list'[p] = lba_list[p] /\ hash'[p] = hash[p]
<1>1. /\ Len(lba_list'[q]) = Len(lba_list[q]) /\ Len(lba_list[q]) \in Nat /\ Len(lba_list[q]) > 0
      /\ \A i \in 1 .. Len(lba_list[q]) : lba_list'[q][i] = IF i = 1 THEN l ELSE lba_list[q][i]
      /\ \A p \in Tracks \ {q} : lba_list'[p] = lba_list[p] /\ hash'[p] = hash[p]
      /\ hash'[q] = cur.hash
  <2>1. Len(lba_list[q]) > 0 /\ Len(lba_list[q]) \in Nat /\ lba_list[q] \in Seq(Cells)
    BY ListCells
  <2>2. lba_list'[q] = [lba_list[q] EXCEPT ![1] = l]
    BY DEF TypeOK
  <2>3. Len(lba_list'[q]) = Len(lba_list[q])
    BY <2>1, <2>2, PutType DEF Cells
  <2>4. \A i \in 1 .. Len(lba_list[q]) : lba_list'[q][i] = IF i = 1 THEN l ELSE lba_list[q][i]
    BY <2>1, <2>2
  <2>5. QED
    BY <2>1, <2>3, <2>4 DEF TypeOK
<1>2. ltp[l].hash = cur.hash /\ ltp[l].valid /\ ltp[l].pba = q
  BY DEF Mapped
<1>3. Lists(q, 1, {})'
  <2>1. lba_list'[q][1] = l
    BY <1>1
  <2>2. \A m \in LBAs : Owner(m, q)' <=> m = l
    BY <1>2 DEF Owner
  <2>3. QED
    BY <1>1, <2>1, <2>2 DEF Lists
<1>4. EntriesInv'
  <2>1. \A m \in LBAs : ltp[m].valid => hash'[ltp[m].pba] = ltp[m].hash
    <3> SUFFICES ASSUME NEW m \in LBAs, ltp[m].valid
                 PROVE  hash'[ltp[m].pba] = ltp[m].hash
      OBVIOUS
    <3>1. CASE m = l
      BY <1>1, <1>2, <3>1
    <3>2. CASE m # l
      <4>1. ltp[m].pba \in Tracks /\ ltp[m].pba # q /\ hash[ltp[m].pba] = ltp[m].hash
        BY <3>2, EntryType DEF Owner, EntriesInv
      <4>2. QED
        BY <1>1, <4>1
    <3>3. QED
      BY <3>1, <3>2
  <2>2. \A p \in Tracks : \A i \in 1 .. Len(lba_list'[p]) :
          LET m == lba_list'[p][i] IN m \in LBAs => ltp[m].valid \/ ltp[m].trim
    BY <1>1, <1>2 DEF EntriesInv
  <2>3. \A m \in LBAs : ltp[m].valid => ~ltp[m].trim /\ ltp[m].hash \in Hashes
    BY DEF EntriesInv
  <2>4. QED
    BY <2>1, <2>2, <2>3 DEF EntriesInv
<1>5. QED
  BY <1>1, <1>3, <1>4

LEMMA OwnedStore ==
  ASSUME PlainTraces, IInv, SingleInv, StoreInv, StoreOwned
  PROVE  StoreInv'
<1>0. /\ TypeOK /\ pc = "store" /\ Target \in LBAs /\ cur.hash \in Hashes /\ cur.n = 1 /\ cur.i = 0
      /\ TracksInv /\ EntriesInv /\ UNCHANGED <<status, refs, ltp>>
  BY OneBlock DEF PlainTraces, StoreOwned, StoreUnchanged, IInv, StoreInv, WriteInv, Running
<1>1. PICK q \in Tracks : q = cur.pba
  BY <1>0 DEF TypeOK, Instructions
<1>2. PICK l \in LBAs : l = Target
  BY <1>0
<1>3. pc' = "flush" /\ cur' = cur /\ Target' = Target
  BY <1>0 DEF StoreOwned, Target
<1>4. refs[q] = 0 /\ ltp[l] = Mapped(q, cur.hash) /\ Owner(l, q)
  BY <1>0, <1>1, <1>2 DEF StoreOwned, StoreInv, WriteInv, Owner, Mapped
<1>5. ltp[l].hash = cur.hash /\ ltp[l].valid /\ ltp[l].pba = q
  BY <1>4 DEF Mapped
<1>6. WriteInv'
  BY <1>0, <1>1, <1>2, <1>3, <1>4 DEF WriteInv, Running, Stopped
<1>7. CASE cur.pass
  <2>1. UNCHANGED <<hash, lba_list, gbtable>>
    BY <1>7 DEF StoreOwned
  <2>2. ToPass(q) /\ status[q] = "in_use" /\ hash[q] = cur.hash
    BY <1>0, <1>1, <1>4, <1>7 DEF TracksInv, ToWrite, ToJoin
  <2>3. Lists(q, 1, {})'
    BY <1>0, <2>1, <2>2 DEF ToPass, Lists, Owner
  <2>4. TracksInv'
    BY <1>0, <1>1, <1>3, <1>4, <2>1, <2>2, <2>3, AwayFromStore DEF TracksInv, UnderWay
  <2>5. EntriesInv'
    BY <1>0, <1>2, <1>3, <1>5, <2>1, <2>2 DEF EntriesInv
  <2>6. QED
    BY <1>6, <2>4, <2>5 DEF StoreInv
<1>8. CASE ~cur.pass
  <2>1. /\ hash' = [hash EXCEPT ![q] = cur.hash] /\ lba_list' = [lba_list EXCEPT ![q][1] = l]
        /\ gbtable' = gbtable \cup {q}
    BY <1>1, <1>2, <1>8 DEF StoreOwned
  <2>2. \A m \in LBAs : Owner(m, q) => m = l
    BY <1>0, <1>1, <1>2, <1>4, <1>8 DEF TracksInv, ToWrite, ToPass, ToJoin
  <2>3. /\ Lists(q, 1, {})' /\ EntriesInv'
        /\ \A p \in Tracks \ {q} : lba_list'[p] = lba_list[p]
    <3>1. Len(lba_list[q]) > 0
      BY DEF IInv, ListInv
    <3>2. QED
      BY <1>0, <1>2, <1>4, <2>1, <2>2, <3>1, OwnedWritten
  <2>4. TracksInv'
    <3>1. \A p \in Tracks \ {q} : Settled(p)'
      BY <1>0, <1>1, <2>3, AwayFromStore
    <3>2. QED
      BY <1>0, <1>1, <1>3, <1>4, <2>1, <2>3, <3>1 DEF TracksInv, UnderWay
  <2>5. QED
    BY <1>6, <2>3, <2>4 DEF StoreInv
<1>9. QED
  BY <1>7, <1>8

LEMMA StoreStore ==
  ASSUME PlainTraces, IInv, SingleInv, StoreInv, StoreMismatch \/ StoreShared \/ StoreOwned
  PROVE  StoreInv'
<1>1. ~StoreMismatch
  <2> SUFFICES ASSUME StoreMismatch PROVE FALSE
    OBVIOUS
  <2>1. refs[cur.pba] > 0 /\ ~(refs[cur.pba] > 0 /\ refs[cur.pba] = 0) /\ hash[cur.pba] # cur.hash
    BY DEF StoreMismatch
  <2>2. QED
    BY <2>1 DEF StoreMismatch, StoreInv, TracksInv, ToWrite, ToPass
<1>2. QED
  BY <1>1, SharedStore, OwnedStore

LEMMA BatchStore ==
  ASSUME PlainTraces, IInv, SingleInv, StoreInv, Flush
  PROVE  StoreInv'
<1>0. /\ TypeOK /\ pc = "flush" /\ pc' = "idle" /\ gbtable \subseteq {cur.pba}
      /\ TracksInv /\ EntriesInv /\ UNCHANGED <<hash, refs, lba_list, ltp>>
  BY DEF Flush, IInv, SingleInv, BatchInv, StoreInv
<1>1. PICK q \in Tracks : q = cur.pba
  BY <1>0 DEF TypeOK, Instructions
<1>2. /\ \A p \in Tracks \ {q} : status'[p] = status[p]
      /\ status'[q] = "in_use" /\ refs[q] = 0 /\ Lists(q, 1, {})
  BY <1>0, <1>1 DEF Flush, TracksInv
<1>3. \A p \in Tracks \ {q} : Settled(p)'
  <2>1. \A p \in Tracks \ {q} : Settled(p)
    BY <1>0, <1>1 DEF TracksInv, UnderWay
  <2>2. QED
    BY <1>0, <1>2, <2>1 DEF Settled, Vacated, Lists, Owner
<1>4. Settled(q)'
  BY <1>0, <1>2 DEF Settled, Lists, Owner
<1>5. TracksInv'
  BY <1>0, <1>3, <1>4 DEF TracksInv
<1>6. EntriesInv'
  BY <1>0 DEF EntriesInv
<1>7. WriteInv'
  BY <1>0 DEF WriteInv, Running, Stopped
<1>8. QED
  BY <1>5, <1>6, <1>7 DEF StoreInv

-----------------------------------------------------------------------------
(* Trims.                                                                  *)

(* A trimed block is listed exactly once.                                  *)
LEMMA TrimPosition ==
  ASSUME Garbage = {NoLba}, TypeOK, NEW p \in Tracks, Lists(p, refs[p] + 1, {}),
         NEW l \in LBAs, Owner(l, p)
  PROVE  \E i \in 1 .. refs[p] + 1 : /\ lba_list[p][i] = l
                                     /\ Positions(lba_list[p], refs[p] + 1, l) = {i}
<1>1. PICK k \in Nat : k = refs[p] + 1
  BY ListCells
<1>2. \A i \in 1 .. k : Cell(lba_list[p], i) = lba_list[p][i] /\ lba_list[p][i] # NoLba
  BY <1>1, ListCells, CellAssumption DEF Lists, Cell
<1>3. PICK i \in 1 .. k : lba_list[p][i] = l
  BY <1>1 DEF Lists
<1>4. \A j \in 1 .. k : Cell(lba_list[p], j) = l <=> j = i
  BY <1>1, <1>2, <1>3 DEF Lists
<1>5. Positions(lba_list[p], k, l) = {i}
  <2>1. \A j \in 1 .. i - 1 : j \in 1 .. k /\ j # i
    BY <1>1
  <2>2. \A j \in 1 .. k : \/ Cell(lba_list[p], j) = l
                          \/ Cell(lba_list[p], j) = NoLba /\ l \in Garbage
                          => j = i
    BY <1>2, <1>4
  <2>3. QED
    BY <1>1, <1>4, <2>1, <2>2 DEF Positions
<1>6. QED
  BY <1>1, <1>3, <1>5

LEMMA DeletedCells ==
  ASSUME NEW s \in Seq(Cells), NEW k \in Nat, k <= Len(s), NEW i \in 1 .. k
  PROVE  /\ Len(DeleteAt(s, i, k)) = Len(s)
         /\ \A j \in 1 .. Len(s) :
              DeleteAt(s, i, k)[j] = IF i <= j /\ j < k THEN s[j + 1] ELSE s[j]
<1>1. Len(s) \in Nat
  BY LenProperties
<1>2. \A j \in 1 .. Len(s) : i <= j /\ j < k => Cell(s, j + 1) = s[j + 1]
  BY <1>1 DEF Cell
<1>3. QED
  BY <1>1, <1>2, DeleteAtType DEF DeleteAt

LEMMA TrimStore ==
  ASSUME Garbage = {NoLba}, TypeOK, StoreInv, NEW l \in LBAs, Trim(l)
  PROVE  StoreInv'
<1>0. /\ TypeOK /\ pc = "idle" /\ ltp[l].valid /\ ~ltp[l].trim
      /\ ltp' = [ltp EXCEPT ![l].trim = TRUE, ![l].valid = FALSE] /\ hash' = hash
      /\ (\A p \in Tracks : Settled(p)) /\ EntriesInv
  BY DEF Trim, TrimBadStatus, TrimNotListed, TrimListed, Trimming, StoreInv, TracksInv, UnderWay
<1>1. PICK p \in Tracks : p = ltp[l].pba
  BY <1>0, EntryType
<1>2. Owner(l, p)
  BY <1>0, <1>1 DEF Owner
<1>3. status[p] = "in_use" /\ Lists(p, refs[p] + 1, {})
  BY <1>0, <1>2, OwnerInUse
<1>4. PICK i \in 1 .. refs[p] + 1 : /\ lba_list[p][i] = l
                                   /\ Positions(lba_list[p], refs[p] + 1, l) = {i}
  BY <1>0, <1>2, <1>3, TrimPosition
<1>5. PICK k \in Nat : k = refs[p]
  BY <1>0, ListCells
<1>6. i \in 1 .. k + 1 /\ i # 0
  BY <1>4, <1>5
<1>7. ~TrimBadStatus(l) /\ ~TrimNotListed(l)
  BY <1>1, <1>3, <1>4, <1>6 DEF TrimBadStatus, TrimNotListed
<1>8. TrimListed(l)
  BY <1>7 DEF Trim
<1> DEFINE s == lba_list[p]
<1>9. /\ lba_list' = [lba_list EXCEPT ![p] = DeleteAt(s, i, k + 1)] /\ pc' = "idle"
      /\ IF k > 0 THEN refs' = [refs EXCEPT ![p] = k - 1] /\ status' = status
                  ELSE refs' = refs /\ status' = [status EXCEPT ![p] = "trimed"]
  <2>1. Positions(s, k + 1, l) \ {0} = {i}
    BY <1>4, <1>5, <1>6
  <2>2. QED
    BY <1>0, <1>1, <1>5, <1>8, <2>1 DEF TrimListed, Vacate, TypeOK
<1>10. s \in Seq(Cells) /\ Len(s) \in Nat /\ k + 1 <= Len(s)
  BY <1>0, <1>3, <1>5, ListCells DEF Lists
<1>11. /\ \A q \in Tracks \ {p} : /\ lba_list'[q] = lba_list[q] /\ refs'[q] = refs[q]
                                  /\ status'[q] = status[q]
       /\ Len(lba_list'[p]) = Len(s)
       /\ \A j \in 1 .. Len(s) :
            lba_list'[p][j] = IF i <= j /\ j < k + 1 THEN s[j + 1] ELSE s[j]
  <2>1. lba_list'[p] = DeleteAt(s, i, k + 1)
    BY <1>0, <1>9 DEF TypeOK
  <2>2. \A q \in Tracks \ {p} : /\ lba_list'[q] = lba_list[q] /\ refs'[q] = refs[q]
                                /\ status'[q] = status[q]
    BY <1>0, <1>9 DEF TypeOK
  <2>3. QED
    BY <1>6, <1>10, <2>1, <2>2, DeletedCells
<1>12. /\ ~ltp'[l].valid /\ ltp'[l].trim /\ ltp'[l].pba = p
       /\ \A m \in LBAs \ {l} : ltp'[m] = ltp[m]
  BY <1>0, <1>1 DEF TypeOK, Entries
<1>13. \A q \in Tracks : \A m \in LBAs : Owner(m, q)' <=> Owner(m, q) /\ m # l
  BY <1>12 DEF Owner
<1>14. \A q \in Tracks \ {p} : Settled(q)'
  <2> SUFFICES ASSUME NEW q \in Tracks \ {p} PROVE Settled(q)'
    OBVIOUS
  <2>1. SameOwners(q)
    BY <1>1, <1>13 DEF SameOwners, Owner
  <2>2. status[q] = "trimed" => lba_list[q][1] # l
    BY <1>0, <1>1 DEF Settled, Vacated
  <2>3. QED
    BY <1>0, <1>11, <1>12, <2>1, <2>2, SettledKept
<1>15. Settled(p)'
  <2>1. CASE k > 0
    <3>1. refs'[p] = k - 1 /\ status'[p] = "in_use" /\ refs'[p] + 1 = k
      BY <1>0, <1>3, <1>5, <1>9, <2>1 DEF TypeOK
    <3>2. \A j \in 1 .. k : \E m \in 1 .. k + 1 : m # i /\ lba_list'[p][j] = s[m]
      <4> SUFFICES ASSUME NEW j \in 1 .. k PROVE \E m \in 1 .. k + 1 : m # i /\ lba_list'[p][j] = s[m]
        OBVIOUS
      <4>1. CASE i <= j
        <5>1. j + 1 \in 1 .. k + 1 /\ j + 1 # i /\ lba_list'[p][j] = s[j + 1]
          BY <1>5, <1>6, <1>10, <1>11, <4>1
        <5>2. QED
          BY <5>1
      <4>2. CASE j < i
        BY <1>5, <1>6, <1>10, <1>11, <4>2
      <4>3. QED
        BY <1>6, <4>1, <4>2
    <3>3. \A j \in 1 .. k : /\ lba_list'[p][j] \in LBAs
                            /\ ltp'[lba_list'[p][j]].valid /\ ltp'[lba_list'[p][j]].pba = p
      <4> SUFFICES ASSUME NEW j \in 1 .. k, NEW m \in 1 .. k + 1, m # i, lba_list'[p][j] = s[m]
                   PROVE  /\ lba_list'[p][j] \in LBAs
                          /\ ltp'[lba_list'[p][j]].valid /\ ltp'[lba_list'[p][j]].pba = p
        BY <3>2
      <4>1. s[m] \in LBAs /\ Owner(s[m], p) /\ s[m] # l
        BY <1>3, <1>4, <1>5 DEF Lists
      <4>2. PICK n \in LBAs : n = s[m]
        BY <4>1
      <4>3. QED
        BY <1>12, <4>1 DEF Owner
    <3>4. \A j, n \in 1 .. k : lba_list'[p][j] = lba_list'[p][n] => j = n
      <4>1. \A a, b \in 1 .. k + 1 : s[a] = s[b] => a = b
        BY <1>3, <1>5 DEF Lists
      <4>2. \A j \in 1 .. k : lba_list'[p][j] = s[IF i <= j THEN j + 1 ELSE j]
        BY <1>6, <1>10, <1>11
      <4> HIDE DEF s
      <4> SUFFICES ASSUME NEW j \in 1 .. k, NEW n \in 1 .. k, lba_list'[p][j] = lba_list'[p][n]
                   PROVE  j = n
        OBVIOUS
      <4>3. (IF i <= j THEN j + 1 ELSE j) = (IF i <= n THEN n + 1 ELSE n)
        BY <1>6, <4>1, <4>2
      <4>4. QED
        BY <1>6, <4>3
    <3>5. \A m \in LBAs : Owner(m, p)' => \E j \in 1 .. k : lba_list'[p][j] = m
      <4> SUFFICES ASSUME NEW m \in LBAs, Owner(m, p), m # l
                   PROVE  \E j \in 1 .. k : lba_list'[p][j] = m
        BY <1>13
      <4>1. PICK a \in 1 .. k + 1 : s[a] = m
        BY <1>3, <1>5 DEF Lists
      <4>2. a # i
        BY <1>4, <4>1
      <4>3. CASE a < i
        <5>1. a \in 1 .. k /\ lba_list'[p][a] = s[a]
          BY <1>5, <1>6, <1>10, <1>11, <4>3
        <5>2. QED
          BY <4>1, <5>1
      <4>4. CASE a > i
        <5>1. a - 1 \in 1 .. k /\ a - 1 \in 1 .. Len(s) /\ i <= a - 1 /\ (a - 1) + 1 = a
          BY <1>5, <1>6, <1>10, <4>4
        <5>2. lba_list'[p][a - 1] = s[a]
          BY <1>11, <5>1
        <5>3. QED
          BY <4>1, <5>1, <5>2
      <4>5. QED
        BY <1>6, <4>2, <4>3, <4>4
    <3>6. Lists(p, k, {})'
      BY <1>10, <1>11, <3>3, <3>4, <3>5 DEF Lists, Owner
    <3>7. QED
      BY <3>1, <3>6 DEF Settled, Lists
  <2>2. CASE k = 0
    <3>1. refs'[p] = 0 /\ status'[p] = "trimed"
      <4>1. refs' = refs /\ status' = [status EXCEPT ![p] = "trimed"]
        BY <1>9, <2>2
      <4>2. QED
        BY <1>0, <1>5, <2>2, <4>1 DEF TypeOK
    <3>2. i = 1 /\ lba_list'[p][1] = l
      BY <1>4, <1>6, <1>10, <1>11, <2>2
    <3>3. \A m \in LBAs : ~Owner(m, p)'
      <4>1. Lists(p, 1, {})
        BY <1>3, <1>5, <2>2
      <4>2. QED
        BY <1>0, <1>2, <1>13, <4>1, OnlyOwner
    <3>4. Vacated(p)'
      BY <1>12, <3>1, <3>2, <3>3 DEF Vacated
    <3>5. QED
      BY <3>1, <3>4 DEF Settled
  <2>3. QED
    BY <2>1, <2>2
<1>16. TracksInv'
  BY <1>9, <1>14, <1>15 DEF TracksInv
<1>17. EntriesInv'
  <2>1. \A m \in LBAs : ltp'[m].valid => m # l /\ ltp'[m] = ltp[m]
    BY <1>12
  <2>2. \A q \in Tracks : \A j \in 1 .. Len(lba_list'[q]) :
          \E a \in 1 .. Len(lba_list[q]) : lba_list'[q][j] = lba_list[q][a]
    <3>1. \A j \in 1 .. Len(s) : \E a \in 1 .. Len(s) : lba_list'[p][j] = s[a]
      BY <1>6, <1>10, <1>11
    <3> SUFFICES ASSUME NEW q \in Tracks, NEW j \in 1 .. Len(lba_list'[q])
                 PROVE  \E a \in 1 .. Len(lba_list[q]) : lba_list'[q][j] = lba_list[q][a]
      OBVIOUS
    <3>2. CASE q = p
      <4>1. j \in 1 .. Len(s)
        BY <1>11, <3>2
      <4>2. QED
        BY <3>1, <3>2, <4>1
    <3>3. CASE q # p
      <4>1. lba_list'[q] = lba_list[q]
        BY <1>11, <3>3
      <4>2. QED
        BY <4>1
    <3>4. QED
      BY <3>2, <3>3
  <2>3. \A q \in Tracks : \A j \in 1 .. Len(lba_list'[q]) :
          LET m == lba_list'[q][j] IN m \in LBAs => ltp'[m].valid \/ ltp'[m].trim
    <3> SUFFICES ASSUME NEW q \in Tracks, NEW j \in 1 .. Len(lba_list'[q]),
                        NEW m \in LBAs, m = lba_list'[q][j]
                 PROVE  ltp'[m].valid \/ ltp'[m].trim
      OBVIOUS
    <3>1. ltp[m].valid \/ ltp[m].trim
      BY <1>0, <2>2 DEF EntriesInv
    <3>2. QED
      BY <1>12, <3>1
  <2>4. \A m \in LBAs : ltp'[m].valid => /\ ~ltp'[m].trim /\ ltp'[m].hash \in Hashes
                                         /\ hash'[ltp'[m].pba] = ltp'[m].hash
    <3>1. \A m \in LBAs : ltp[m].valid => /\ ~ltp[m].trim /\ ltp[m].hash \in Hashes
                                          /\ hash[ltp[m].pba] = ltp[m].hash
      BY <1>0 DEF EntriesInv
    <3>2. SUFFICES ASSUME NEW m \in LBAs, ltp'[m].valid
                   PROVE  /\ ~ltp'[m].trim /\ ltp'[m].hash \in Hashes
                          /\ hash'[ltp'[m].pba] = ltp'[m].hash
      OBVIOUS
    <3>3. ltp'[m] = ltp[m] /\ hash' = hash
      BY <1>0, <2>1, <3>2
    <3>4. QED
      BY <3>1, <3>2, <3>3
  <2>5. QED
    BY <2>3, <2>4 DEF EntriesInv
<1>18. WriteInv'
  BY <1>9 DEF WriteInv, Running, Stopped
<1>19. QED
  BY <1>16, <1>17, <1>18 DEF StoreInv

-----------------------------------------------------------------------------
(* The invariant, and what follows from it.                                *)

LEMMA StartStore ==
  ASSUME PlainTraces, IInv, SingleInv, StoreInv,
         NEW l \in 0 .. L, NEW n \in 1 .. MaxBlocks, NEW h \in Hashes, StartWrite(l, n, h)
  PROVE  /\ StoreInv' /\ pc = "idle" /\ pc' = "search" /\ Target' = l /\ l \in LBAs
         /\ cur'.lba = l /\ cur'.hash = h
<1>1. /\ pc = "idle" /\ UNCHANGED <<status, hash, refs, lba_list, ltp, zinfo, current_use, gbtable>>
      /\ cur' = [NoInstruction EXCEPT !.lba = l, !.n = n, !.hash = h]
  BY DEF StartWrite, blocks
<1>2. n = 1 /\ KindOf(l, h) \in PlainKinds
  BY LogicalNumAssumption DEF StartWrite, PlainTraces, SingleBlocks
<1>3. l \in LBAs
  BY <1>2, PlainKind DEF PlainTarget
<1>4. pc' = "search"
  BY <1>2, LogicalNumAssumption DEF StartWrite
<1>5. Target' = l /\ cur'.hash = h /\ cur'.lba = l
  BY <1>1, LogicalNumAssumption DEF NoInstruction, Target
<1>6. TracksInv'
  <2>1. \A p \in Tracks : Settled(p)
    BY <1>1 DEF StoreInv, TracksInv, UnderWay
  <2>2. \A p \in Tracks : Settled(p)'
    BY <1>1, <2>1 DEF Settled, Vacated, Lists, Owner
  <2>3. QED
    BY <1>4, <2>2 DEF TracksInv
<1>7. EntriesInv'
  <2>1. \A m \in LBAs : ltp[m].valid => hash[ltp[m].pba] = ltp[m].hash
    BY <1>1 DEF StoreInv, EntriesInv
  <2>2. QED
    BY <1>1, <2>1 DEF StoreInv, EntriesInv
<1>8. WriteInv'
  BY <1>3, <1>4, <1>5 DEF WriteInv, Running, Stopped
<1>9. QED
  BY <1>1, <1>3, <1>4, <1>5, <1>6, <1>7, <1>8 DEF StoreInv

LEMMA NextStore ==
  ASSUME PlainTraces, IInv, SingleInv, StoreInv, [Next]_vars
  PROVE  StoreInv'
<1>1. CASE UNCHANGED vars
  <2>1. UNCHANGED <<status, hash, refs, lba_list, ltp, gbtable, pc, cur>> /\ Target' = Target
    BY <1>1 DEF vars, Target
  <2>2. TracksInv'
    BY <2>1 DEF StoreInv, TracksInv, UnderWay, Settled, Vacated, ToWrite, ToPass, ToJoin, Lists, Owner
  <2>3. EntriesInv' /\ WriteInv'
    BY <2>1 DEF StoreInv, EntriesInv, WriteInv
  <2>4. QED
    BY <2>2, <2>3 DEF StoreInv
<1>2. CASE Progress
  BY <1>2, SearchFacts, SearchStore, AllocStore, StoreStore, BatchStore DEF Progress
<1>3. QED
  BY <1>1, <1>2, TrimStore, StartStore DEF Next, PlainTraces, IInv

LEMMA InitStore == Init => StoreInv
<1> SUFFICES ASSUME Init PROVE StoreInv
  OBVIOUS
<1>1. /\ pc = "idle" /\ \A l \in LBAs : ~ltp[l].valid
      /\ \A p \in Tracks : status[p] = "free" /\ refs[p] = 0 /\ lba_list[p] = <<NoLba, NoLba>>
  BY DEF Init
<1>2. TracksInv
  BY <1>1 DEF TracksInv, Settled, Vacated, Owner
<1>3. EntriesInv
  <2>1. \A p \in Tracks : \A i \in 1 .. Len(lba_list[p]) : lba_list[p][i] \notin LBAs
    BY <1>1, CellAssumption
  <2>2. QED
    BY <1>1, <2>1 DEF EntriesInv
<1>4. QED
  BY <1>1, <1>2, <1>3 DEF StoreInv, WriteInv, Running, Stopped

(* The inductive invariant of plain traces: between writes every track in  *)
(* use lists exactly its owners and every valid entry leads to its         *)
(* content; while a write is under way, only its own track is excepted, in *)
(* one of three ways that the rest of the write repairs (lba.c:614-770,    *)
(* pba.c:682-899, active_swap.c:8-122).                                    *)
THEOREM StoreInvariant == ASSUME PlainTraces PROVE Spec => [](IInv /\ SingleInv /\ StoreInv)
<1>1. Init => StoreInv
  BY InitStore
<1>2. IInv /\ SingleInv /\ StoreInv /\ [Next]_vars => StoreInv'
  BY NextStore
<1>3. Spec => []SingleInv
  BY SingleInvariant DEF PlainTraces
<1>4. QED
  BY <1>1, <1>2, <1>3, InductiveInvariant, PTL DEF Spec

(* On every disk and for every plain trace, a valid logical block leads to *)
(* a track in use that holds the content last written to it, whatever was  *)
(* shared, swapped, taken over or trimed in between (pba.c:682-899).       *)
THEOREM ContentNeverLost == ASSUME PlainTraces PROVE Spec => []Integrity
<1>1. IInv /\ StoreInv => Integrity
  <2> SUFFICES ASSUME IInv, StoreInv, pc = "idle", NEW l \in LBAs, ltp[l].valid
               PROVE  status[ltp[l].pba] = "in_use" /\ hash[ltp[l].pba] = ltp[l].hash
    BY DEF Integrity
  <2>1. PICK p \in Tracks : p = ltp[l].pba
    BY EntryType DEF IInv
  <2>2. Settled(p) /\ Owner(l, p)
    BY <2>1 DEF StoreInv, TracksInv, UnderWay, Owner
  <2>3. status[p] = "in_use"
    BY <2>2, OwnerInUse
  <2>4. QED
    BY <2>1, <2>3 DEF StoreInv, EntriesInv
<1>2. QED
  BY <1>1, StoreInvariant, PTL

LEMMA OwnersFrom ==
  ASSUME TypeOK, StoreInv
  PROVE  OwnersListed
<1> SUFFICES ASSUME pc = "idle", NEW p \in Tracks, status[p] = "in_use"
             PROVE  Listed(p) = OwnersOf(p) /\ Cardinality(OwnersOf(p)) = refs[p] + 1
  BY DEF OwnersListed
<1>1. Lists(p, refs[p] + 1, {})
  BY DEF StoreInv, TracksInv, UnderWay, Settled
<1>2. Listed(p) = OwnersOf(p)
  BY <1>1, ListedOwners DEF OwnersOf, Owner
<1>3. PICK k \in Nat : k = refs[p] + 1
  BY <1>1, ListCells
<1> DEFINE F == [i \in 1 .. k |-> lba_list[p][i]]
<1>4. F \in [1 .. k -> OwnersOf(p)]
  BY <1>1, <1>3 DEF Lists, OwnersOf, Owner
<1>5. \A i, j \in 1 .. k : F[i] = F[j] => i = j
  BY <1>1, <1>3 DEF Lists
<1>6. \A l \in OwnersOf(p) : \E i \in 1 .. k : F[i] = l
  BY <1>1, <1>3 DEF Lists, OwnersOf, Owner
<1>7. ExistsBijection(1 .. k, OwnersOf(p))
  <2> HIDE DEF F
  <2>1. F \in Bijection(1 .. k, OwnersOf(p))
    BY <1>4, <1>5, <1>6, Fun_IsBij
  <2>2. QED
    BY <2>1, Fun_ExistsBij
<1>8. IsFiniteSet(1 .. k) /\ Cardinality(1 .. k) = k
  BY FS_Interval
<1>9. Cardinality(OwnersOf(p)) = k
  BY <1>7, <1>8, FS_Bijection
<1>10. QED
  BY <1>2, <1>3, <1>9

(* Between writes a track in use lists exactly the logical blocks mapped   *)
(* to it, each once, and counts all but one of them (lba.c:657-661,        *)
(* 700-759, active_swap.c:8-60).                                           *)
THEOREM OwnersExact == ASSUME PlainTraces PROVE Spec => []OwnersListed
<1>1. IInv /\ StoreInv => OwnersListed
  BY OwnersFrom DEF IInv
<1>2. QED
  BY <1>1, StoreInvariant, PTL

(* The program stops only because the disk is full, as long as the track   *)
(* before the first and the one past the last do not look shared: no exit  *)
(* for a mismatch, a bad status or an unlisted block is ever taken         *)
(* (lba.c:644-656, 744).                                                   *)
THEOREM OnlyFullStops ==
  ASSUME PlainTraces, TRUE \notin OutOfBounds PROVE Spec => []StopsOnlyWhenFull
<1>1. StoreInv => StopsOnlyWhenFull
  BY DEF StoreInv, WriteInv, StopsOnlyWhenFull
<1>2. QED
  BY <1>1, StoreInvariant, PTL

(* What other logical blocks rely on is never written with different       *)
(* content (lba.c:644-656).                                                *)
THEOREM OthersContentKept == ASSUME PlainTraces PROVE Spec => ForeignContentKept
<1>1. ASSUME IInv, StoreInv, [Next]_vars, pc = "store",
             NEW l \in LBAs \ {Target}, ltp[l].valid
      PROVE  hash'[ltp[l].pba] = hash[ltp[l].pba]
  <2>1. hash' = hash \/ (~cur.pass /\ hash' = [hash EXCEPT ![cur.pba] = cur.hash] /\ refs[cur.pba] = 0)
    BY <1>1 DEF Next, vars, StartWrite, Trim, TrimBadStatus, TrimNotListed, TrimListed, Trimming,
      Progress, Search, SearchOverwriteInPlace, SearchOverwriteSwapped, Overwrites, SearchRestore,
      SearchRestoreMoved, SearchSame, SearchShare, SearchTakeOver, SearchNew, SearchBeyond, Searching,
      Alloc, AllocPhase1, AllocPhase1Full, AllocPhase2, AllocPhase3, AllocPhase3Over,
      AllocPhase4, AllocDiskFull, Allocating, StoreMismatch, StoreShared, StoreOwned, Flush
  <2>2. refs[cur.pba] = 0 => ~(refs[cur.pba] > 0)
    OBVIOUS
  <2>3. ~cur.pass /\ refs[cur.pba] = 0 => ltp[l].pba # cur.pba
    BY <1>1, <2>2 DEF StoreInv, TracksInv, ToWrite, ToPass, ToJoin, Owner
  <2>4. ltp[l].pba \in Tracks /\ hash \in [Tracks -> Hashes \cup {NoHash}]
    BY <1>1, EntryType DEF IInv, TypeOK
  <2>5. QED
    BY <2>1, <2>3, <2>4
<1>2. IInv /\ StoreInv /\ [Next]_vars =>
        (pc = "store" => \A l \in LBAs \ {Target} :
           ltp[l].valid /\ status[ltp[l].pba] = "in_use" =>
             hash'[ltp[l].pba] = hash[ltp[l].pba])
  BY <1>1
<1>3. QED
  BY <1>2, StoreInvariant, PTL DEF Spec, ForeignContentKept

-----------------------------------------------------------------------------
(* The disk implements the logical store.                                  *)

(* What a user reads, by the entries alone.                                *)
Kept(l) == IF ltp[l].valid THEN ltp[l].hash ELSE NoHash

ContentByEntries ==
  content = [l \in LBAs |-> IF Writing /\ l = cur.lba THEN InFlight ELSE Kept(l)]

LEMMA ContentIs == StoreInv /\ TypeOK /\ SingleBlocks => ContentByEntries
<1> SUFFICES ASSUME StoreInv, TypeOK, SingleBlocks, NEW l \in LBAs
             PROVE  content[l] = IF Writing /\ l = cur.lba THEN InFlight ELSE Kept(l)
  BY DEF content, ContentByEntries
<1>1. CASE Writing /\ l = cur.lba
  BY <1>1 DEF content
<1>2. CASE ~(Writing /\ l = cur.lba)
  <2>1. ~(pc = "store" /\ l = Target)
    BY <1>2, OneBlock DEF Writing, Running
  <2>2. ltp[l].valid => hash[ltp[l].pba] = ltp[l].hash
    BY <2>1 DEF StoreInv, EntriesInv
  <2>3. QED
    BY <1>2, <2>2 DEF content, Kept
<1>3. QED
  BY <1>1, <1>2

LEMMA ContentStays == (StoreInv /\ TypeOK /\ SingleBlocks => ContentByEntries)'
  BY ContentIs, PTL

(* A lookup or an allocation changes what is kept of its own block only.   *)
LEMMA EntriesKept ==
  ASSUME TypeOK, Search \/ Alloc \/ StoreMismatch \/ StoreShared \/ StoreOwned \/ Flush,
         NEW l \in LBAs, l # Target
  PROVE  Kept(l)' = Kept(l)
<1>1. CASE SearchOverwriteSwapped
  <2>0. PICK b \in {ltp[Target].pba}, t \in find_empty_block_swap :
          \E gt \in GarbageIn(t), gb \in GarbageIn(b) :
             ltp' = [ltp_table_swap(t, b, gt, gb) EXCEPT ![Target] = Mapped(t, cur.hash)]
    BY <1>1 DEF SearchOverwriteSwapped, UpdateSwapped
  <2>1. PICK gt \in GarbageIn(t), gb \in GarbageIn(b) :
          ltp' = [ltp_table_swap(t, b, gt, gb) EXCEPT ![Target] = Mapped(t, cur.hash)]
    BY <2>0
  <2>2. ltp'[l] \in {ltp[l], [ltp[l] EXCEPT !.pba = t], [ltp[l] EXCEPT !.pba = b]}
    BY <2>1 DEF ltp_table_swap
  <2>3. ltp'[l].valid = ltp[l].valid /\ ltp'[l].hash = ltp[l].hash
    BY <2>2 DEF TypeOK, Entries
  <2>4. QED
    BY <2>3 DEF Kept
<1>2. CASE Search /\ ~SearchOverwriteSwapped
  <2>1. ltp' = ltp \/ \E x : ltp' = [ltp EXCEPT ![Target] = x]
    BY <1>2 DEF Search, SearchOverwriteInPlace, UpdateInPlace, SearchRestore, SearchRestoreMoved,
      SearchSame, SearchShare, SearchTakeOver, SearchNew, SearchBeyond
  <2>2. ltp'[l] = ltp[l]
    BY <2>1 DEF TypeOK
  <2>3. QED
    BY <2>2 DEF Kept
<1>3. CASE Alloc
  <2>1. ltp' = ltp \/ \E x : ltp' = [ltp EXCEPT ![Target] = x]
    BY <1>3 DEF Alloc, AllocPhase1, AllocPhase1Full, AllocPhase2, AllocPhase3, AllocPhase3Over,
      AllocPhase4, AllocDiskFull, TryShared, TryTrack, Book
  <2>2. ltp'[l] = ltp[l]
    BY <2>1 DEF TypeOK
  <2>3. QED
    BY <2>2 DEF Kept
<1>4. CASE StoreMismatch \/ StoreShared \/ StoreOwned \/ Flush
  BY <1>4 DEF StoreMismatch, StoreShared, StoreOwned, StoreUnchanged, Flush, Kept
<1>5. QED
  BY <1>1, <1>2, <1>3, <1>4

(* Steps of a write, as the logical store sees them.                       *)
LEMMA WriteSteps ==
  ASSUME PlainTraces, IInv, SingleInv, StoreInv, StoreInv', TypeOK', Progress
  PROVE  /\ Writing /\ Target \in LBAs /\ Target = cur.lba /\ cur.hash \in Hashes
         /\ \/ Writing' /\ cur'.lba = cur.lba /\ cur'.hash = cur.hash
            \/ ~Writing' /\ \A l \in LBAs : l = cur.lba => Kept(l)' = cur.hash
<1>0. TypeOK /\ SingleBlocks /\ cur \in Instructions
  BY DEF IInv, PlainTraces, TypeOK
<1>1. pc \in Running
  BY DEF Progress, Search, SearchOverwriteInPlace, SearchOverwriteSwapped, Overwrites,
    SearchRestore, SearchRestoreMoved, SearchSame, SearchShare, SearchTakeOver, SearchNew, SearchBeyond,
    Searching, Alloc, AllocPhase1, AllocPhase1Full, AllocPhase2, AllocPhase3, AllocPhase3Over,
    AllocPhase4, AllocDiskFull, Allocating, StoreMismatch, StoreShared, StoreOwned, Flush, Running
<1>2. Writing /\ Target \in LBAs /\ Target = cur.lba /\ cur.hash \in Hashes
  BY <1>0, <1>1, OneBlock DEF StoreInv, WriteInv, Writing
<1>3. CASE Search
  <2>1. pc' \in {"store", "alloc", "undefined"} /\ cur'.lba = cur.lba /\ cur'.hash = cur.hash
    <3>1. (cur' = cur /\ pc' \in {"alloc", "undefined"}) \/ \E q, pass : Found(q, pass)
      BY <1>3 DEF Search, SearchOverwriteInPlace, UpdateInPlace, SearchOverwriteSwapped, UpdateSwapped,
        SearchRestore, SearchRestoreMoved, SearchSame, SearchShare, SearchTakeOver, SearchNew,
        SearchBeyond
    <3>2. QED
      BY <1>0, <3>1 DEF Found, Instructions
  <2>2. QED
    BY <1>2, <2>1 DEF Writing, Running, Stopped
<1>4. CASE Alloc
  <2>1. pc' \in {"store", "alloc", "disk_full", "undefined"} /\ cur'.lba = cur.lba /\ cur'.hash = cur.hash
    BY <1>0, <1>4, AllocBooks DEF Book, Found, Instructions, IInv
  <2>2. QED
    BY <1>2, <2>1 DEF Writing, Running, Stopped
<1>5. CASE StoreMismatch
  BY <1>2, <1>5 DEF StoreMismatch, Writing, Stopped
<1>6. CASE StoreOwned
  <2>1. pc' = "flush" /\ cur' = cur
    BY <1>0, <1>6, OneBlock DEF StoreOwned
  <2>2. QED
    BY <1>2, <2>1 DEF Writing, Running
<1>7. CASE StoreShared \/ Flush
  <2>1. pc' = "idle" /\ pc \in {"store", "flush"} /\ ltp' = ltp /\ cur' = NoInstruction
    BY <1>7 DEF StoreShared, StoreUnchanged, Flush
  <2>2. PICK l \in LBAs : l = cur.lba
    BY <1>2
  <2>3. ltp[l] = Mapped(cur.pba, cur.hash)
    BY <1>2, <2>1, <2>2 DEF StoreInv, WriteInv
  <2>4. ltp'[l].valid /\ ltp'[l].hash = cur.hash
    BY <2>1, <2>3 DEF Mapped
  <2>5. ~Writing'
    BY <2>1 DEF Writing, Running, Stopped
  <2>6. QED
    BY <1>2, <2>2, <2>4, <2>5 DEF Kept
<1>8. QED
  BY <1>3, <1>4, <1>5, <1>6, <1>7 DEF Progress

(* For every disk and every plain trace the deduplicating disk implements  *)
(* the logical store: whatever moves underneath, a logical block keeps its *)
(* content until it is itself written or trimed (lba.c:614-770,            *)
(* pba.c:682-899, active_swap.c:8-122).                                    *)
THEOREM ImplementsStore == ASSUME PlainTraces PROVE Spec => KeepsContent
<1> DEFINE op == IF Writing THEN <<cur.lba, cur.hash>> ELSE <<>>
<1>1. Init => Store!StoreInit
  BY DEF Init, Store!StoreInit, Store!Idle, content, Writing, Running, Stopped
<1>2. ASSUME IInv, SingleInv, StoreInv, IInv', StoreInv', [Next]_vars
      PROVE  [Store!StoreNext]_<<content, op>>
  <2>0. TypeOK /\ TypeOK' /\ SingleBlocks
    BY <1>2 DEF IInv, PlainTraces
  <2>1. /\ content = [l \in LBAs |-> IF Writing /\ l = cur.lba THEN InFlight ELSE Kept(l)]
        /\ content' = [l \in LBAs |-> IF Writing' /\ l = cur'.lba THEN InFlight ELSE Kept(l)']
    BY <1>2, <2>0, ContentIs, ContentStays DEF ContentByEntries
  <2>2. CASE Progress
    <3>1. /\ Writing /\ Target \in LBAs /\ Target = cur.lba /\ cur.hash \in Hashes
          /\ \/ Writing' /\ cur'.lba = cur.lba /\ cur'.hash = cur.hash
             \/ ~Writing' /\ \A l \in LBAs : l = cur.lba => Kept(l)' = cur.hash
      BY <1>2, <2>0, <2>2, WriteSteps
    <3>2. \A l \in LBAs : l # cur.lba => Kept(l)' = Kept(l)
      BY <2>0, <2>2, <3>1, EntriesKept DEF Progress
    <3>3. CASE Writing' /\ cur'.lba = cur.lba /\ cur'.hash = cur.hash
      BY <2>1, <3>1, <3>2, <3>3
    <3>4. CASE ~Writing' /\ \A l \in LBAs : l = cur.lba => Kept(l)' = cur.hash
      <4>1. op = <<cur.lba, cur.hash>> /\ op' = <<>>
        BY <3>1, <3>4
      <4>2. content' = [content EXCEPT ![cur.lba] = cur.hash]
        BY <2>1, <3>1, <3>2, <3>4
      <4>3. Store!EndWrite
        BY <4>1, <4>2 DEF Store!EndWrite, Store!Idle
      <4>4. QED
        BY <4>3 DEF Store!StoreNext
    <3>5. QED
      BY <3>1, <3>3, <3>4
  <2>3. ASSUME NEW l \in LBAs, Trim(l) PROVE Store!TrimBlock(l)
    <3>1. /\ pc = "idle" /\ pc' \in {"idle", "bad_status", "not_listed"}
          /\ ltp' = [ltp EXCEPT ![l].trim = TRUE, ![l].valid = FALSE]
      BY <2>3 DEF Trim, TrimBadStatus, TrimNotListed, TrimListed, Trimming
    <3>2. pc' = "idle"
      BY <1>2, <3>1 DEF StoreInv, WriteInv, Stopped
    <3>3. ~Writing /\ ~Writing'
      BY <3>1, <3>2 DEF Writing, Running, Stopped
    <3>4. \A m \in LBAs : Kept(m)' = IF m = l THEN NoHash ELSE Kept(m)
      BY <2>0, <3>1 DEF Kept, TypeOK, Entries
    <3>5. content' = [content EXCEPT ![l] = NoHash]
      BY <2>1, <3>3, <3>4
    <3>6. QED
      BY <3>3, <3>5 DEF Store!TrimBlock, Store!Idle
  <2>4. ASSUME NEW l \in 0 .. L, NEW n \in 1 .. MaxBlocks, NEW h \in Hashes, StartWrite(l, n, h)
        PROVE  l \in LBAs /\ Store!BeginWrite(l, h)
    <3>1. pc = "idle" /\ pc' = "search" /\ l \in LBAs /\ cur'.lba = l /\ cur'.hash = h
      BY <1>2, <2>4, StartStore
    <3>2. ~Writing /\ Writing'
      BY <3>1 DEF Writing, Running, Stopped
    <3>3. \A m \in LBAs : Kept(m)' = Kept(m)
      BY <2>4 DEF StartWrite, Kept
    <3>4. content' = [content EXCEPT ![l] = InFlight]
      BY <2>1, <3>1, <3>2, <3>3
    <3>5. QED
      BY <3>1, <3>2, <3>4 DEF Store!BeginWrite, Store!Idle
  <2>5. CASE UNCHANGED vars
    BY <2>5 DEF vars, content, Writing
  <2>6. QED
    BY <1>2, <2>2, <2>3, <2>4, <2>5 DEF Next, Store!StoreNext
<1>3. QED
  BY <1>1, <1>2, StoreInvariant, PTL DEF Spec, KeepsContent, Store!StoreSpec

-----------------------------------------------------------------------------
(* Traces that never overwrite content.                                    *)

NoOverwrites == {"append", "fresh", "same", "trim"}

(* No two tracks hold the same content, and a new one gets content that no *)
(* track holds.                                                            *)
OnceInv ==
  /\ \A p, q \in Tracks : hash[p] = hash[q] /\ hash[p] # NoHash => p = q
  /\ pc = "alloc" \/ (pc = "store" /\ ~cur.pass /\ refs[cur.pba] = 0) =>
       \A t \in Tracks : hash[t] # cur.hash

(* A write of what the block holds, or of a block that holds nothing, is   *)
(* no update.                                                              *)
LEMMA NothingOverwritten ==
  ASSUME KindOf(Target, cur.hash) \notin {"update", "update_shared", "rewrite", "rewrite_taken"},
         TypeOK, Searching
  PROVE  ~Overwrites
<1>1. CASE ltp[Target].trim
  BY <1>1 DEF KindOf, Searching, Overwrites
<1>2. CASE ~ltp[Target].trim /\ ltp[Target].valid
  BY <1>2 DEF KindOf, Searching, Overwrites
<1>3. CASE ~ltp[Target].trim /\ ~ltp[Target].valid
  BY <1>3 DEF Overwrites, NeverWritten, Deleted, Present, ValidInUse
<1>4. QED
  BY <1>1, <1>2, <1>3

LEMMA SearchOnce ==
  ASSUME PlainTraces, Trace \subseteq NoOverwrites, IInv, SingleInv, StoreInv, ScanComplete, OnceInv,
         Search
  PROVE  OnceInv'
<1>0. /\ TypeOK /\ Searching /\ pc = "search" /\ Target \in LBAs /\ cur.hash \in Hashes /\ EntriesInv
      /\ PlainTarget(Target, cur.hash) /\ (\A p \in Tracks : Settled(p))
  BY SearchFacts, PlainSearchIs DEF PlainSearch
<1>1. ~Overwrites
  BY <1>0, NothingOverwritten DEF SingleInv, BatchInv, NoOverwrites
<1>2. hash' = hash /\ cur' \in Instructions /\ cur'.hash = cur.hash
  <2>1. hash' = hash
    BY <1>1 DEF Search, SearchOverwriteInPlace, SearchOverwriteSwapped, SearchRestore,
      SearchRestoreMoved, SearchSame, SearchShare, SearchTakeOver, SearchNew, SearchBeyond, blocks
  <2>2. cur' = cur \/ \E q, pass : Found(q, pass)
    BY <1>1 DEF Search, SearchOverwriteInPlace, SearchOverwriteSwapped,
      SearchRestore, SearchRestoreMoved, SearchSame, SearchShare, SearchTakeOver, SearchNew, SearchBeyond
  <2>3. cur' \in Instructions
    <3>1. TypeOK'
      BY SearchType DEF IInv, UseInv
    <3>2. QED
      BY <3>1 DEF TypeOK
  <2>4. QED
    BY <1>0, <2>1, <2>2, <2>3 DEF Found, TypeOK, Instructions
<1>3. \A p, q \in Tracks : hash'[p] = hash'[q] /\ hash'[p] # NoHash => p = q
  BY <1>2 DEF OnceInv
<1>4. CASE SearchNew
  <2>1. Holding(cur.hash) = {}
    BY <1>0, <1>4, NewTarget DEF SearchNew, Duplicate
  <2>2. \A t \in Tracks : hash[t] # NoHash => t \in Scanned
    BY <1>0 DEF ScanComplete, Scanned
  <2>3. \A t \in Tracks : hash[t] # cur.hash
    BY <1>0, <2>1, <2>2, HashAssumption DEF Holding
  <2>4. QED
    BY <1>2, <1>3, <2>3 DEF OnceInv
<1>5. CASE SearchShare
  <2>1. PICK p \in Holding(cur.hash) : refs' = [refs EXCEPT ![p] = @ + 1] /\ Found(p, cur.pass)
    BY <1>5 DEF SearchShare, FirstOf
  <2>2. p \in Tracks /\ refs[p] \in Nat
    BY <1>0, <2>1, HoldingType DEF TypeOK
  <2>3. cur'.pba = p /\ refs'[p] = refs[p] + 1 /\ pc' = "store"
    BY <1>0, <2>1, <2>2 DEF Found, TypeOK, Instructions
  <2>4. refs'[p] # 0
    BY <2>2, <2>3
  <2>5. QED
    BY <1>3, <2>3, <2>4 DEF OnceInv
<1>6. CASE SearchRestore \/ SearchRestoreMoved \/ SearchSame \/ SearchTakeOver
  <2>1. \E p : Found(p, TRUE)
    BY <1>6 DEF SearchRestore, SearchRestoreMoved, SearchSame, SearchTakeOver
  <2>2. cur'.pass /\ pc' = "store"
    BY <1>0, <2>1 DEF Found, TypeOK, Instructions
  <2>3. QED
    BY <1>3, <2>2 DEF OnceInv
<1>7. CASE SearchBeyond
  BY <1>3, <1>7 DEF SearchBeyond, OnceInv
<1>8. QED
  BY <1>1, <1>4, <1>5, <1>6, <1>7 DEF Search, SearchOverwriteInPlace, SearchOverwriteSwapped

LEMMA NextOnce ==
  ASSUME PlainTraces, Trace \subseteq NoOverwrites, IInv, SingleInv, StoreInv, ScanComplete, OnceInv,
         [Next]_vars
  PROVE  OnceInv'
<1>0. TypeOK
  BY DEF IInv
<1>1. CASE Search
  BY <1>1, SearchOnce
<1>2. CASE Alloc
  <2>1. /\ pc = "alloc" /\ hash' = hash /\ refs' = refs
        /\ cur' = cur \/ \E t : Found(t, cur.pass)
    BY <1>2, AllocBooks DEF AllocUnchanged, Book, IInv
  <2>2. cur'.hash = cur.hash
    BY <1>0, <2>1 DEF Found, TypeOK, Instructions
  <2>3. QED
    BY <2>1, <2>2 DEF OnceInv
<1>3. CASE StoreOwned
  <2>1. pc' = "flush" /\ cur' = cur /\ pc = "store" /\ refs[cur.pba] = 0 /\ cur.pba \in Tracks
    BY <1>0, <1>3, OneBlock DEF PlainTraces, StoreOwned, TypeOK, Instructions
  <2>2. hash' = hash \/ (~cur.pass /\ hash' = [hash EXCEPT ![cur.pba] = cur.hash])
    BY <1>3 DEF StoreOwned
  <2>3. \A p, q \in Tracks : hash'[p] = hash'[q] /\ hash'[p] # NoHash => p = q
    BY <1>0, <2>1, <2>2 DEF OnceInv, TypeOK
  <2>4. QED
    BY <2>1, <2>3 DEF OnceInv
<1>4. CASE StoreMismatch \/ StoreShared \/ Flush
  BY <1>4 DEF StoreMismatch, StoreShared, Flush, OnceInv
<1>5. CASE \E l \in LBAs : Trim(l)
  <2>1. hash' = hash /\ pc' \in {"idle", "bad_status", "not_listed"}
    BY <1>5 DEF Trim, TrimBadStatus, TrimNotListed, TrimListed, Trimming
  <2>2. QED
    BY <2>1 DEF OnceInv
<1>6. CASE \E l \in 0 .. L, n \in 1 .. MaxBlocks, h \in Hashes : StartWrite(l, n, h)
  <2>1. hash' = hash /\ pc' \in {"search", "out_of_range"}
    BY <1>6 DEF StartWrite, blocks
  <2>2. QED
    BY <2>1 DEF OnceInv
<1>7. CASE UNCHANGED vars
  BY <1>7 DEF vars, OnceInv
<1>8. QED
  BY <1>1, <1>2, <1>3, <1>4, <1>5, <1>6, <1>7 DEF Next, Progress

(* While content is never overwritten no two blocks in use hold the same,  *)
(* on every disk and although a phase-1 search looks at a window of the    *)
(* bottom tracks only (pba.c:593-625, 811-882).                            *)
THEOREM NothingStoredTwice ==
  ASSUME PlainTraces, Trace \subseteq NoOverwrites PROVE Spec => []StoredOnce
<1>1. Init => OnceInv
  BY DEF Init, OnceInv
<1>2. IInv /\ SingleInv /\ StoreInv /\ ScanComplete /\ OnceInv /\ [Next]_vars => OnceInv'
  BY NextOnce
<1>3. IInv /\ StoreInv /\ OnceInv => StoredOnce
  <2> SUFFICES ASSUME IInv, StoreInv, OnceInv, pc = "idle",
                      NEW p \in Tracks, status[p] = "in_use"
               PROVE  hash[p] # NoHash
    BY DEF StoredOnce, OnceInv
  <2>1. Lists(p, refs[p] + 1, {}) /\ refs[p] \in Nat
    BY ListCells DEF IInv, StoreInv, TracksInv, UnderWay, Settled
  <2>2. PICK l \in LBAs : Owner(l, p)
    <3>1. 1 \in 1 .. refs[p] + 1
      BY <2>1
    <3>2. QED
      BY <2>1, <3>1 DEF Lists
  <2>3. hash[p] \in Hashes
    BY <2>2 DEF Owner, StoreInv, EntriesInv
  <2>4. QED
    BY <2>3, HashAssumption
<1>4. Spec => []ScanComplete
  BY ScanMissesNothing DEF PlainTraces
<1>5. QED
  BY <1>1, <1>2, <1>3, <1>4, StoreInvariant, PTL DEF Spec

-----------------------------------------------------------------------------
(* Traces of nothing but new, duplicate and restored content.              *)

OnlyNew == Trace \cap {"update", "update_shared", "rewrite", "rewrite_taken", "trim"} = {}

(* Shared tracks then stay shared.                                         *)
LEMMA SharedStays ==
  ASSUME OnlyNew, IInv, SingleInv, [Next]_vars
  PROVE  \A t \in Tracks : refs[t] > 0 => refs'[t] > 0
<1>0. TypeOK /\ AllocatorInv
  BY DEF IInv
<1>1. CASE Search
  <2>1. ~Overwrites
    <3> SUFFICES ASSUME Overwrites PROVE FALSE
      OBVIOUS
    <3>1. pc = "search" /\ Searching
      BY DEF Overwrites, Searching
    <3>2. KindOf(Target, cur.hash) \in Trace
      BY <3>1 DEF SingleInv, BatchInv
    <3>3. KindOf(Target, cur.hash) \notin {"update", "update_shared", "rewrite", "rewrite_taken"}
      BY <3>2 DEF OnlyNew
    <3>4. QED
      BY <1>0, <3>1, <3>3, NothingOverwritten
  <2>2. refs' = refs \/ \E p : refs' = [refs EXCEPT ![p] = @ + 1]
    BY <1>1, <2>1 DEF Search, SearchOverwriteInPlace, SearchOverwriteSwapped, SearchRestore,
      SearchRestoreMoved, SearchSame, SearchShare, SearchTakeOver, SearchNew, SearchBeyond, blocks
  <2>3. ASSUME NEW p, refs' = [refs EXCEPT ![p] = @ + 1], NEW t \in Tracks, refs[t] > 0
        PROVE  refs'[t] > 0
    <3>1. refs[t] \in Nat /\ refs'[t] = IF t = p THEN refs[t] + 1 ELSE refs[t]
      BY <1>0, <2>3 DEF TypeOK
    <3>2. QED
      BY <2>3, <3>1
  <2>4. QED
    BY <2>2, <2>3
<1>2. ~\E l \in LBAs : Trim(l)
  BY DEF OnlyNew, Trim, TrimBadStatus, TrimNotListed, TrimListed, Trimming
<1>3. CASE refs' = refs
  BY <1>3
<1>4. QED
  BY <1>0, <1>1, <1>2, <1>3, AllocBooks DEF Next, Progress, vars, StartWrite, blocks, StoreMismatch,
    StoreShared, StoreOwned, StoreUnchanged, Flush, AllocUnchanged

LEMMA BeforePhase4 ==
  ASSUME TypeOK, Alloc, zinfo'.phases < 4
  PROVE  /\ zinfo.phases < 4
         /\ AllocPhase1 \/ AllocPhase1Full \/ AllocPhase2 \/ AllocPhase3
<1>0. zinfo.phases \in 1 .. 4 /\ \A x : [zinfo EXCEPT !.current_track = x].phases = zinfo.phases
  BY DEF TypeOK, Allocators
<1>1. ~AllocPhase4
  <2> SUFFICES ASSUME AllocPhase4 PROVE FALSE
    OBVIOUS
  <2>1. PICK t : zinfo' = [zinfo EXCEPT !.current_track = t]
    BY DEF AllocPhase4
  <2>2. zinfo.phases = 4
    BY DEF AllocPhase4, Allocating
  <2>3. QED
    BY <1>0, <2>1, <2>2
<1>2. ~AllocDiskFull
  BY <1>0 DEF AllocDiskFull, Allocating
<1>3. ~AllocPhase3Over
  <2> SUFFICES ASSUME AllocPhase3Over PROVE FALSE
    OBVIOUS
  <2>1. zinfo' = [zinfo EXCEPT !.phases = 4, !.current_track = phase4_start] /\ zinfo \in Allocators
    BY DEF AllocPhase3Over, TypeOK
  <2>2. zinfo'.phases = 4
    BY <2>1 DEF Allocators
  <2>3. QED
    BY <2>2
<1>4. AllocPhase1 \/ AllocPhase1Full \/ AllocPhase2 \/ AllocPhase3
  BY <1>1, <1>2, <1>3 DEF Alloc
<1>5. zinfo.phases \in {1, 2, 3}
  BY <1>4 DEF AllocPhase1, AllocPhase1Full, AllocPhase2, AllocPhase3, Allocating
<1>6. QED
  BY <1>4, <1>5

(* Before phase 4 the allocator books a top track between shared ones only. *)
LEMMA AllocBetween ==
  ASSUME TRUE \notin OutOfBounds, IInv, Alloc, zinfo'.phases < 4,
         NEW t \in Tops, status[t] = "free", status'[t] # "free"
  PROVE  zinfo.phases < 4 /\ {t - 1, t + 1} \subseteq Tracks /\ refs[t - 1] > 0 /\ refs[t + 1] > 0
<1>0. TypeOK /\ AllocatorInv /\ zinfo \in Allocators /\ t \in Tracks /\ t \notin Bottoms
  BY TopOrBottom DEF IInv, TypeOK
<1>1. AllocPhase1 \/ AllocPhase1Full \/ AllocPhase2 \/ AllocPhase3
  BY <1>0, BeforePhase4
<1>2. ~AllocPhase1
  BY <1>0, TrackTried, TriedFree DEF AllocPhase1, Allocating, Bottoms
<1>3. ~AllocPhase1Full
  <2> SUFFICES ASSUME AllocPhase1Full PROVE FALSE
    OBVIOUS
  <2>1. zinfo.current_track \in Bottoms
    BY <1>0, TrackTried DEF AllocPhase1Full, Allocating
  <2>2. \A u \in FirstOf(Free(EveryOther(phase1_start, phase1_end))) : u \in Bottoms
    BY EveryOtherBottom DEF FirstOf, Free
  <2>3. PICK u \in Bottoms : TryTrack(u) \/ Book(u)
    BY <2>1, <2>2 DEF AllocPhase1Full
  <2>4. QED
    BY <1>0, <2>3, TriedFree DEF Bottoms
<1>4. AllocPhase2 \/ AllocPhase3
  BY <1>1, <1>2, <1>3
<1>5. zinfo.current_track \in Tops /\ zinfo.phases < 4
  BY <1>0, <1>4, TrackTried DEF AllocPhase2, AllocPhase3, Allocating
<1>6. TryShared(zinfo.current_track)
  BY <1>4 DEF AllocPhase2, AllocPhase3
<1>7. t = zinfo.current_track
  BY <1>0, <1>5, <1>6, TriedFree DEF Tops
<1>8. TRUE \in NeighboursShared(t)
  BY <1>6, <1>7 DEF TryShared
<1>9. {t - 1, t + 1} \subseteq Tracks /\ ~\E u \in {t - 1, t + 1} \cap Tracks : refs[u] = 0
  BY <1>8 DEF NeighboursShared
<1>10. t - 1 \in Tracks /\ t + 1 \in Tracks /\ refs[t - 1] # 0 /\ refs[t + 1] # 0
  BY <1>9
<1>11. refs[t - 1] \in Nat /\ refs[t + 1] \in Nat
  BY <1>0, <1>10 DEF TypeOK
<1>12. QED
  BY <1>5, <1>9, <1>10, <1>11

(* Before phase 4 top tracks are allocated between shared bottom tracks    *)
(* only, and these stay shared as long as nothing is overwritten or        *)
(* trimed (pba.c:133-189, 233-250).                                        *)
THEOREM TopsWaitForShared ==
  ASSUME SingleBlocks, OnlyNew, TRUE \notin OutOfBounds PROVE Spec => []TopsBetweenShared
<1>1. Init => TopsBetweenShared
  BY DEF Init, TopsBetweenShared, Tops
<1>2. ASSUME IInv, SingleInv, TopsBetweenShared, [Next]_vars
      PROVE  TopsBetweenShared'
  <2> SUFFICES ASSUME zinfo'.phases < 4, NEW t \in Tops, status'[t] # "free"
               PROVE  {t - 1, t + 1} \subseteq Tracks /\ refs'[t - 1] > 0 /\ refs'[t + 1] > 0
    BY DEF TopsBetweenShared
  <2>1. zinfo.phases < 4 /\ {t - 1, t + 1} \subseteq Tracks /\ refs[t - 1] > 0 /\ refs[t + 1] > 0
    <3>1. CASE Alloc
      <4>1. CASE status[t] = "free"
        BY <1>2, <3>1, <4>1, AllocBetween
      <4>2. CASE status[t] # "free"
        <5>1. zinfo.phases < 4
          BY <1>2, <3>1, BeforePhase4 DEF IInv
        <5>2. QED
          BY <1>2, <4>2, <5>1 DEF TopsBetweenShared
      <4>3. QED
        BY <4>1, <4>2
    <3>2. CASE ~Alloc
      <4>1. zinfo' = zinfo
        BY <1>2, <3>2 DEF Next, Progress, vars, StartWrite, Trim, TrimBadStatus, TrimNotListed,
          TrimListed, Trimming, Search, SearchOverwriteInPlace, UpdateInPlace, SearchOverwriteSwapped,
          UpdateSwapped, SearchRestore, SearchRestoreMoved, SearchSame, SearchShare, SearchTakeOver,
          SearchNew, SearchBeyond, StoreMismatch, StoreShared, StoreOwned, StoreUnchanged, Flush
      <4>2. SameFree
        <5>1. TypeOK /\ UseInv
          BY <1>2 DEF IInv
        <5>2. CASE Search
          BY <5>1, <5>2, SearchFree
        <5>3. CASE StoreMismatch \/ StoreShared \/ StoreOwned \/ Flush
          BY <5>1, <5>3, StoreFree
        <5>4. CASE \E l \in LBAs : Trim(l)
          BY <5>1, <5>4, TrimFree
        <5>5. CASE status' = status
          BY <5>5 DEF SameFree
        <5>6. QED
          BY <1>2, <3>2, <5>2, <5>3, <5>4, <5>5 DEF Next, Progress, StartWrite, blocks, vars
      <4>3. QED
        BY <1>2, <4>1, <4>2 DEF TopsBetweenShared, SameFree, Tops
    <3>3. QED
      BY <3>1, <3>2
  <2>2. \A u \in Tracks : refs[u] > 0 => refs'[u] > 0
    BY <1>2, SharedStays
  <2>3. QED
    BY <2>1, <2>2
<1>3. QED
  BY <1>1, <1>2, InductiveInvariant, SingleInvariant, PTL DEF Spec

=============================================================================
