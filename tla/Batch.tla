-------------------------------- MODULE Batch --------------------------------
(***************************************************************************)
(* Batches of tracks (batch.c, rw.c) and what they are charged             *)
(* (record_op.c).  A bottom track cannot be written without damaging the   *)
(* top tracks beside it, so batch_extend adds those that are in use to the *)
(* batch, as virtual tracks, and record_write charges each run of          *)
(* neighbouring tracks with a virtual one among them for reading,          *)
(* journaling and rewriting it as a whole.  The module follows one batch   *)
(* table; what others do to the tracks while it fills is in Elsewhere.     *)
(*                                                                         *)
(* A definition named X_Bug is X as a plausible mistake would have it; it  *)
(* stands before X and is used only to test that the properties notice.    *)
(***************************************************************************)
EXTENDS ImrDisk, Sequences, FiniteSets

CONSTANTS
  is_csv_flag,  (* the trace is a CSV file                                 *)
  MaxBatch,     (* bound on the tracks added to a batch                    *)
  Deleted       (* status of a deleted track: "trimed", or for             *)
                (* status_invalid, which counts as free, "free"            *)

ASSUME CsvAssumption == is_csv_flag \in BOOLEAN
ASSUME DeletedAssumption == Deleted \in {"trimed", "free"}
ASSUME MaxBatchAssumption == MaxBatch \in Nat

VARIABLES
  status,       (* of each track                                           *)
  block_head,   (* the tracks added to the batch                           *)
  extend_head,  (* the extended batch                                      *)
  first,        (* isVirtual in the first cell of the array behind         *)
                (* extend_head, which batch_clear leaves as it is          *)
  call, pc, i,  (* the call in progress, how far it is, its loop counter   *)
  run,          (* locals of record_write: the run of tracks at hand       *)
  recorded      (* what the call has charged so far, in tracks and seeks   *)

vars == <<status, block_head, extend_head, first, call, pc, i, run, recorded>>
records == <<run, recorded>>

Statuses == {"free", "booked", "in_use", "trimed"}
Entries == [pba : Tracks, isVirtual : BOOLEAN]
Physical(t) == [pba |-> t, isVirtual |-> FALSE]
Virtual(t) == [pba |-> t, isVirtual |-> TRUE]
Calls == {"none", "read", "write", "rewrite", "delete"}
Members(s) == {s[k] : k \in DOMAIN s}
storage_is_in_use(t) == status[t] \in {"booked", "in_use"}

NewRun == [continuous_tracks |-> 1, num_phy_tracks |-> 0, is_virtual |-> FALSE]
NoRecord == [size |-> 0, rewrite |-> 0, reread |-> 0, seeks |-> 0]

TypeOK ==
  /\ status \in [Tracks -> Statuses]
  /\ block_head \in Seq(Tracks)
  /\ extend_head \in Seq(Entries)
  /\ first \in BOOLEAN
  /\ call \in Calls
  /\ pc \in {"fill", "write", "extend", "record", "recorded", "stopped"}
  /\ i \in Nat \ {0}
  /\ run \in [continuous_tracks : Nat, num_phy_tracks : Nat, is_virtual : BOOLEAN]
  /\ recorded \in [size : Nat, rewrite : Nat, reread : Nat, seeks : Nat]

Init ==
  /\ status = [t \in Tracks |-> "free"]
  /\ block_head = <<>> /\ extend_head = <<>> /\ first = FALSE
  /\ call = "none" /\ pc = "fill" /\ i = 1
  /\ run = NewRun /\ recorded = NoRecord

-----------------------------------------------------------------------------
(* Filling the batch.                                                      *)

(* Callers add tracks they booked or that hold data.  A track may be added *)
(* again: dedupe_lba_write can return without a flush, and what it left in *)
(* the batch may be written once more by the next instruction.             *)
batch_add(t) ==
  /\ pc = "fill" /\ status[t] # "free" /\ Len(block_head) < MaxBatch
  /\ block_head' = Append(block_head, t)
  /\ UNCHANGED <<status, extend_head, first, call, pc, i, records>>

(* Meanwhile the allocator books tracks, other batches are written or      *)
(* deleted, and blocks are swapped with their status.  None of it frees a  *)
(* track that waits in the batch.                                          *)
Elsewhere(t) ==
  /\ pc = "fill"
  /\ \E s \in Statuses :
       /\ status[t] = "free" => s = "booked"
       /\ s = "free" => status[t] = "in_use" /\ Deleted = "free" /\ t \notin Members(block_head)
       /\ status' = [status EXCEPT ![t] = s]
  /\ UNCHANGED <<block_head, extend_head, first, call, pc, i, records>>

-----------------------------------------------------------------------------
(* The calls.                                                              *)

(* qsort: the tracks of the batch in ascending order.                      *)
Orders(b) == {p \in [DOMAIN b -> DOMAIN b] :
                /\ \A k \in DOMAIN b : \E j \in DOMAIN b : p[j] = k
                /\ \A j, k \in DOMAIN b : j < k => p[j] # p[k] /\ b[p[j]] <= b[p[k]]}
batch_sync_Bug(b) == {b}
batch_sync(b) == {[k \in 1 .. Len(b) |-> b[p[k]]] : p \in Orders(b)}

Begin(c, next) ==
  /\ pc = "fill"
  /\ block_head' \in batch_sync(block_head)
  /\ call' = c /\ pc' = next
  /\ UNCHANGED <<extend_head, first, i, records>>

batch_write == Begin("write", IF block_head = <<>> THEN "write" ELSE "extend") /\ status' = status
batch_read == block_head # <<>> /\ Begin("read", "record") /\ status' = status
batch_delete == block_head # <<>> /\ Begin("delete", "extend") /\ status' = status

Written == [t \in Tracks |-> IF t \in Members(block_head) THEN "in_use" ELSE status[t]]

(* rw_block writes its one track before it extends the batch.              *)
rw_block == Len(block_head) = 1 /\ Begin("rewrite", "extend") /\ status' = Written

(* Reading an empty batch is an error but in CSV traces, deleting one      *)
(* fails an assertion.                                                     *)
ReadNothing ==
  /\ pc = "fill" /\ block_head = <<>>
  /\ pc' = IF is_csv_flag THEN "fill" ELSE "stopped"
  /\ UNCHANGED <<status, block_head, extend_head, first, call, i, records>>

DeleteNothing ==
  /\ pc = "fill" /\ block_head = <<>>
  /\ pc' = "stopped"
  /\ UNCHANGED <<status, block_head, extend_head, first, call, i, records>>

-----------------------------------------------------------------------------
(* batch_extend, one entry of the batch a step.                            *)

LastIs(x, t) == x # <<>> /\ x[Len(x)].pba = t

ExtendedByTop_Bug(x, t) == IF LastIs(x, t) THEN x ELSE Append(x, Physical(t))
ExtendedByTop(x, t) ==
  IF LastIs(x, t) THEN [x EXCEPT ![Len(x)] = Physical(t)] ELSE Append(x, Physical(t))

AddBefore(x, t) ==
  IF t # 0 /\ storage_is_in_use(t - 1) /\ ~LastIs(x, t - 1) THEN Append(x, Virtual(t - 1)) ELSE x
AddAfter(x, t) ==
  IF t # N - 1 /\ storage_is_in_use(t + 1) THEN Append(x, Virtual(t + 1)) ELSE x

Extended(x, t) == IF is_toptrack(t) THEN ExtendedByTop(x, t)
                  ELSE AddAfter(Append(AddBefore(x, t), Physical(t)), t)

Extend ==
  /\ pc = "extend"
  /\ extend_head' = Extended(extend_head, block_head[i])
  /\ first' = extend_head'[1].isVirtual
  /\ IF i < Len(block_head) THEN i' = i + 1 /\ pc' = pc
     ELSE i' = 1 /\ pc' = IF call = "write" THEN "write" ELSE "record"
  /\ UNCHANGED <<status, block_head, call, records>>

pba_write ==
  /\ pc = "write"
  /\ status' = Written
  /\ pc' = "record"
  /\ UNCHANGED <<block_head, extend_head, first, call, i, records>>

-----------------------------------------------------------------------------
(* record_write, record_delete and record_read, one entry of the extended  *)
(* batch -- for a read, of the batch -- a step.                            *)

Table == IF call = "read" THEN [k \in 1 .. Len(block_head) |-> Physical(block_head[k])]
         ELSE extend_head
curr_is_virtual == IF Table = <<>> THEN first ELSE Table[i].isVirtual

Counted == [continuous_tracks |-> run.continuous_tracks,
            num_phy_tracks |-> run.num_phy_tracks + (IF curr_is_virtual THEN 0 ELSE 1),
            is_virtual |-> run.is_virtual \/ curr_is_virtual]

RunContinues == /\ pc = "record" /\ i < Len(Table)
                /\ Table[i + 1].pba = Table[i].pba + 1
                /\ run' = [Counted EXCEPT !.continuous_tracks = @ + 1]
                /\ i' = i + 1
                /\ UNCHANGED <<status, block_head, extend_head, first, call, pc, recorded>>

Charged(r) ==
  IF r.is_virtual
  THEN [size |-> recorded.size + r.num_phy_tracks,
        rewrite |-> recorded.rewrite + r.continuous_tracks - r.num_phy_tracks,
        reread |-> recorded.reread + r.continuous_tracks,
        seeks |-> recorded.seeks + 3]
  ELSE [size |-> recorded.size + r.continuous_tracks,
        rewrite |-> recorded.rewrite,
        reread |-> recorded.reread,
        seeks |-> recorded.seeks + 1]

NextRun_Bug == [NewRun EXCEPT !.is_virtual = Counted.is_virtual]
NextRun == NewRun

RunEnds == /\ pc = "record" /\ i < Len(Table)
           /\ Table[i + 1].pba # Table[i].pba + 1
           /\ recorded' = Charged(Counted)
           /\ run' = NextRun
           /\ i' = i + 1
           /\ UNCHANGED <<status, block_head, extend_head, first, call, pc>>

LastRunEnds == /\ pc = "record" /\ i >= Len(Table)
               /\ recorded' = Charged(Counted)
               /\ run' = Counted
               /\ pc' = "recorded"
               /\ UNCHANGED <<status, block_head, extend_head, first, call, i>>

batch_clear ==
  /\ block_head' = <<>> /\ extend_head' = <<>>
  /\ call' = "none" /\ pc' = "fill" /\ i' = 1
  /\ run' = NewRun /\ recorded' = NoRecord
  /\ first' = first

CallEnds == pc = "recorded" /\ call # "delete" /\ batch_clear /\ status' = status

(* A delete deletes its tracks last; the program exits at the first that   *)
(* is not in use -- any more, if the batch has it twice -- or whose entry  *)
(* in the logical table, which is not modelled here, is not valid.         *)
Distinct == \A j, k \in 1 .. Len(block_head) : block_head[j] = block_head[k] => j = k
Deletable == Distinct /\ \A t \in Members(block_head) : status[t] = "in_use"

pba_delete ==
  /\ pc = "recorded" /\ call = "delete" /\ Deletable
  /\ status' = [t \in Tracks |-> IF t \in Members(block_head) THEN Deleted ELSE status[t]]
  /\ batch_clear

DeleteFails ==
  /\ pc = "recorded" /\ call = "delete"
  /\ pc' = "stopped"
  /\ UNCHANGED <<status, block_head, extend_head, first, call, i, records>>

-----------------------------------------------------------------------------
Next == \/ \E t \in Tracks : batch_add(t) \/ Elsewhere(t)
        \/ batch_write \/ batch_read \/ batch_delete \/ rw_block \/ ReadNothing \/ DeleteNothing
        \/ Extend \/ pba_write
        \/ RunContinues \/ RunEnds \/ LastRunEnds
        \/ CallEnds \/ pba_delete \/ DeleteFails

Spec == Init /\ [][Next]_vars

-----------------------------------------------------------------------------
(* Properties.                                                             *)

Batched == Members(block_head)

(* Tracks that writing the tracks B would damage: those in use beside a    *)
(* bottom track of B, but for the ones B writes anyway.                    *)
Damaged(B) == {t \in Tracks \ B : storage_is_in_use(t)
                                  /\ \E b \in B : ~is_toptrack(b) /\ t \in {b - 1, b + 1}}
Ascending(x) == \A j, k \in 1 .. Len(x) : j < k => x[j].pba < x[k].pba
Covers(x, B) == Members(x) = {Physical(t) : t \in B} \cup {Virtual(t) : t \in Damaged(B)}

Recording == call # "read" /\ block_head # <<>> /\ Distinct /\ pc \in {"write", "record", "recorded"}

(* An extended batch lists every track of the batch as physical and every  *)
(* other track its bottom tracks would damage as virtual, each once and in *)
(* ascending order, although an entry is only compared with the one before *)
(* it (batch.c:142-189).  With a track added twice that comparison fails,  *)
(* so this and what follows is said of batches without repeats.            *)
ExtendedRight == Recording => Ascending(extend_head) /\ Covers(extend_head, Batched)

Charging == block_head # <<>> /\ Distinct /\ pc = "recorded"
Covered == IF call = "read" THEN Batched ELSE Batched \cup Damaged(Batched)

(* The tracks of the runs a virtual track is part of.                      *)
InVirtualRun == {t \in Covered : \E v \in Covered \ Batched :
                   \A u \in Tracks : (t <= u /\ u <= v) \/ (v <= u /\ u <= t) => u \in Covered}
RunsOf(T) == Cardinality({t \in T : t - 1 \notin Covered})

(* A call charges the tracks of the batch once, the damaged ones for their *)
(* rewriting, each run with a damaged track for its reading, and one seek  *)
(* a run, three if it is also read and journaled (record_op.c:7-284).      *)
ChargedRight ==
  Charging => recorded = [size |-> Cardinality(Batched),
                          rewrite |-> Cardinality(Covered \ Batched),
                          reread |-> Cardinality(InVirtualRun),
                          seeks |-> RunsOf(Covered) + 2 * RunsOf(InVirtualRun)]

(* What makes these inductive: batch_extend has covered the entries it has *)
(* visited, and the record loop has charged all tracks before the run at   *)
(* hand.                                                                   *)
Synced == \A j, k \in 1 .. Len(block_head) : j < k => block_head[j] <= block_head[k]
Visited == {block_head[k] : k \in 1 .. i - 1}
ExtendInv ==
  /\ pc \notin {"fill", "stopped"} => Synced
  /\ pc = "fill" => extend_head = <<>>
  /\ pc = "extend" => /\ i <= Len(block_head) /\ call # "read"
                      /\ Distinct => Ascending(extend_head) /\ Covers(extend_head, Visited)
RecordInv ==
  /\ pc \in {"record", "recorded"} => run.num_phy_tracks <= run.continuous_tracks
  /\ pc \in {"fill", "write", "extend"} => run = NewRun /\ recorded = NoRecord
  /\ pc \in {"fill", "write"} => i = 1
  /\ pc = "record" => /\ run.num_phy_tracks < run.continuous_tracks
                      /\ Table # <<>> => i <= Len(Table)
                      /\ recorded.size + recorded.rewrite + run.continuous_tracks = i
  /\ pc = "recorded" /\ Table # <<>> => recorded.size + recorded.rewrite = Len(Table)
IInv == TypeOK /\ ExtendInv /\ RecordInv /\ ExtendedRight

(* A write of a batch adds as much to the size of what was written as      *)
(* blocks were written (test/ut_batch.h:26-27).                            *)
SizesAgree == pc = "recorded" /\ call \in {"write", "rewrite"} =>
                recorded.size = Len(block_head)
=============================================================================
