--------------------------- MODULE TopBufferProofs ---------------------------
(***************************************************************************)
(* What holds of TopBuffer for every disk, every set of files and every    *)
(* trace: types, the links between bottom tracks and their buffers, and    *)
(* that every block of the logical table is where its links lead, with     *)
(* block swapping off or on.  TBInv is inductive.  Its parts need each     *)
(* other: a free top track is not linked, so a move to the buffer disturbs *)
(* no other block (LinkInv); a buffered track belongs to a block of the    *)
(* table, so writing it back changes no entry (HomeInv); the cold track a  *)
(* swap trades with is where the entry of its block leads, so the swap     *)
(* moves two blocks and no third one (ColdInv); and a flush finds no track *)
(* in the batch that was given up since, so none comes back to life that   *)
(* no entry leads to (BatchInv).                                           *)
(***************************************************************************)
EXTENDS TopBuffer, ImrDiskProofs, FiniteSetTheorems

(* The tracks of a phase's path that are behind the allocator are not free. *)
PhaseInv ==
  /\ zinfo.phases = 1 =>
       /\ zinfo.current_track \in Bottoms
       /\ zinfo.phase1_is_full => zinfo.current_track = phase1_end
       /\ \A t \in Bottoms : status[t] = "free" => t >= zinfo.current_track /\ ~zinfo.phase1_is_full
  /\ zinfo.phases > 1 => \A t \in Bottoms : status[t] # "free"
  /\ zinfo.phases = 2 =>
       /\ zinfo.current_track \in Tops /\ zinfo.current_track % 4 = 3
       /\ \A t \in Tops : status[t] = "free" => t % 4 = 1 \/ t <= zinfo.current_track
  /\ zinfo.phases = 3 =>
       /\ zinfo.current_track % 2 = 1
       /\ \A t \in Tops : status[t] = "free" =>
            t % 4 = 1 /\ t >= zinfo.current_track /\ zinfo.current_track % 4 = 1
  /\ FullMeansFull

(* The instruction is about blocks of the table; the batch is empty unless  *)
(* an earlier block of it is in there.                                     *)
InstrInv ==
  /\ cur.i < cur.n /\ cur.lba + cur.n - 1 \in LBAs
  /\ pc = "idle" => cur = NoInstruction /\ gbtable = {}
  /\ pc \in {"search", "alloc"} /\ cur.i = 0 => gbtable = {}

(* Tracks without data are not linked, buffers are top tracks and what they *)
(* buffer are bottom tracks.                                               *)
LinkInv ==
  /\ \A t \in Tracks :
       /\ status[t] \in {"free", "trimed"} => Type(t) = "normal"
       /\ Type(t) = "buffered" => t \in Tops /\ ptt[t].tba = t
       /\ Type(t) = "top_buffer" => t \in Bottoms /\ ptt[t].tba \in Tops
       /\ status[t] = "booked" => t \in gbtable
  /\ LinksAgree /\ CountRight

(* The track an entry names knows its block, and so does its buffer; and    *)
(* every buffer belongs to a block of the table.                           *)
HomeIs(l, p, links, owners, s) ==
  /\ owners[p] = l /\ links[p].type # "buffered" /\ s[p] \in {"booked", "in_use"}
  /\ links[p].type = "top_buffer" =>
       LET t == links[p].tba IN links[t].type = "buffered" /\ links[t].scp_pba = p /\ owners[t] = l
Buffers(t, links, owners, map) ==
  map[owners[t]].valid /\ map[owners[t]].pba = links[t].scp_pba
HomeInv ==
  /\ \A l \in LBAs : ltp[l].valid => HomeIs(l, ltp[l].pba, ptt, lba0, status)
  /\ \A t \in Buffered : Buffers(t, ptt, lba0, ltp) /\ (pc = "alloc" => lba0[t] # Target)

(* Block swapping begins in the last phase, when the top buffer is closed.   *)
(* A top track with data that buffers nothing is where its block's entry     *)
(* leads, and the allocator is never asked for a track for that block.       *)
Used == {"booked", "in_use"}
ColdInv ==
  /\ initialized => zinfo.phases = 3 /\ ~enable_top_buffer
  /\ \A t \in Tops : status[t] \in Used /\ Type(t) = "normal" =>
       /\ ltp[lba0[t]].valid /\ ltp[lba0[t]].pba = t
       /\ pc = "alloc" => lba0[t] # Target

(* Booked tracks hold earlier blocks of the instruction.  A track of the     *)
(* batch the allocator gave up is the next it tries (ReusesTrimed), or no    *)
(* track is free any more, and the write does not reach its flush.           *)
GivenUp(t) ==
  /\ pc \in {"alloc"} \cup Stopped
  /\ pc = "alloc" => /\ zinfo.phases = 3
                     /\ IF ReusesTrimed THEN t = zinfo.current_track
                        ELSE \A u \in Tracks : status[u] # "free"
BatchInv ==
  /\ pc \in {"search", "alloc"} => \A t \in Tracks : status[t] = "booked" => lba0[t] < Target
  /\ \A t \in gbtable : status[t] \notin Used => GivenUp(t)

TBInv ==
  /\ TypeOK /\ PhaseInv /\ InstrInv /\ LinkInv /\ HomeInv /\ ColdInv /\ BatchInv /\ ScpSafe

-----------------------------------------------------------------------------
(* Types.                                                                  *)

LEMMA Ends == 0 \in Tracks /\ 0 \in LBAs /\ 0 \in Bottoms /\ N \in Nat
              /\ Bottoms \subseteq Tracks /\ Tops \subseteq Tracks /\ LBAs \subseteq Nat
<1>1. N \in Nat /\ N >= 4
  BY Geometry
<1>2. QED
  BY <1>1, LogicalNumAssumption DEF Tracks, LBAs, Bottoms, Tops, is_toptrack

LogicalEntries == [pba : Tracks, fid : Fids \cup {NoFid}, valid : BOOLEAN]
Links == [tba : Tracks, scp_pba : Tracks, type : Types]

Allocators == [phases : 1 .. 3, current_track : Nat, phase1_is_full : BOOLEAN]
Reports == [max_top_buffer_num : 0 .. N, current_top_buffer_count : 0 .. N]

(* What the allocator does to its own record. *)
AllocatorIs(z, phase, track, full) ==
  z \in Allocators /\ z.phases = phase /\ z.current_track = track /\ z.phase1_is_full = full

LEMMA AllocatorField ==
  ASSUME TypeOK, NEW t \in Nat
  PROVE  AllocatorIs([zinfo EXCEPT !.current_track = t], zinfo.phases, t, zinfo.phase1_is_full)
<1>1. zinfo \in Allocators
  BY DEF TypeOK, Allocators
<1>2. QED
  BY <1>1 DEF Allocators, AllocatorIs

LEMMA AllocatorSteps ==
  ASSUME TypeOK
  PROVE  /\ zinfo \in Allocators /\ zinfo.current_track \in Nat
         /\ AllocatorIs([zinfo EXCEPT !.current_track = @ + 2],
                        zinfo.phases, zinfo.current_track + 2, zinfo.phase1_is_full)
         /\ AllocatorIs([zinfo EXCEPT !.current_track = @ + 4],
                        zinfo.phases, zinfo.current_track + 4, zinfo.phase1_is_full)
         /\ zinfo.current_track - 4 \in Nat =>
              AllocatorIs([zinfo EXCEPT !.current_track = @ - 4],
                          zinfo.phases, zinfo.current_track - 4, zinfo.phase1_is_full)
         /\ AllocatorIs([zinfo EXCEPT !.phase1_is_full = TRUE],
                        zinfo.phases, zinfo.current_track, TRUE)
         /\ \A t \in Nat :
              AllocatorIs([zinfo EXCEPT !.current_track = t, !.phase1_is_full = FALSE],
                          zinfo.phases, t, FALSE)
<1>1. zinfo \in Allocators /\ zinfo.current_track \in Nat
  BY DEF TypeOK, Allocators
<1>2. zinfo.current_track + 2 \in Nat /\ zinfo.current_track + 4 \in Nat
  BY <1>1
<1>3. AllocatorIs([zinfo EXCEPT !.phase1_is_full = TRUE], zinfo.phases, zinfo.current_track, TRUE)
  BY <1>1 DEF Allocators, AllocatorIs
<1>4. ASSUME NEW t \in Nat
      PROVE  AllocatorIs([zinfo EXCEPT !.current_track = t, !.phase1_is_full = FALSE],
                         zinfo.phases, t, FALSE)
  BY <1>1 DEF Allocators, AllocatorIs
<1>5. QED
  BY <1>1, <1>2, <1>3, <1>4, AllocatorField

LEMMA ReportIs ==
  ASSUME TypeOK
  PROVE  /\ count \in Nat /\ report.max_top_buffer_num \in Nat
         /\ LET r == [report EXCEPT !.current_top_buffer_count = @ + 1] IN
            /\ r.current_top_buffer_count = count + 1
            /\ r.max_top_buffer_num = report.max_top_buffer_num
            /\ count < report.max_top_buffer_num => r \in Reports
         /\ LET r == [max_top_buffer_num |-> report.max_top_buffer_num - 1,
                      current_top_buffer_count |-> count - 1] IN
            count > 0 /\ count <= report.max_top_buffer_num => r \in Reports
<1>1. report \in Reports /\ N \in Nat
  BY Ends DEF TypeOK, Reports
<1>2. QED
  BY <1>1 DEF Reports, count

LEMMA RedirectType ==
  ASSUME NEW f \in [LBAs -> LogicalEntries], NEW l \in LBAs, NEW p \in Tracks
  PROVE  [f EXCEPT ![l].pba = p] \in [LBAs -> LogicalEntries]
<1>1. [f[l] EXCEPT !.pba = p] \in LogicalEntries
  BY DEF LogicalEntries
<1>2. QED
  BY <1>1

LEMMA NextOfIn == ASSUME NEW S, NEW from PROVE NextOf(S, from) \subseteq S
  BY DEF NextOf, FirstOf

LEMMA EmptyTopsFree == \A t \in EmptyTops : t \in Tops /\ IsFree(t)
  <1>1. \A t \in Tracks : (t - 1) % 2 = 0 => t \in Tops
    BY TracksNat DEF Tops, is_toptrack
  <1>2. QED
    BY <1>1 DEF EmptyTops, EveryOther, top_buffer_start

LEMMA TargetIn ==
  ASSUME TypeOK, InstrInv
  PROVE  /\ Target \in LBAs
         /\ cur.i + 1 < cur.n => [cur EXCEPT !.i = @ + 1] \in Instructions
         /\ NoInstruction \in Instructions
<1>1. cur.i \in Nat /\ cur.n \in Nat /\ cur.lba \in Nat /\ cur.i < cur.n
      /\ cur.lba + cur.n - 1 \in 0 .. L - 1 /\ cur.n <= MaxBlocks /\ L \in Nat
  BY Ends, TraceAssumption, LogicalNumAssumption DEF TypeOK, InstrInv, Instructions, LBAs
<1>2. Target \in LBAs
  BY <1>1 DEF Target, LBAs
<1>3. cur.i + 1 < cur.n => cur.i + 1 \in 0 .. MaxBlocks - 1
  BY <1>1, TraceAssumption
<1>4. NoInstruction \in Instructions
  BY Ends, TraceAssumption DEF NoInstruction, Instructions
<1>5. QED
  BY <1>2, <1>3, <1>4 DEF TypeOK, Instructions

(* A track told its block goes into the batch. *)
LEMMA TakeType ==
  ASSUME TypeOK, InstrInv, NEW p \in Tracks, NEW owners \in [Tracks -> LBAs], Take(p, owners)
  PROVE  /\ lba0' \in [Tracks -> LBAs] /\ gbtable' \subseteq Tracks
         /\ pc' \in {"search", "flush"} /\ cur' \in Instructions
         /\ cur'.lba = cur.lba /\ cur'.n = cur.n /\ cur'.fid = cur.fid
         /\ \/ pc' = "flush" /\ cur' = cur
            \/ pc' = "search" /\ cur.i + 1 < cur.n /\ cur'.i = cur.i + 1
<1>1. cur \in Instructions /\ gbtable \subseteq Tracks
  BY DEF TypeOK
<1>2. QED
  BY <1>1, TargetIn DEF Take, NextBlock, Instructions

(* What LinksAgree says of one link. *)
LinkedTo(t, b, s, links) ==
  b \in Bottoms /\ s[b] = "in_use" /\ links[b].type = "top_buffer" /\ links[b].tba = t

LEMMA ScpVictim ==
  ASSUME TypeOK, LinkInv, NEW v \in Scps
  PROVE  /\ v \in Tops /\ v \in Tracks /\ Type(v) = "buffered" /\ status[v] = "in_use" /\ count > 0
         /\ LinkedTo(v, ptt[v].scp_pba, status, ptt)
         /\ ptt[v].scp_pba \in Tracks /\ ptt[v].scp_pba # v
<1>1. v \in Buffered /\ count # 0 /\ status[v] = "in_use"
  <2>1. v \in Victims /\ status[v] = "in_use"
    BY DEF Scps, Deletable
  <2>2. QED
    BY <2>1, NextOfIn DEF Victims
<1>2. v \in Tops /\ Type(v) = "buffered" /\ v \in Tracks /\ count > 0
  BY <1>1, Ends DEF Buffered, TypeOK, count
<1>3. LinkedTo(v, ptt[v].scp_pba, status, ptt)
  BY <1>1 DEF LinkInv, LinksAgree, LinkedTo, Type
<1>4. QED
  BY <1>1, <1>2, <1>3, Ends, TopOrBottom DEF LinkedTo

(* What writing a buffered track back comes to: its bottom track was in use *)
(* and so was the track it may trade places with, so the statuses change    *)
(* for the buffered track only; without block swapping nothing else moves.  *)
LEMMA ScpOutcome ==
  ASSUME TypeOK, LinkInv, NEW v \in Scps, NEW r \in ScpOutcomes(v), NEW b, b = ptt[v].scp_pba
  PROVE  /\ v \in Tops /\ Type(v) = "buffered" /\ status[v] = "in_use" /\ count > 0
         /\ b \in Bottoms /\ status[b] = "in_use" /\ Type(b) = "top_buffer" /\ ptt[b].tba = v
         /\ r.status = [status EXCEPT ![v] = "trimed"]
         /\ r.tba \in Tops /\ (r.tba # v => Type(r.tba) = "normal" /\ status[r.tba] = "in_use")
         /\ r.lba0 \in [Tracks -> LBAs]
         /\ r.ltp \in [LBAs -> LogicalEntries]
<1>1. v \in Tops /\ v \in Tracks /\ Type(v) = "buffered" /\ status[v] = "in_use" /\ count > 0
  BY ScpVictim
<1>2. b \in Bottoms /\ status[b] = "in_use" /\ Type(b) = "top_buffer" /\ ptt[b].tba = v
      /\ b \in Tracks /\ b # v
  BY ScpVictim DEF LinkedTo, Type
<1>3. v \in Tracks /\ b \in Bottoms /\ b \in Tracks /\ b # v /\ status[b] = "in_use"
  BY <1>1, <1>2
<1> DEFINE back == [ltp EXCEPT ![lba0[v]].pba = b]
           written == [status EXCEPT ![b] = "in_use"]
<1>4. written = status /\ status \in [Tracks -> {"free", "booked", "in_use", "trimed"}]
  BY <1>3 DEF TypeOK
<1>t. ltp \in [LBAs -> LogicalEntries] /\ lba0 \in [Tracks -> LBAs]
  BY DEF TypeOK, LogicalEntries
<1>5. back \in [LBAs -> LogicalEntries]
  BY <1>2, <1>3, <1>t, RedirectType
<1> HIDE DEF back
<1>6. CASE r = [tba |-> v, ltp |-> back, lba0 |-> lba0, status |-> [written EXCEPT ![v] = "trimed"]]
  BY <1>1, <1>2, <1>3, <1>4, <1>5, <1>6 DEF TypeOK, back
<1>7. ASSUME initialized, NEW c \in ColdTops(v),
             r = [tba |-> c, lba0 |-> Trade(lba0, b, c),
                  ltp |-> [[back EXCEPT ![lba0[b]].pba = c] EXCEPT ![lba0[c]].pba = b],
                  status |-> [Trade(written, b, c) EXCEPT ![v] = "trimed"]]
      PROVE  /\ r.status = [status EXCEPT ![v] = "trimed"]
             /\ r.tba \in Tops /\ (r.tba # v => Type(r.tba) = "normal" /\ status[r.tba] = "in_use")
             /\ r.lba0 \in [Tracks -> LBAs]
             /\ r.ltp \in [LBAs -> LogicalEntries]
  <2>1. c \in Tops /\ c \in Tracks /\ status[c] = "in_use" /\ (c # v => Type(c) = "normal")
    BY <1>7, Ends DEF ColdTops
  <2>2. Trade(written, b, c) = status
    BY <1>3, <1>4, <2>1 DEF Trade
  <2>3. Trade(lba0, b, c) \in [Tracks -> LBAs]
    BY <1>3, <2>1 DEF Trade, TypeOK
  <2>4. r.ltp \in [LBAs -> LogicalEntries]
    <3>1. [back EXCEPT ![lba0[b]].pba = c] \in [LBAs -> LogicalEntries]
      BY <1>3, <1>5, <1>t, <2>1, RedirectType
    <3>2. [[back EXCEPT ![lba0[b]].pba = c] EXCEPT ![lba0[c]].pba = b] \in [LBAs -> LogicalEntries]
      BY <1>3, <1>t, <2>1, <3>1, RedirectType
    <3>3. QED
      BY <1>7, <3>2
  <2>5. QED
    BY <1>1, <1>2, <1>3, <1>7, <2>1, <2>2, <2>3, <2>4
<1>8. QED
  BY <1>1, <1>2, <1>3, <1>6, <1>7 DEF ScpOutcomes, back

(* The links a move to the buffer makes and those the way back unmakes. *)
LEMMA CreateIs ==
  ASSUME NEW links \in [Tracks -> Links], NEW b \in Bottoms, NEW t \in Tops
  PROVE  /\ create_top_buffer(links, b, t) \in [Tracks -> Links]
         /\ \A u \in Tracks : create_top_buffer(links, b, t)[u] =
              IF u = t THEN [tba |-> t, scp_pba |-> b, type |-> "buffered"]
              ELSE IF u = b THEN [tba |-> t, scp_pba |-> links[b].scp_pba, type |-> "top_buffer"]
              ELSE links[u]
<1>1. b \in Tracks /\ t \in Tracks /\ b # t /\ links[b] \in Links
  BY Ends, TopOrBottom
<1> DEFINE c == [tba |-> t, scp_pba |-> links[b].scp_pba, type |-> "top_buffer"]
           d == [tba |-> t, scp_pba |-> b, type |-> "buffered"]
<1> DEFINE x == [links[b] EXCEPT !.tba = t]
           y == [x EXCEPT !.type = "top_buffer"]
<1>x. x \in Links /\ x.tba = t /\ x.scp_pba = links[b].scp_pba
  BY <1>1 DEF Links
<1>y. y \in Links /\ y.tba = t /\ y.scp_pba = links[b].scp_pba /\ y.type = "top_buffer"
  <2> HIDE DEF x
  <2>1. QED
    BY <1>x DEF Links, Types
<1>2. y = c
  <2>1. y = [tba |-> y.tba, scp_pba |-> y.scp_pba, type |-> y.type]
    <3> HIDE DEF y
    <3>1. QED
      BY <1>y DEF Links
  <2> HIDE DEF y
  <2>2. QED
    BY <1>y, <2>1
<1>3. create_top_buffer(links, b, t) = [[links EXCEPT ![b] = c] EXCEPT ![t] = d]
  BY <1>1, <1>2 DEF create_top_buffer
<1>4. c \in Links /\ d \in Links
  BY <1>1 DEF Links, Types
<1> HIDE DEF c, d
<1>5. create_top_buffer(links, b, t) \in [Tracks -> Links]
      /\ \A u \in Tracks : create_top_buffer(links, b, t)[u] =
            IF u = t THEN d ELSE IF u = b THEN c ELSE links[u]
  BY <1>1, <1>3, <1>4
<1>6. QED
  BY <1>5 DEF c, d

LEMMA UnlinkedIs ==
  ASSUME TypeOK, NEW v \in Tops, NEW b \in Bottoms, b = ptt[v].scp_pba
  PROVE  /\ Unlinked(v) \in [Tracks -> Links]
         /\ \A u \in Tracks : Unlinked(v)[u] =
              IF u = v THEN [tba |-> v, scp_pba |-> 0, type |-> "normal"]
              ELSE IF u = b THEN [tba |-> 0, scp_pba |-> ptt[b].scp_pba, type |-> "normal"]
              ELSE ptt[u]
<1>1. b \in Tracks /\ v \in Tracks /\ b # v /\ 0 \in Tracks /\ ptt \in [Tracks -> Links]
  BY Ends, TopOrBottom DEF TypeOK, Links
<1>2. QED
  BY <1>1 DEF Unlinked, Links, Types

(* A move: where it starts and which links it finds. *)
LEMMA MoveStart ==
  ASSUME TypeOK, NEW p \in Bottoms, SearchMoves(p)
  PROVE  /\ pc = "search" /\ ltp[Target].valid /\ p = ltp[Target].pba /\ status[p] = "in_use"
         /\ Type(p) = "normal" /\ p \in Tracks
  BY Ends DEF SearchMoves, Present, NeedsBuffer

LEMMA MoveType ==
  ASSUME TypeOK, InstrInv, LinkInv, NEW p \in Bottoms, SearchMove(p)
  PROVE  TypeOK'
<1>1. PICK t \in NextOf(EmptyTops, current_top_buffer_track) :
        /\ ptt' = create_top_buffer(ptt, p, t)
        /\ status' = [status EXCEPT ![t] = "booked"]
        /\ report' = [report EXCEPT !.current_top_buffer_count = @ + 1]
        /\ current_top_buffer_track' = t
        /\ Take(t, lba0)
  BY DEF SearchMove
<1>2. t \in Tops /\ t \in Tracks
  BY NextOfIn, EmptyTopsFree, Ends
<1>3. ptt' \in [Tracks -> Links]
  BY <1>1, <1>2, CreateIs DEF TypeOK, Links
<1>4. report' \in Reports
  <2>1. ~is_top_buffer_full
    BY DEF SearchMove
  <2>2. QED
    BY <1>1, <2>1, ReportIs DEF is_top_buffer_full, count
<1>5. lba0' \in [Tracks -> LBAs] /\ gbtable' \subseteq Tracks /\ pc' \in Running /\ cur' \in Instructions
  BY <1>1, <1>2, TakeType DEF TypeOK, Running
<1>6. QED
  BY <1>1, <1>2, <1>3, <1>4, <1>5 DEF SearchMove, TypeOK, Links, Reports, flags

LEMMA MoveFullType ==
  ASSUME TypeOK, InstrInv, LinkInv, NEW p \in Bottoms, SearchMoveFull(p)
  PROVE  TypeOK'
<1>v. PICK v \in Scps : \E r \in ScpOutcomes(v) :
        /\ ltp' = r.ltp
        /\ ptt' = create_top_buffer(Unlinked(v), p, r.tba)
        /\ status' = [r.status EXCEPT ![r.tba] = "booked"]
        /\ current_scp_track' = v
        /\ Take(r.tba, r.lba0)
  BY DEF SearchMoveFull
<1>1. PICK r \in ScpOutcomes(v) :
        /\ ltp' = r.ltp
        /\ ptt' = create_top_buffer(Unlinked(v), p, r.tba)
        /\ status' = [r.status EXCEPT ![r.tba] = "booked"]
        /\ current_scp_track' = v
        /\ Take(r.tba, r.lba0)
  BY <1>v
<1>2. v \in Tops /\ ptt[v].scp_pba \in Bottoms
  BY ScpOutcome
<1>3. r.tba \in Tops /\ r.lba0 \in [Tracks -> LBAs] /\ r.ltp \in [LBAs -> LogicalEntries]
      /\ r.status = [status EXCEPT ![v] = "trimed"]
  <2> DEFINE b == ptt[v].scp_pba
  <2> HIDE DEF b
  <2>1. b = ptt[v].scp_pba
    BY DEF b
  <2>2. QED
    BY <2>1, ScpOutcome
<1>t. r.tba \in Tracks
  BY <1>3, Ends
<1>4. ptt' \in [Tracks -> Links]
  BY <1>1, <1>2, <1>3, CreateIs, UnlinkedIs
<1>5. lba0' \in [Tracks -> LBAs] /\ gbtable' \subseteq Tracks /\ pc' \in Running /\ cur' \in Instructions
  BY <1>1, <1>3, <1>t, TakeType DEF TypeOK, Running
<1>6. QED
  BY <1>1, <1>2, <1>3, <1>t, <1>4, <1>5 DEF SearchMoveFull, TypeOK, Links, LogicalEntries, flags

LEMMA BookType ==
  ASSUME TypeOK, InstrInv, NEW t \in Tracks, Book(t)
  PROVE  /\ status' \in [Tracks -> {"free", "booked", "in_use", "trimed"}]
         /\ ltp' \in [LBAs -> LogicalEntries] /\ lba0' \in [Tracks -> LBAs]
         /\ gbtable' \subseteq Tracks /\ pc' \in Running /\ cur' \in Instructions
<1>1. lba0' \in [Tracks -> LBAs] /\ gbtable' \subseteq Tracks /\ pc' \in Running /\ cur' \in Instructions
  BY TakeType DEF Book, TypeOK, Running
<1>2. [pba |-> t, fid |-> cur.fid, valid |-> TRUE] \in LogicalEntries
  BY DEF LogicalEntries, TypeOK, Instructions
<1>3. QED
  BY <1>1, <1>2, TargetIn DEF Book, TypeOK, LogicalEntries

LEMMA TryType ==
  ASSUME TypeOK, InstrInv, NEW t \in Tracks, TryTrack(t)
  PROVE  /\ status' \in [Tracks -> {"free", "booked", "in_use", "trimed"}]
         /\ ltp' \in [LBAs -> LogicalEntries] /\ lba0' \in [Tracks -> LBAs]
         /\ gbtable' \subseteq Tracks /\ pc' \in {"idle"} \cup Running \cup Stopped
         /\ cur' \in Instructions
  BY BookType DEF TryTrack, GoRound, TypeOK, LogicalEntries

(* The allocator tries tracks of the disk only. *)
LEMMA TrackTried ==
  ASSUME TypeOK, PhaseInv
  PROVE  /\ zinfo.phases = 1 => zinfo.current_track \in Bottoms
         /\ zinfo.phases = 2 => zinfo.current_track \in Tops
         /\ zinfo.phases = 3 /\ zinfo.current_track <= N => zinfo.current_track \in Tops
<1>1. N \in Nat /\ N % 4 = 0 /\ zinfo.current_track \in Nat
  BY TrackNumAssumption DEF TypeOK
<1>2. ASSUME zinfo.current_track <= N, zinfo.current_track % 2 = 1
      PROVE  zinfo.current_track \in Tops
  <2>1. zinfo.current_track < N
    BY <1>1, <1>2
  <2>2. QED
    BY <1>1, <1>2, <2>1 DEF Tops, Tracks, is_toptrack
<1>3. QED
  BY <1>2 DEF PhaseInv

LEMMA AllocType ==
  ASSUME TypeOK, PhaseInv, InstrInv, LinkInv, Alloc
  PROVE  TypeOK'
<1>1. zinfo.current_track \in Nat /\ zinfo \in Allocators
  BY AllocatorSteps
<1>2. CASE AllocPhase1
  <2>1. TryTrack(zinfo.current_track) /\ zinfo.current_track \in Tracks
    BY <1>2, TrackTried, Ends DEF AllocPhase1, Allocating
  <2>2. zinfo' \in Allocators
    BY <1>1, <1>2, AllocatorSteps DEF AllocPhase1, AllocatorIs
  <2>3. QED
    BY <1>2, <2>1, <2>2, TryType DEF AllocPhase1, TypeOK, LogicalEntries, Allocators, flags, cursors
<1>3. CASE AllocPhase1Full
  <2> DEFINE left == {t \in EveryOther(phase1_start, phase1_end) : IsFree(t)}
  <2>1. CASE left # {}
    <3>1. PICK t \in FirstOf(left) :
            /\ Book(t)
            /\ zinfo' = [zinfo EXCEPT !.current_track = t, !.phase1_is_full = FALSE]
            /\ UNCHANGED enable_top_buffer
      BY <1>3, <2>1 DEF AllocPhase1Full
    <3>2. t \in Tracks /\ t \in Nat
      BY TracksNat DEF FirstOf, EveryOther
    <3>3. zinfo' \in Allocators
      BY <3>1, <3>2, AllocatorSteps DEF AllocatorIs
    <3>4. QED
      BY <1>3, <3>1, <3>2, <3>3, BookType DEF AllocPhase1Full, TypeOK, LogicalEntries, Allocators, cursors
  <2>2. CASE left = {}
    <3>1. /\ TryTrack(zinfo.current_track) /\ zinfo.current_track \in Tracks
          /\ zinfo' = [zinfo EXCEPT !.phases = 2,
                         !.current_track = IF zinfo.current_track = phase1_end
                                           THEN phase2_start ELSE phase2_start + 2]
          /\ enable_top_buffer' = TRUE
      BY <1>3, <2>2, TrackTried, Ends DEF AllocPhase1Full, Allocating
    <3>2. zinfo' \in Allocators
      <4>1. phase2_start \in Nat /\ phase2_start + 2 \in Nat
        BY Geometry
      <4> DEFINE t == IF zinfo.current_track = phase1_end THEN phase2_start ELSE phase2_start + 2
      <4>2. t \in Nat
        BY <4>1
      <4> HIDE DEF t
      <4>3. zinfo' = [zinfo EXCEPT !.phases = 2, !.current_track = t]
        BY <3>1 DEF t
      <4>4. 2 \in 1 .. 3
        OBVIOUS
      <4>5. QED
        BY <1>1, <4>2, <4>3, <4>4 DEF Allocators
    <3>3. QED
      BY <1>3, <3>1, <3>2, TryType DEF AllocPhase1Full, TypeOK, LogicalEntries, Allocators, cursors
  <2>3. QED
    BY <2>1, <2>2
<1>4. CASE AllocPhase2
  <2>1. TryTrack(zinfo.current_track) /\ zinfo.current_track \in Tops /\ zinfo.phases = 2
        /\ zinfo.current_track \in Tracks /\ zinfo.current_track % 4 = 3
    BY <1>4, TrackTried, Ends DEF AllocPhase2, Allocating, PhaseInv
  <2>2. zinfo.current_track # phase2_end => zinfo.current_track - 4 \in Nat
    BY <1>1, <2>1, FourBelow, Geometry
  <2>3. zinfo' \in Allocators
    <3>1. CASE zinfo.current_track = phase2_end
      <4>1. zinfo' = [zinfo EXCEPT !.phases = 3, !.current_track = phase3_start]
        BY <1>4, <3>1 DEF AllocPhase2
      <4>2. phase3_start \in Nat /\ 3 \in 1 .. 3
        BY Geometry
      <4>3. QED
        BY <1>1, <4>1, <4>2 DEF Allocators
    <3>2. CASE zinfo.current_track # phase2_end
      BY <1>4, <2>2, <3>2, AllocatorSteps DEF AllocPhase2, AllocatorIs
    <3>3. QED
      BY <3>1, <3>2
  <2>4. QED
    BY <1>4, <2>1, <2>3, TryType DEF AllocPhase2, TypeOK, LogicalEntries, Allocators, flags, cursors
<1>5. CASE AllocPhase3 \/ AllocPhase3Trigger
  <2>1. TryTrack(zinfo.current_track) /\ zinfo.current_track \in Tracks
    BY <1>5, TrackTried, Ends DEF AllocPhase3, AllocPhase3Trigger, Allocating
  <2>2. zinfo' \in Allocators
    BY <1>1, <1>5, AllocatorSteps DEF AllocPhase3, AllocPhase3Trigger, AllocatorIs
  <2>3. QED
    BY <1>5, <2>1, <2>2, TryType
      DEF AllocPhase3, AllocPhase3Trigger, TypeOK, LogicalEntries, Allocators, flags, cursors
<1>6. CASE AllocGiveUpBuffer
  <2>v. PICK v \in Scps : \E r \in ScpOutcomes(v) :
          /\ ltp' = r.ltp /\ lba0' = r.lba0 /\ status' = r.status
          /\ ptt' = Unlinked(v)
          /\ current_scp_track' = v
          /\ zinfo' = [zinfo EXCEPT !.current_track = v]
    BY <1>6 DEF AllocGiveUpBuffer
  <2>1. PICK r \in ScpOutcomes(v) :
          /\ ltp' = r.ltp /\ lba0' = r.lba0 /\ status' = r.status
          /\ ptt' = Unlinked(v)
          /\ current_scp_track' = v
          /\ zinfo' = [zinfo EXCEPT !.current_track = v]
    BY <2>v
  <2>2. v \in Tops /\ ptt[v].scp_pba \in Bottoms /\ count > 0
        /\ r.lba0 \in [Tracks -> LBAs] /\ r.ltp \in [LBAs -> LogicalEntries]
        /\ r.status = [status EXCEPT ![v] = "trimed"]
    BY ScpOutcome
  <2>3. v \in Nat /\ v \in Tracks
    BY <2>2, Ends, TracksNat
  <2>4. ptt' \in [Tracks -> Links]
    BY <2>1, <2>2, UnlinkedIs
  <2>5. report' \in Reports
    BY <1>6, <2>2, ReportIs DEF AllocGiveUpBuffer, count, LinkInv, CountRight
  <2>6. zinfo' \in Allocators
    BY <2>1, <2>3, AllocatorField DEF AllocatorIs
  <2>7. QED
    BY <1>6, <2>1, <2>2, <2>3, <2>4, <2>5, <2>6
      DEF AllocGiveUpBuffer, TypeOK, LogicalEntries, Links, Allocators, Reports, flags
<1>7. CASE AllocStops \/ AllocDiskFull
  BY <1>7 DEF AllocStops, ScpStops, AllocDiskFull, TypeOK, Stopped, flags, cursors
<1>8. QED
  BY <1>2, <1>3, <1>4, <1>5, <1>6, <1>7 DEF Alloc

LEMMA SearchType ==
  ASSUME TypeOK, InstrInv, LinkInv, Search
  PROVE  TypeOK'
<1>1. CASE SearchForeign
  BY <1>1, TargetIn DEF SearchForeign, NextBlock, TypeOK, Running, flags, cursors
<1>2. CASE SearchNew
  BY <1>2 DEF SearchNew, TypeOK, Running, flags, cursors
<1>3. CASE SearchBuffered
  <2>1. ptt[ltp[Target].pba].tba \in Tracks
    BY TargetIn DEF TypeOK
  <2>2. QED
    BY <1>3, <2>1, TakeType DEF SearchBuffered, TypeOK, Running, flags, cursors
<1>4. CASE SearchInPlace
  <2>1. ltp[Target].pba \in Tracks /\ Take(ltp[Target].pba, lba0)
    BY <1>4, TargetIn DEF TypeOK, SearchInPlace
  <2>2. QED
    BY <1>4, <2>1, TakeType DEF SearchInPlace, TypeOK, Running, flags, cursors
<1>5. CASE \E p \in Bottoms : SearchMove(p)
  BY <1>5, MoveType
<1>6. CASE \E p \in Bottoms : SearchMoveFull(p)
  BY <1>6, MoveFullType
<1>7. CASE \E p \in Bottoms : SearchNoFreeTop(p) \/ SearchMoveStops(p)
  BY <1>7 DEF SearchNoFreeTop, SearchMoveStops, ScpStops, TypeOK, Stopped, flags, cursors
<1>8. QED
  BY <1>1, <1>2, <1>3, <1>4, <1>5, <1>6, <1>7 DEF Search

LEMMA DeleteType ==
  ASSUME TypeOK, NEW f \in Fids, Delete(f)
  PROVE  TypeOK'
<1>1. status' \in [Tracks -> {"free", "booked", "in_use", "trimed"}]
  BY DEF Delete, TypeOK
<1>2. ptt' \in [Tracks -> Links]
  <2>1. ptt \in [Tracks -> Links]
    BY DEF TypeOK, Links
  <2>2. ASSUME NEW t \in Tracks PROVE [ptt[t] EXCEPT !.tba = t, !.type = "normal"] \in Links
    <3>1. ptt[t] \in Links /\ "normal" \in Types
      BY <2>1 DEF Types
    <3>2. QED
      BY <3>1 DEF Links
  <2>3. QED
    BY <2>1, <2>2 DEF Delete
<1>3. ltp' \in [LBAs -> LogicalEntries]
  <2>1. ltp \in [LBAs -> LogicalEntries]
    BY DEF TypeOK, LogicalEntries
  <2>2. \A l \in LBAs : [ltp[l] EXCEPT !.valid = FALSE] \in LogicalEntries
    BY <2>1 DEF LogicalEntries
  <2>3. QED
    BY <2>1, <2>2 DEF Delete
<1>4. QED
  BY <1>1, <1>2, <1>3 DEF Delete, TypeOK, Links, LogicalEntries, flags, cursors

LEMMA NextType ==
  ASSUME TypeOK, PhaseInv, InstrInv, LinkInv, [Next]_vars
  PROVE  TypeOK'
<1>1. CASE \E l \in LBAs, n \in 1 .. MaxBlocks, f \in Fids : StartWrite(l, n, f)
  <2>1. PICK l \in LBAs, n \in 1 .. MaxBlocks, f \in Fids : StartWrite(l, n, f)
    BY <1>1
  <2>2. [lba |-> l, n |-> n, fid |-> f, i |-> 0] \in Instructions
    BY TraceAssumption DEF Instructions
  <2>3. QED
    BY <2>1, <2>2 DEF StartWrite, TypeOK, Running, flags, cursors
<1>2. CASE \E f \in Fids : Delete(f)
  BY <1>2, DeleteType
<1>3. CASE \E f \in Fids : DeleteStops(f)
  BY <1>3 DEF DeleteStops, TypeOK, Stopped, flags, cursors
<1>4. CASE Flush
  BY <1>4, TargetIn DEF Flush, TypeOK, flags, cursors
<1>5. CASE UNCHANGED vars
  BY <1>5 DEF vars, TypeOK, flags, cursors
<1>6. QED
  BY <1>1, <1>2, <1>3, <1>4, <1>5, SearchType, AllocType DEF Next, DeleteFile, Progress

-----------------------------------------------------------------------------
(* The phases.                                                             *)

(* No step makes a track free. *)
LessFree == \A t \in Tracks : status'[t] = "free" => status[t] = "free"

LEMMA PhaseKept ==
  ASSUME PhaseInv, LessFree, zinfo' = zinfo, pc' # "disk_full"
  PROVE  PhaseInv'
  BY Ends DEF PhaseInv, LessFree, FullMeansFull

LEMMA SearchPhase ==
  ASSUME TypeOK, PhaseInv, InstrInv, LinkInv, Search
  PROVE  PhaseInv'
<1>1. zinfo' = zinfo
  BY DEF Search, SearchForeign, SearchNew, SearchBuffered, SearchInPlace, SearchMove,
    SearchNoFreeTop, SearchMoveFull, SearchMoveStops, ScpStops
<1>2. pc' # "disk_full"
  BY DEF Search, SearchForeign, SearchNew, SearchBuffered, SearchInPlace, SearchMove,
    SearchNoFreeTop, SearchMoveFull, SearchMoveStops, ScpStops, Take, NextBlock
<1>3. LessFree
  <2>1. CASE \E p \in Bottoms : SearchMove(p)
    <3>1. PICK t : status' = [status EXCEPT ![t] = "booked"]
      BY <2>1 DEF SearchMove
    <3>2. QED
      BY <3>1 DEF LessFree, TypeOK
  <2>2. CASE \E p \in Bottoms : SearchMoveFull(p)
    <3>1. PICK v \in Scps : \E r \in ScpOutcomes(v) : status' = [r.status EXCEPT ![r.tba] = "booked"]
      BY <2>2 DEF SearchMoveFull
    <3>2. PICK r \in ScpOutcomes(v) : status' = [r.status EXCEPT ![r.tba] = "booked"]
      BY <3>1
    <3>3. r.status = [status EXCEPT ![v] = "trimed"]
      BY ScpOutcome
    <3>4. QED
      BY <3>2, <3>3 DEF LessFree, TypeOK
  <2>3. CASE ~\E p \in Bottoms : SearchMove(p) \/ SearchMoveFull(p)
    BY <2>3 DEF LessFree, Search, SearchForeign, SearchNew, SearchBuffered, SearchInPlace,
      SearchNoFreeTop, SearchMoveStops, ScpStops
  <2>4. QED
    BY <2>1, <2>2, <2>3
<1>4. QED
  BY <1>1, <1>2, <1>3, PhaseKept

(* A track the allocator tries is not free afterwards. *)
LEMMA TriedTaken ==
  ASSUME TypeOK, LinkInv, NEW t \in Tracks, TryTrack(t) \/ Book(t)
  PROVE  LessFree /\ status'[t] # "free" /\ pc' \in {"search", "flush", pc}
<1>1. status[t] = "free" => IsFree(t) /\ Type(t) = "normal"
  BY DEF IsFree, LinkInv
<1>2. QED
  BY <1>1 DEF LessFree, TryTrack, Book, GoRound, Take, NextBlock, TypeOK

LEMMA AllocPhase ==
  ASSUME TypeOK, PhaseInv, InstrInv, LinkInv, Alloc
  PROVE  PhaseInv'
<1> DEFINE c == zinfo.current_track
<1>0. pc = "alloc" /\ zinfo \in Allocators /\ c \in Nat /\ N \in Nat
  BY AllocatorSteps, Ends DEF Alloc, AllocPhase1, AllocPhase1Full, AllocPhase2, AllocPhase3Trigger,
    AllocPhase3, AllocGiveUpBuffer, AllocStops, AllocDiskFull, Phase3Over, Allocating
<1>1. CASE AllocPhase1
  <2>1. zinfo.phases = 1 /\ ~zinfo.phase1_is_full /\ c \in Bottoms /\ c \in Tracks /\ TryTrack(c)
    BY <1>1, Ends DEF AllocPhase1, Allocating, PhaseInv
  <2>2. LessFree /\ status'[c] # "free" /\ pc' # "disk_full"
    BY <1>0, <2>1, TriedTaken
  <2>3. \A t \in Bottoms : status'[t] = "free" => t >= c /\ t # c
    BY <2>1, <2>2, Ends DEF PhaseInv, LessFree
  <2>4. CASE c = phase1_end
    <3>1. zinfo'.phases = 1 /\ zinfo'.current_track = c /\ zinfo'.phase1_is_full
      BY <1>1, <2>1, <2>4, AllocatorSteps DEF AllocPhase1, AllocatorIs
    <3>2. \A t \in Bottoms : t <= phase1_end /\ t \in Nat
      BY <2>1, NextBottomTrack, Ends, TracksNat
    <3>3. \A t \in Bottoms : status'[t] # "free"
      BY <1>0, <2>3, <2>4, <3>2
    <3>4. QED
      BY <2>1, <2>2, <2>4, <3>1, <3>3 DEF PhaseInv, FullMeansFull
  <2>5. CASE c # phase1_end
    <3>1. zinfo'.phases = 1 /\ zinfo'.current_track = c + 2 /\ ~zinfo'.phase1_is_full
      BY <1>1, <2>1, <2>5, AllocatorSteps DEF AllocPhase1, AllocatorIs
    <3>2. c + 2 \in Bottoms /\ \A t \in Bottoms : t >= c <=> t = c \/ t >= c + 2
      BY <2>1, <2>5, NextBottomTrack
    <3>3. \A t \in Bottoms : status'[t] = "free" => t >= c + 2
      BY <2>3, <3>2
    <3>4. QED
      BY <2>2, <3>1, <3>2, <3>3 DEF PhaseInv, FullMeansFull
  <2>6. QED
    BY <2>4, <2>5
<1>2. CASE AllocPhase1Full
  <2> DEFINE left == {t \in EveryOther(phase1_start, phase1_end) : IsFree(t)}
  <2>1. zinfo.phases = 1 /\ zinfo.phase1_is_full /\ c = phase1_end /\ c \in Bottoms /\ c \in Tracks
        /\ \A t \in Bottoms : status[t] # "free"
    BY <1>2, Ends DEF AllocPhase1Full, Allocating, PhaseInv
  <2>2. CASE left # {}
    <3>1. PICK t \in FirstOf(left) :
            Book(t) /\ zinfo' = [zinfo EXCEPT !.current_track = t, !.phase1_is_full = FALSE]
      BY <1>2, <2>2 DEF AllocPhase1Full
    <3>2. t \in Bottoms /\ t \in Tracks /\ t \in Nat
      BY EveryOtherBottom, Ends, TracksNat DEF FirstOf
    <3>3. LessFree /\ pc' # "disk_full"
      BY <1>0, <3>1, <3>2, TriedTaken
    <3>4. zinfo'.phases = 1 /\ zinfo'.current_track = t /\ ~zinfo'.phase1_is_full
      BY <2>1, <3>1, <3>2, AllocatorSteps DEF AllocatorIs
    <3>5. \A u \in Bottoms : status'[u] # "free"
      BY <2>1, <3>3, Ends DEF LessFree
    <3>6. QED
      BY <3>2, <3>3, <3>4, <3>5 DEF PhaseInv, FullMeansFull
  <2>3. CASE left = {}
    <3>1. TryTrack(c) /\ zinfo' = [zinfo EXCEPT !.phases = 2, !.current_track = phase2_start]
      BY <1>2, <2>1, <2>3 DEF AllocPhase1Full
    <3>2. LessFree /\ pc' # "disk_full"
      BY <1>0, <2>1, <3>1, TriedTaken
    <3>3. zinfo'.phases = 2 /\ zinfo'.current_track = phase2_start
      BY <1>0, <3>1 DEF Allocators
    <3>4. \A u \in Tracks : u <= phase2_start
      BY Geometry DEF Tracks
    <3>5. QED
      BY <2>1, <3>2, <3>3, <3>4, NextTopTrack, Ends DEF PhaseInv, FullMeansFull, LessFree
  <2>4. QED
    BY <2>2, <2>3
<1>3. CASE AllocPhase2
  <2>1. zinfo.phases = 2 /\ c \in Tops /\ c \in Tracks /\ TryTrack(c) /\ c % 4 = 3
        /\ (\A t \in Bottoms : status[t] # "free")
        /\ \A t \in Tops : status[t] = "free" => t % 4 = 1 \/ t <= c
    BY <1>3, Ends DEF AllocPhase2, Allocating, PhaseInv
  <2>2. LessFree /\ status'[c] # "free" /\ pc' # "disk_full"
    BY <1>0, <2>1, TriedTaken
  <2>3. /\ \A t \in Bottoms : status'[t] # "free"
        /\ \A t \in Tops : status'[t] = "free" => t % 4 = 1 \/ (t <= c /\ t # c)
    BY <2>1, <2>2, Ends DEF LessFree
  <2>4. \A t \in Tops : t \in Nat /\ (t % 4 = 1 \/ t % 4 = 3)
    BY Ends, TracksNat DEF Tops, is_toptrack
  <2>5. CASE c = phase2_end
    <3>1. zinfo'.phases = 3 /\ zinfo'.current_track = phase3_start
      BY <1>0, <1>3, <2>5 DEF AllocPhase2, Allocators
    <3>2. c = 3 /\ phase3_start = 1
      BY <2>5, Geometry
    <3>3. \A t \in Tops : status'[t] = "free" => t % 4 = 1 /\ t >= 1
      BY <2>3, <2>4, <3>2
    <3>4. QED
      BY <2>2, <2>3, <3>1, <3>2, <3>3 DEF PhaseInv, FullMeansFull
  <2>6. CASE c # phase2_end
    <3>1. zinfo'.phases = 2 /\ zinfo'.current_track = c - 4
      BY <1>0, <1>3, <2>1, <2>6 DEF AllocPhase2, Allocators
    <3>2. c - 4 \in Tops /\ (c - 4) % 4 = 3
      BY <2>1, <2>6, NextTopTrack
    <3>3. \A t \in Nat : t % 4 = 3 /\ t <= c /\ t # c => t <= c - 4
      BY <1>0, <2>1
    <3>4. \A t \in Tops : status'[t] = "free" => t % 4 = 1 \/ t <= c - 4
      BY <2>3, <2>4, <3>3
    <3>5. QED
      BY <2>2, <2>3, <3>1, <3>2, <3>4 DEF PhaseInv, FullMeansFull
  <2>7. QED
    BY <2>5, <2>6
<1>4. CASE AllocPhase3 \/ AllocPhase3Trigger
  <2>1. zinfo.phases = 3 /\ c \in Tops /\ c \in Tracks /\ TryTrack(c) /\ c % 2 = 1
        /\ (\A t \in Bottoms : status[t] # "free")
        /\ \A t \in Tops : status[t] = "free" => t % 4 = 1 /\ t >= c /\ c % 4 = 1
    BY <1>4, TrackTried, Ends DEF AllocPhase3, AllocPhase3Trigger, Allocating, PhaseInv
  <2>2. LessFree /\ status'[c] # "free" /\ pc' # "disk_full"
    BY <1>0, <2>1, TriedTaken
  <2>3. /\ \A t \in Bottoms : status'[t] # "free"
        /\ \A t \in Tops : status'[t] = "free" => t % 4 = 1 /\ t >= c /\ c % 4 = 1 /\ t # c
    BY <2>1, <2>2, Ends DEF LessFree
  <2>4. CASE AllocPhase3Trigger
    BY <2>1, <2>2, <2>3, <2>4 DEF PhaseInv, FullMeansFull, AllocPhase3Trigger
  <2>5. CASE AllocPhase3
    <3>1. zinfo'.phases = 3 /\ zinfo'.current_track = c + 4 /\ (c + 4) % 2 = 1
      BY <1>0, <2>1, <2>5 DEF AllocPhase3, Allocators
    <3>2. \A t \in Nat : t % 4 = 1 /\ t >= c /\ c % 4 = 1 /\ t # c => t >= c + 4 /\ (c + 4) % 4 = 1
      BY <1>0
    <3>3. \A t \in Tops : status'[t] = "free" => t % 4 = 1 /\ t >= c + 4 /\ (c + 4) % 4 = 1
      BY <2>3, <3>2, Ends, TracksNat
    <3>4. QED
      BY <2>2, <2>3, <3>1, <3>3 DEF PhaseInv, FullMeansFull
  <2>6. QED
    BY <1>4, <2>4, <2>5
<1>5. CASE Phase3Over
  <2>1. zinfo.phases = 3 /\ c > N /\ \A t \in Tracks : status[t] # "free"
    <3>1. zinfo.phases = 3 /\ c > N
      BY <1>5 DEF Phase3Over, Allocating
    <3>2. \A t \in Tracks : t \in Nat /\ ~(t >= c)
      BY <1>0, <3>1 DEF Tracks
    <3>3. QED
      BY <3>1, <3>2, TopOrBottom DEF PhaseInv
  <2>2. CASE AllocGiveUpBuffer
    <3>1. PICK v \in Scps : \E r \in ScpOutcomes(v) :
            status' = r.status /\ zinfo' = [zinfo EXCEPT !.current_track = v]
      BY <2>2 DEF AllocGiveUpBuffer
    <3>2. PICK r \in ScpOutcomes(v) : status' = r.status
      BY <3>1
    <3>3. r.status = [status EXCEPT ![v] = "trimed"] /\ v \in Tops
      BY ScpOutcome
    <3>4. v \in Nat /\ v % 2 = 1
      BY <3>3, Ends, TracksNat DEF Tops, is_toptrack
    <3>5. zinfo'.phases = 3 /\ zinfo'.current_track = v
      BY <2>1, <3>1, <3>4, AllocatorField DEF AllocatorIs
    <3>6. \A t \in Tracks : status'[t] # "free"
      BY <2>1, <3>2, <3>3 DEF TypeOK
    <3>7. QED
      BY <3>4, <3>5, <3>6, Ends DEF PhaseInv, FullMeansFull
  <2>3. CASE AllocStops \/ AllocDiskFull
    <3>1. zinfo' = zinfo /\ status' = status
      BY <2>3 DEF AllocStops, ScpStops, AllocDiskFull
    <3>2. QED
      BY <2>1, <3>1, Ends DEF PhaseInv, FullMeansFull
  <2>4. QED
    <3>1. ~(c <= N) /\ zinfo.phases # 1 /\ zinfo.phases # 2
      BY <1>0, <2>1
    <3>2. ~AllocPhase1 /\ ~AllocPhase1Full /\ ~AllocPhase2 /\ ~AllocPhase3 /\ ~AllocPhase3Trigger
      BY <3>1 DEF AllocPhase1, AllocPhase1Full, AllocPhase2, AllocPhase3Trigger, AllocPhase3, Allocating
    <3>3. QED
      BY <2>2, <2>3, <3>2 DEF Alloc
<1>6. QED
  BY <1>1, <1>2, <1>3, <1>4, <1>5 DEF Alloc, AllocGiveUpBuffer, AllocStops, AllocDiskFull

LEMMA NextPhase ==
  ASSUME TypeOK, PhaseInv, InstrInv, LinkInv, [Next]_vars
  PROVE  PhaseInv'
<1>1. CASE (\E l \in LBAs, n \in 1 .. MaxBlocks, f \in Fids : StartWrite(l, n, f))
           \/ (\E f \in Fids : DeleteStops(f))
  BY <1>1, PhaseKept DEF StartWrite, DeleteStops, LessFree
<1>2. CASE (\E f \in Fids : Delete(f)) \/ Flush
  <2>1. LessFree
    <3>1. CASE Flush
      BY <3>1 DEF LessFree, Flush
    <3>2. CASE \E f \in Fids : Delete(f)
      BY <3>2 DEF LessFree, Delete
    <3>3. QED
      BY <1>2, <3>1, <3>2
  <2>2. zinfo' = zinfo /\ pc' # "disk_full"
    BY <1>2 DEF Delete, Flush
  <2>3. QED
    BY <2>1, <2>2, PhaseKept
<1>3. CASE UNCHANGED vars
  BY <1>3 DEF vars, PhaseInv, FullMeansFull
<1>4. QED
  BY <1>1, <1>2, <1>3, SearchPhase, AllocPhase DEF Next, DeleteFile, Progress

-----------------------------------------------------------------------------
(* The instruction in progress.                                            *)

LEMMA TakeInstr ==
  ASSUME TypeOK, InstrInv, NEW p \in Tracks, NEW owners \in [Tracks -> LBAs], Take(p, owners)
  PROVE  InstrInv'
<1>1. cur \in Instructions /\ cur.i \in Nat /\ cur.n \in Nat
  BY TraceAssumption DEF TypeOK, Instructions
<1>2. QED
  BY <1>1, TakeType DEF InstrInv

LEMMA NextInstr ==
  ASSUME TypeOK, PhaseInv, InstrInv, LinkInv, [Next]_vars
  PROVE  InstrInv'
<1>t. \A t \in Tracks : Book(t) \/ TryTrack(t) =>
        InstrInv' \/ UNCHANGED <<pc, cur, gbtable>>
  BY TakeInstr DEF Book, TryTrack, GoRound, TypeOK
<1>u. ASSUME UNCHANGED <<cur, gbtable>>, pc' # "idle", pc \in {"search", "alloc"} PROVE InstrInv'
  BY <1>u DEF InstrInv
<1>1. CASE \E l \in LBAs, n \in 1 .. MaxBlocks, f \in Fids : StartWrite(l, n, f)
  BY <1>1 DEF StartWrite, InstrInv
<1>2. CASE (\E f \in Fids : Delete(f)) \/ (\E f \in Fids : DeleteStops(f))
  BY <1>2 DEF Delete, DeleteStops, InstrInv
<1>3. CASE Flush
  BY <1>3, Ends DEF Flush, InstrInv, NoInstruction
<1>4. CASE UNCHANGED vars
  BY <1>4 DEF vars, InstrInv
<1>5. CASE Search
  <2>1. CASE SearchForeign
    <3>1. cur \in Instructions /\ cur.i \in Nat /\ cur.n \in Nat
      BY TraceAssumption DEF TypeOK, Instructions
    <3>2. QED
      BY <2>1, <3>1 DEF SearchForeign, NextBlock, InstrInv, Instructions
  <2>2. CASE SearchBuffered \/ SearchInPlace \/ \E p \in Bottoms : SearchMove(p)
    <3>1. \E p \in Tracks : Take(p, lba0)
      BY <2>2, TargetIn, NextOfIn, EmptyTopsFree, Ends DEF SearchBuffered, SearchInPlace, SearchMove, TypeOK
    <3>2. QED
      BY <3>1, TakeInstr DEF TypeOK
  <2>3. CASE \E p \in Bottoms : SearchMoveFull(p)
    <3>1. PICK v \in Scps : \E r \in ScpOutcomes(v) : Take(r.tba, r.lba0)
      BY <2>3 DEF SearchMoveFull
    <3>2. PICK r \in ScpOutcomes(v) : Take(r.tba, r.lba0)
      BY <3>1
    <3>3. r.tba \in Tracks /\ r.lba0 \in [Tracks -> LBAs]
      <4> DEFINE b == ptt[v].scp_pba
      <4> HIDE DEF b
      <4>1. b = ptt[v].scp_pba
        BY DEF b
      <4>2. r.tba \in Tops /\ r.lba0 \in [Tracks -> LBAs]
        BY <4>1, ScpOutcome
      <4>3. QED
        BY <4>2, Ends
    <3>4. QED
      BY <3>2, <3>3, TakeInstr
  <2>4. CASE SearchNew \/ \E p \in Bottoms : SearchNoFreeTop(p) \/ SearchMoveStops(p)
    BY <1>u, <2>4 DEF SearchNew, SearchNoFreeTop, SearchMoveStops, ScpStops, SearchMoves
  <2>5. QED
    BY <1>5, <2>1, <2>2, <2>3, <2>4 DEF Search
<1>6. CASE Alloc
  <2>0. pc = "alloc"
    BY <1>6 DEF Alloc, AllocPhase1, AllocPhase1Full, AllocPhase2, AllocPhase3Trigger,
      AllocPhase3, AllocGiveUpBuffer, AllocStops, AllocDiskFull, Phase3Over, Allocating
  <2>1. CASE \E t \in Tracks : Book(t) \/ TryTrack(t)
    BY <1>t, <1>u, <2>0, <2>1
  <2>2. CASE AllocGiveUpBuffer \/ AllocStops \/ AllocDiskFull
    BY <1>u, <2>0, <2>2 DEF AllocGiveUpBuffer, AllocStops, ScpStops, AllocDiskFull
  <2>3. QED
    BY <1>6, <2>1, <2>2, TrackTried, Ends
      DEF Alloc, AllocPhase1, AllocPhase1Full, AllocPhase2, AllocPhase3Trigger,
          AllocPhase3, Allocating, FirstOf, EveryOther
<1>7. QED
  BY <1>1, <1>2, <1>3, <1>4, <1>5, <1>6 DEF Next, DeleteFile, Progress

-----------------------------------------------------------------------------
(* The links.                                                              *)

Lent == {b \in Bottoms : Type(b) = "top_buffer"}

LEMMA LentFinite == IsFiniteSet(Lent) /\ IsFiniteSet(Lent') /\ Cardinality(Lent) \in Nat
<1>1. IsFiniteSet(Tracks)
  BY FS_Interval, Ends DEF Tracks
<1>2. Lent \subseteq Tracks /\ Lent' \subseteq Tracks
  BY Ends DEF Lent
<1>3. QED
  BY <1>1, <1>2, FS_Subset, FS_CardinalityType

LEMMA LinkKept ==
  ASSUME LinkInv, ptt' = ptt, report' = report,
         \A t \in Tracks :
           /\ status'[t] \in {"free", "trimed"} => Type(t) = "normal"
           /\ Type(t) = "top_buffer" /\ status[t] = "in_use" => status'[t] = "in_use"
           /\ status'[t] = "booked" => t \in gbtable'
  PROVE  LinkInv'
<1>1. Type(1)' = Type(1) /\ Buffered' = Buffered /\ \A t : Type(t)' = Type(t)
  BY DEF Type, Buffered
<1>2. LinksAgree'
  BY <1>1, Ends DEF LinkInv, LinksAgree, Type, Buffered
<1>3. CountRight'
  BY <1>1 DEF LinkInv, CountRight, count, Type
<1>4. QED
  BY <1>1, <1>2, <1>3 DEF LinkInv, Type

LEMMA BookLink ==
  ASSUME TypeOK, LinkInv, NEW t \in Tracks, (IsFree(t) /\ Book(t)) \/ TryTrack(t),
         ptt' = ptt, report' = report
  PROVE  LinkInv'
<1>1. CASE IsFree(t) /\ Book(t)
  <2>1. status' = [status EXCEPT ![t] = "booked"] /\ gbtable' = gbtable \cup {t}
    BY <1>1 DEF Book, Take
  <2>2. status[t] \in {"free", "trimed"}
    BY <1>1 DEF IsFree
  <2>3. QED
    BY <2>1, <2>2, LinkKept DEF LinkInv, TypeOK
<1>2. CASE GoRound
  BY <1>2, LinkKept DEF GoRound, LinkInv
<1>3. QED
  BY <1>1, <1>2 DEF TryTrack

LEMMA MoveLink ==
  ASSUME TypeOK, InstrInv, LinkInv, NEW p \in Bottoms, SearchMove(p)
  PROVE  LinkInv'
<1>1. PICK t \in NextOf(EmptyTops, current_top_buffer_track) :
        /\ ptt' = create_top_buffer(ptt, p, t)
        /\ status' = [status EXCEPT ![t] = "booked"]
        /\ report' = [report EXCEPT !.current_top_buffer_count = @ + 1]
        /\ Take(t, lba0)
  BY DEF SearchMove
<1>2. t \in Tops /\ t \in Tracks /\ status[t] \in {"free", "trimed"} /\ Type(t) = "normal"
  BY NextOfIn, EmptyTopsFree, Ends DEF IsFree, LinkInv
<1>3. p \in Tracks /\ p # t /\ status[p] = "in_use" /\ Type(p) = "normal"
  BY <1>2, MoveStart, TopOrBottom DEF SearchMove
<1>4. \A u \in Tracks : ptt'[u] =
              IF u = t THEN [tba |-> t, scp_pba |-> p, type |-> "buffered"]
              ELSE IF u = p THEN [tba |-> t, scp_pba |-> ptt[p].scp_pba, type |-> "top_buffer"]
              ELSE ptt[u]
  <2>1. ptt \in [Tracks -> Links]
    BY DEF TypeOK, Links
  <2>2. QED
    BY <1>1, <1>2, <2>1, CreateIs
<1>5. \A u \in Tracks : Type(u)' =
              IF u = t THEN "buffered" ELSE IF u = p THEN "top_buffer" ELSE Type(u)
  BY <1>4 DEF Type
<1>6. \A u \in Tracks : status'[u] = IF u = t THEN "booked" ELSE status[u]
  BY <1>1, <1>2 DEF TypeOK
<1>7. gbtable' = gbtable \cup {t}
  BY <1>1 DEF Take
<1>8. LinksAgree'
  <2> SUFFICES ASSUME NEW u \in Tops, Type(u)' = "buffered"
               PROVE  LinkedTo(u, ptt'[u].scp_pba, status', ptt')
    BY DEF LinksAgree, Buffered, Type, LinkedTo
  <2>0. u \in Tracks /\ u # p
    BY Ends, TopOrBottom
  <2>1. CASE u = t
    BY <1>2, <1>3, <1>4, <1>6, <2>1 DEF LinkedTo
  <2>2. CASE u # t
    <3> DEFINE b == ptt[u].scp_pba
    <3>1. u \in Buffered /\ ptt'[u] = ptt[u]
      BY <1>4, <1>5, <2>0, <2>2 DEF Buffered
    <3>2. b \in Bottoms /\ status[b] = "in_use" /\ Type(b) = "top_buffer" /\ ptt[b].tba = u
      BY <3>1 DEF LinkInv, LinksAgree
    <3>3. b # p /\ b # t /\ b \in Tracks
      BY <1>2, <1>3, <3>2, Ends
    <3>4. QED
      BY <1>4, <1>6, <3>1, <3>2, <3>3 DEF LinkedTo, Type
  <2>3. QED
    BY <2>1, <2>2
<1>9. CountRight'
  <2>1. Lent' = Lent \cup {p} /\ p \notin Lent
    BY <1>2, <1>3, <1>5, Ends, TopOrBottom DEF Lent
  <2>2. Cardinality(Lent') = Cardinality(Lent) + 1
    BY <2>1, LentFinite, FS_AddElement
  <2>3. Cardinality(Lent) = count /\ count < report.max_top_buffer_num
    BY ReportIs DEF LinkInv, CountRight, Lent, SearchMove, is_top_buffer_full
  <2>4. count' = count + 1 /\ report'.max_top_buffer_num = report.max_top_buffer_num
    BY <1>1, ReportIs DEF count
  <2>5. QED
    BY <2>2, <2>3, <2>4, ReportIs DEF CountRight, Lent
<1>10. QED
  BY <1>2, <1>3, <1>4, <1>5, <1>6, <1>7, <1>8, <1>9 DEF LinkInv

LEMMA MoveFullLink ==
  ASSUME TypeOK, InstrInv, LinkInv, NEW p \in Bottoms, SearchMoveFull(p)
  PROVE  LinkInv'
<1>v. PICK v \in Scps : \E r \in ScpOutcomes(v) :
        /\ ptt' = create_top_buffer(Unlinked(v), p, r.tba)
        /\ status' = [r.status EXCEPT ![r.tba] = "booked"]
        /\ Take(r.tba, r.lba0)
  BY DEF SearchMoveFull
<1>1. PICK r \in ScpOutcomes(v) :
        /\ ptt' = create_top_buffer(Unlinked(v), p, r.tba)
        /\ status' = [r.status EXCEPT ![r.tba] = "booked"]
        /\ Take(r.tba, r.lba0)
  BY <1>v
<1> DEFINE b == ptt[v].scp_pba
           c == r.tba
<1>2. /\ v \in Tops /\ Type(v) = "buffered" /\ b \in Bottoms /\ status[b] = "in_use"
      /\ Type(b) = "top_buffer" /\ ptt[b].tba = v /\ r.status = [status EXCEPT ![v] = "trimed"]
      /\ c \in Tops /\ (c # v => Type(c) = "normal" /\ status[c] = "in_use")
  <2>1. v \in Tops /\ Type(v) = "buffered" /\ b \in Bottoms /\ status[b] = "in_use"
        /\ Type(b) = "top_buffer" /\ ptt[b].tba = v
    BY ScpVictim DEF LinkedTo, Type
  <2>2. r.status = [status EXCEPT ![v] = "trimed"]
    BY ScpOutcome
  <2>3. c \in Tops /\ (c # v => Type(c) = "normal" /\ status[c] = "in_use")
    BY ScpOutcome
  <2>4. QED
    BY <2>1, <2>2, <2>3
<1>3. p \in Tracks /\ status[p] = "in_use" /\ Type(p) = "normal"
  BY MoveStart DEF SearchMoveFull
<1>d. b \in Tracks /\ v \in Tracks /\ c \in Tracks /\ p # v /\ p # c /\ p # b /\ b # v /\ b # c
  BY <1>2, <1>3, Ends, TopOrBottom
<1> HIDE DEF b, c
<1>4. \A u \in Tracks : ptt'[u] =
              IF u = c THEN [tba |-> c, scp_pba |-> p, type |-> "buffered"]
              ELSE IF u = p THEN [tba |-> c, scp_pba |-> ptt[p].scp_pba, type |-> "top_buffer"]
              ELSE IF u = v THEN [tba |-> v, scp_pba |-> 0, type |-> "normal"]
              ELSE IF u = b THEN [tba |-> 0, scp_pba |-> ptt[b].scp_pba, type |-> "normal"]
              ELSE ptt[u]
  <2>1. Unlinked(v) \in [Tracks -> Links]
        /\ \A u \in Tracks : Unlinked(v)[u] =
              IF u = v THEN [tba |-> v, scp_pba |-> 0, type |-> "normal"]
              ELSE IF u = b THEN [tba |-> 0, scp_pba |-> ptt[b].scp_pba, type |-> "normal"]
              ELSE ptt[u]
    BY <1>2, UnlinkedIs DEF b
  <2>2. \A u \in Tracks : ptt'[u] =
              IF u = c THEN [tba |-> c, scp_pba |-> p, type |-> "buffered"]
              ELSE IF u = p THEN [tba |-> c, scp_pba |-> Unlinked(v)[p].scp_pba, type |-> "top_buffer"]
              ELSE Unlinked(v)[u]
    BY <1>1, <1>2, <2>1, CreateIs DEF c
  <2>3. Unlinked(v)[p] = ptt[p]
    BY <1>3, <1>d, <2>1
  <2>4. QED
    BY <2>1, <2>2, <2>3
<1>5. \A u \in Tracks : Type(u)' =
              IF u = c THEN "buffered" ELSE IF u = p THEN "top_buffer"
              ELSE IF u \in {v, b} THEN "normal" ELSE Type(u)
  BY <1>4 DEF Type
<1>6. \A u \in Tracks : status'[u] =
              IF u = c THEN "booked" ELSE IF u = v THEN "trimed" ELSE status[u]
  BY <1>1, <1>2, <1>d DEF TypeOK, c
<1>7. gbtable' = gbtable \cup {c}
  BY <1>1 DEF Take, c
<1>8. LinksAgree'
  <2> SUFFICES ASSUME NEW u \in Tops, Type(u)' = "buffered"
               PROVE  LinkedTo(u, ptt'[u].scp_pba, status', ptt')
    BY DEF LinksAgree, Buffered, Type, LinkedTo
  <2>0. u \in Tracks /\ u # p /\ u # b
    BY <1>2, Ends, TopOrBottom
  <2>1. CASE u = c
    BY <1>2, <1>3, <1>d, <1>4, <1>6, <2>1 DEF LinkedTo
  <2>2. CASE u # c
    <3> DEFINE d == ptt[u].scp_pba
    <3>1. u \in Buffered /\ ptt'[u] = ptt[u] /\ u # v
      BY <1>4, <1>5, <2>0, <2>2 DEF Buffered
    <3>2. d \in Bottoms /\ status[d] = "in_use" /\ Type(d) = "top_buffer" /\ ptt[d].tba = u
      BY <3>1 DEF LinkInv, LinksAgree
    <3>3. d # p /\ d # b /\ d \in Tracks /\ d # v /\ d # c
      BY <1>2, <1>3, <3>1, <3>2, Ends, TopOrBottom
    <3>4. QED
      BY <1>4, <1>6, <3>1, <3>2, <3>3 DEF LinkedTo, Type
  <2>3. QED
    BY <2>1, <2>2
<1>9. CountRight'
  <2>1. Lent' = (Lent \ {b}) \cup {p} /\ p \notin Lent /\ b \in Lent
    BY <1>2, <1>3, <1>d, <1>5, Ends, TopOrBottom DEF Lent
  <2>2. Cardinality(Lent') = Cardinality(Lent \ {b}) + 1 /\ Cardinality(Lent \ {b}) = Cardinality(Lent) - 1
    BY <2>1, LentFinite, FS_AddElement, FS_RemoveElement
  <2>3. Cardinality(Lent') = Cardinality(Lent)
    BY <2>2, LentFinite
  <2>4. report' = report
    BY DEF SearchMoveFull
  <2>5. QED
    BY <2>3, <2>4 DEF LinkInv, CountRight, Lent, count
<1>10. QED
  BY <1>2, <1>3, <1>d, <1>4, <1>5, <1>6, <1>7, <1>8, <1>9 DEF LinkInv

LEMMA GiveUpLink ==
  ASSUME TypeOK, LinkInv, AllocGiveUpBuffer
  PROVE  LinkInv'
<1>v. PICK v \in Scps : \E r \in ScpOutcomes(v) : status' = r.status /\ ptt' = Unlinked(v)
  BY DEF AllocGiveUpBuffer
<1>1. PICK r \in ScpOutcomes(v) : status' = r.status /\ ptt' = Unlinked(v)
  BY <1>v
<1> DEFINE b == ptt[v].scp_pba
<1>2. v \in Tops /\ v \in Tracks /\ b \in Bottoms /\ b \in Tracks /\ b # v
      /\ status[b] = "in_use" /\ Type(b) = "top_buffer" /\ ptt[b].tba = v /\ count > 0
  BY ScpVictim DEF LinkedTo, Type
<1>3. \A u \in Tracks : status'[u] = IF u = v THEN "trimed" ELSE status[u]
  <2>1. r.status = [status EXCEPT ![v] = "trimed"]
    BY ScpOutcome
  <2>2. QED
    BY <1>1, <1>2, <2>1 DEF TypeOK
<1>4. \A u \in Tracks : ptt'[u] =
              IF u = v THEN [tba |-> v, scp_pba |-> 0, type |-> "normal"]
              ELSE IF u = b THEN [tba |-> 0, scp_pba |-> ptt[b].scp_pba, type |-> "normal"]
              ELSE ptt[u]
  BY <1>1, <1>2, UnlinkedIs
<1> HIDE DEF b
<1>5. \A u \in Tracks : Type(u)' = IF u \in {v, b} THEN "normal" ELSE Type(u)
  BY <1>4 DEF Type
<1>6. gbtable' = gbtable
  BY DEF AllocGiveUpBuffer
<1>7. LinksAgree'
  <2> SUFFICES ASSUME NEW u \in Tops, Type(u)' = "buffered"
               PROVE  LinkedTo(u, ptt'[u].scp_pba, status', ptt')
    BY DEF LinksAgree, Buffered, Type, LinkedTo
  <2> DEFINE d == ptt[u].scp_pba
  <2>1. u \in Tracks /\ u # v /\ u # b
    BY <1>2, <1>5, Ends, TopOrBottom
  <2>2. u \in Buffered /\ ptt'[u] = ptt[u]
    BY <1>4, <1>5, <2>1 DEF Buffered
  <2>3. d \in Bottoms /\ status[d] = "in_use" /\ Type(d) = "top_buffer" /\ ptt[d].tba = u
    BY <2>2 DEF LinkInv, LinksAgree
  <2>4. d # b /\ d \in Tracks /\ d # v
    BY <1>2, <2>1, <2>3, Ends, TopOrBottom
  <2>5. QED
    BY <1>3, <1>4, <2>2, <2>3, <2>4 DEF LinkedTo, Type
<1>8. CountRight'
  <2>1. Lent' = Lent \ {b} /\ b \in Lent
    BY <1>2, <1>5, Ends, TopOrBottom DEF Lent
  <2>2. Cardinality(Lent') = Cardinality(Lent) - 1
    BY <2>1, LentFinite, FS_RemoveElement
  <2>3. Cardinality(Lent) = count /\ count <= report.max_top_buffer_num
    BY DEF LinkInv, CountRight, Lent
  <2>4. count' = count - 1 /\ report'.max_top_buffer_num = report.max_top_buffer_num - 1
    BY DEF AllocGiveUpBuffer, count
  <2>5. QED
    BY <2>2, <2>3, <2>4, ReportIs DEF CountRight, Lent
<1>9. QED
  BY <1>2, <1>3, <1>4, <1>5, <1>6, <1>7, <1>8 DEF LinkInv

(* Deleting a file never touches the bottom track of a link. *)
LEMMA Deleted ==
  ASSUME TypeOK, LinkInv, NEW f
  PROVE  \A t \in TracksOf(f) : t \in Tracks /\ Type(t) # "top_buffer"
<1> SUFFICES ASSUME NEW l \in BlocksOf(f)
             PROVE  lba_to_tba(l) \in Tracks /\ Type(lba_to_tba(l)) # "top_buffer"
  BY DEF TracksOf
<1> DEFINE p == ltp[l].pba
<1>1. p \in Tracks /\ ptt[p] \in [tba : Tracks, scp_pba : Tracks, type : Types]
  BY DEF BlocksOf, TypeOK
<1>2. CASE Type(p) = "normal"
  BY <1>1, <1>2 DEF lba_to_tba
<1>3. CASE Type(p) # "normal"
  <2>1. ptt[p].tba \in Tops
    BY <1>1, <1>3 DEF LinkInv, Types, Type
  <2>2. Type(ptt[p].tba) # "top_buffer"
    BY <2>1, Ends, TopOrBottom DEF LinkInv
  <2>3. QED
    BY <1>3, <2>1, <2>2, Ends DEF lba_to_tba
<1>4. QED
  BY <1>2, <1>3

LEMMA DeleteLink ==
  ASSUME TypeOK, LinkInv, NEW f \in Fids, Delete(f)
  PROVE  LinkInv'
<1> DEFINE D == TracksOf(f)
<1>1. \A t \in D : t \in Tracks /\ Type(t) # "top_buffer"
  BY Deleted
<1>2. \A t \in Tracks : status'[t] = IF t \in D THEN "trimed" ELSE status[t]
  BY DEF Delete
<1>3. \A t \in Tracks : t \notin D => ptt'[t] = ptt[t]
  BY DEF Delete
<1>4. \A t \in Tracks : t \in D => ptt'[t].type = "normal"
  <2>1. \A t \in Tracks : "type" \in DOMAIN ptt[t]
    BY DEF TypeOK
  <2>2. QED
    BY <2>1 DEF Delete
<1>5. gbtable' = gbtable /\ report' = report
  BY DEF Delete
<1> HIDE DEF D
<1>6. \A t \in Tracks : Type(t)' = IF t \in D THEN "normal" ELSE Type(t)
  BY <1>3, <1>4 DEF Type
<1>7. LinksAgree'
  <2> SUFFICES ASSUME NEW u \in Tops, Type(u)' = "buffered"
               PROVE  LinkedTo(u, ptt'[u].scp_pba, status', ptt')
    BY DEF LinksAgree, Buffered, Type, LinkedTo
  <2> DEFINE b == ptt[u].scp_pba
  <2>1. u \in Tracks /\ u \notin D /\ u \in Buffered /\ ptt'[u] = ptt[u]
    BY <1>3, <1>6, Ends DEF Buffered
  <2>2. b \in Bottoms /\ status[b] = "in_use" /\ Type(b) = "top_buffer" /\ ptt[b].tba = u
    BY <2>1 DEF LinkInv, LinksAgree
  <2>3. b \in Tracks /\ b \notin D
    BY <1>1, <2>2, Ends
  <2>4. QED
    BY <1>2, <1>3, <2>1, <2>2, <2>3 DEF LinkedTo, Type
<1>8. CountRight'
  <2>1. Lent' = Lent
    BY <1>1, <1>6, Ends DEF Lent
  <2>2. QED
    BY <1>5, <2>1 DEF LinkInv, CountRight, Lent, count
<1>9. QED
  BY <1>2, <1>3, <1>5, <1>6, <1>7, <1>8 DEF LinkInv

LEMMA NextLink ==
  ASSUME TypeOK, PhaseInv, InstrInv, LinkInv, [Next]_vars
  PROVE  LinkInv'
<1>k. ASSUME ptt' = ptt, report' = report, status' = status, gbtable \subseteq gbtable'
      PROVE  LinkInv'
  BY <1>k, LinkKept DEF LinkInv
<1>1. CASE (\E l \in LBAs, n \in 1 .. MaxBlocks, f \in Fids : StartWrite(l, n, f))
           \/ (\E f \in Fids : DeleteStops(f)) \/ UNCHANGED vars
  BY <1>1, <1>k DEF StartWrite, DeleteStops, vars
<1>2. CASE \E f \in Fids : Delete(f)
  BY <1>2, DeleteLink
<1>3. CASE Flush
  <2>1. \A t \in Tracks : status'[t] = IF t \in gbtable THEN "in_use" ELSE status[t]
    BY <1>3 DEF Flush
  <2>2. ptt' = ptt /\ report' = report
    BY <1>3 DEF Flush
  <2>3. QED
    BY <2>1, <2>2, LinkKept DEF LinkInv
<1>4. CASE Search
  <2>1. CASE SearchForeign \/ SearchNew \/ SearchBuffered \/ SearchInPlace
             \/ \E p \in Bottoms : SearchNoFreeTop(p) \/ SearchMoveStops(p)
    BY <1>k, <2>1 DEF SearchForeign, SearchNew, SearchBuffered, SearchInPlace,
      SearchNoFreeTop, SearchMoveStops, ScpStops, Take
  <2>2. QED
    BY <1>4, <2>1, MoveLink, MoveFullLink DEF Search
<1>5. CASE Alloc
  <2>1. CASE AllocStops \/ AllocDiskFull
    BY <1>k, <2>1 DEF AllocStops, ScpStops, AllocDiskFull
  <2>2. CASE AllocPhase1 \/ AllocPhase2 \/ AllocPhase3 \/ AllocPhase3Trigger
    <3>1. ptt' = ptt /\ report' = report /\ \E t \in Tracks : TryTrack(t)
      BY <2>2, TrackTried, Ends
        DEF AllocPhase1, AllocPhase2, AllocPhase3, AllocPhase3Trigger, Allocating
    <3>2. QED
      BY <3>1, BookLink
  <2>3. CASE AllocPhase1Full
    <3>1. ptt' = ptt /\ report' = report /\ zinfo.current_track \in Tracks
      BY <2>3, TrackTried, Ends DEF AllocPhase1Full, Allocating
    <3>2. \E t \in Tracks : (IsFree(t) /\ Book(t)) \/ TryTrack(t)
      BY <2>3, <3>1 DEF AllocPhase1Full, FirstOf, EveryOther
    <3>3. QED
      BY <3>1, <3>2, BookLink
  <2>4. QED
    BY <1>5, <2>1, <2>2, <2>3, GiveUpLink DEF Alloc
<1>6. QED
  BY <1>1, <1>2, <1>3, <1>4, <1>5 DEF Next, DeleteFile, Progress

-----------------------------------------------------------------------------
(* Every block is at home.                                                 *)

LEMMA HomeKept ==
  ASSUME HomeInv, ltp' = ltp, ptt' = ptt, lba0' = lba0,
         \A t \in Tracks : status[t] \in {"booked", "in_use"} => status'[t] \in {"booked", "in_use"},
         TypeOK, pc' = "alloc" => pc = "alloc" /\ Target' = Target
  PROVE  HomeInv'
<1>1. Buffered' = Buffered
  BY DEF Buffered, Type
<1>2. ASSUME NEW l \in LBAs, HomeIs(l, ltp[l].pba, ptt, lba0, status)
      PROVE  HomeIs(l, ltp[l].pba, ptt, lba0, status')
  BY <1>2 DEF HomeIs, TypeOK
<1>3. QED
  BY <1>1, <1>2 DEF HomeInv

LEMMA Unowned == ASSUME TypeOK, NEW t \in Tracks, NEW l, lba0[t] = l PROVE [lba0 EXCEPT ![t] = l] = lba0
  BY DEF TypeOK

LEMMA SearchNewHome ==
  ASSUME TypeOK, LinkInv, HomeInv, SearchNew
  PROVE  HomeInv'
<1>1. Buffered' = Buffered /\ Target' = Target
  BY DEF SearchNew, Buffered, Type, Target
<1>2. ASSUME NEW t \in Buffered, lba0[t] = Target PROVE FALSE
  <2>1. ltp[Target].valid /\ ltp[Target].pba = ptt[t].scp_pba
    BY <1>2 DEF HomeInv, Buffers
  <2>2. status[ptt[t].scp_pba] = "in_use"
    BY DEF LinkInv, LinksAgree
  <2>3. QED
    BY <2>1, <2>2 DEF SearchNew, Present
<1>3. QED
  BY <1>1, <1>2 DEF SearchNew, HomeInv

(* A block written in place, or to its buffer, is told the track it has. *)
LEMMA InPlace ==
  ASSUME TypeOK, InstrInv, HomeInv, SearchBuffered \/ SearchInPlace
  PROVE  UNCHANGED <<status, lba0, ltp, ptt, zinfo, flags>> /\ pc' # "alloc"
<1> DEFINE p == ltp[Target].pba
<1>1. p \in Tracks /\ ptt[p].tba \in Tracks /\ Target \in LBAs /\ ltp[Target].valid
  BY TargetIn DEF TypeOK, SearchBuffered, SearchInPlace, Present
<1>2. UNCHANGED <<status, ltp, ptt, zinfo, flags>> /\ pc' # "alloc"
  BY DEF SearchBuffered, SearchInPlace, Take, NextBlock
<1>3. HomeIs(Target, p, ptt, lba0, status)
  BY <1>1 DEF HomeInv
<1>4. CASE SearchBuffered
  <2>1. lba0[ptt[p].tba] = Target
    BY <1>3, <1>4 DEF SearchBuffered, HomeIs, Type
  <2>2. QED
    BY <1>1, <1>2, <1>4, <2>1, Unowned DEF SearchBuffered, Take
<1>5. CASE SearchInPlace
  BY <1>1, <1>2, <1>3, <1>5, Unowned DEF SearchInPlace, HomeIs, Take
<1>6. QED
  BY <1>4, <1>5

LEMMA TakeHome ==
  ASSUME TypeOK, InstrInv, HomeInv, SearchBuffered \/ SearchInPlace
  PROVE  HomeInv'
  BY InPlace, HomeKept

LEMMA BookHome ==
  ASSUME TypeOK, InstrInv, LinkInv, HomeInv, NEW t \in Tracks, pc = "alloc",
         (IsFree(t) /\ Book(t)) \/ TryTrack(t), ptt' = ptt
  PROVE  HomeInv'
<1>1. CASE GoRound
  BY <1>1, HomeKept DEF GoRound, Target
<1>2. CASE IsFree(t) /\ Book(t)
  <2>1. status[t] \in {"free", "trimed"} /\ Type(t) = "normal"
    BY <1>2 DEF IsFree, LinkInv
  <2>2. Target \in LBAs
    BY TargetIn
  <2>3. \A u \in Tracks : /\ status'[u] = IF u = t THEN "booked" ELSE status[u]
                          /\ lba0'[u] = IF u = t THEN Target ELSE lba0[u]
    BY <1>2 DEF Book, Take, TypeOK
  <2>4. \A l \in LBAs : ltp'[l] = IF l = Target THEN [pba |-> t, fid |-> cur.fid, valid |-> TRUE] ELSE ltp[l]
    BY <1>2 DEF Book, TypeOK
  <2>5. pc' # "alloc"
    BY <1>2 DEF Book, Take, NextBlock
  <2>6. ASSUME NEW l \in LBAs, ltp'[l].valid
        PROVE  HomeIs(l, ltp'[l].pba, ptt, lba0', status')
    <3>1. CASE l = Target
      BY <2>1, <2>3, <2>4, <3>1 DEF HomeIs, Type
    <3>2. CASE l # Target
      <4> DEFINE q == ltp[l].pba
      <4>1. ltp'[l] = ltp[l] /\ HomeIs(l, q, ptt, lba0, status) /\ q \in Tracks /\ ptt[q].tba \in Tracks
        BY <2>4, <2>6, <3>2 DEF HomeInv, TypeOK
      <4>2. q # t /\ (ptt[q].type = "top_buffer" => ptt[q].tba # t)
        BY <2>1, <4>1 DEF HomeIs, Type
      <4>3. QED
        BY <2>3, <4>1, <4>2 DEF HomeIs
    <3>3. QED
      BY <3>1, <3>2
  <2>7. ASSUME NEW u \in Buffered PROVE Buffers(u, ptt, lba0', ltp')
    <3>1. u \in Tracks /\ u # t /\ lba0[u] # Target /\ lba0[u] \in LBAs /\ Buffers(u, ptt, lba0, ltp)
      BY <2>1, <2>7, Ends DEF Buffered, HomeInv, TypeOK
    <3>2. QED
      BY <2>3, <2>4, <3>1 DEF Buffers
  <2>8. Buffered' = Buffered
    BY DEF Buffered, Type
  <2>9. QED
    BY <2>5, <2>6, <2>7, <2>8 DEF HomeInv
<1>3. QED
  BY <1>1, <1>2 DEF TryTrack

LEMMA MoveHome ==
  ASSUME TypeOK, InstrInv, LinkInv, HomeInv, NEW p \in Bottoms, SearchMove(p)
  PROVE  HomeInv'
<1>1. PICK t \in NextOf(EmptyTops, current_top_buffer_track) :
        /\ ptt' = create_top_buffer(ptt, p, t)
        /\ status' = [status EXCEPT ![t] = "booked"]
        /\ Take(t, lba0)
  BY DEF SearchMove
<1>2. t \in Tops /\ t \in Tracks /\ status[t] \in {"free", "trimed"} /\ Type(t) = "normal"
  BY NextOfIn, EmptyTopsFree, Ends DEF IsFree, LinkInv
<1>3. p \in Tracks /\ p # t /\ Type(p) = "normal" /\ p = ltp[Target].pba /\ ltp[Target].valid
      /\ Target \in LBAs
  BY <1>2, MoveStart, TopOrBottom, TargetIn DEF SearchMove
<1>4. \A u \in Tracks : ptt'[u] =
              IF u = t THEN [tba |-> t, scp_pba |-> p, type |-> "buffered"]
              ELSE IF u = p THEN [tba |-> t, scp_pba |-> ptt[p].scp_pba, type |-> "top_buffer"]
              ELSE ptt[u]
  <2>1. ptt \in [Tracks -> Links]
    BY DEF TypeOK, Links
  <2>2. QED
    BY <1>1, <1>2, <2>1, CreateIs
<1>5. \A u \in Tracks : /\ status'[u] = IF u = t THEN "booked" ELSE status[u]
                        /\ lba0'[u] = IF u = t THEN Target ELSE lba0[u]
  BY <1>1, <1>2 DEF TypeOK, Take
<1>6. ltp' = ltp /\ pc' # "alloc"
  BY <1>1 DEF SearchMove, Take, NextBlock
<1>7. ASSUME NEW l \in LBAs, ltp[l].valid
      PROVE  HomeIs(l, ltp[l].pba, ptt', lba0', status')
  <2> DEFINE q == ltp[l].pba
  <2>1. HomeIs(l, q, ptt, lba0, status) /\ q \in Tracks /\ ptt[q].tba \in Tracks
    BY <1>7 DEF HomeInv, TypeOK
  <2>2. q # t /\ (ptt[q].type = "top_buffer" => ptt[q].tba # t /\ ptt[q].tba # p)
    BY <1>2, <1>3, <2>1 DEF HomeIs, Type
  <2>3. CASE l = Target
    BY <1>2, <1>3, <1>4, <1>5, <2>1, <2>3 DEF HomeIs
  <2>4. CASE l # Target
    <3>1. q # p
      BY <1>3, <1>7, <2>1, <2>4 DEF HomeInv, HomeIs
    <3>2. QED
      BY <1>4, <1>5, <2>1, <2>2, <3>1 DEF HomeIs
  <2>5. QED
    BY <2>3, <2>4
<1>8. ASSUME NEW u \in Tops, ptt'[u].type = "buffered"
      PROVE  Buffers(u, ptt', lba0', ltp)
  <2>1. u \in Tracks /\ u # p
    BY Ends, TopOrBottom
  <2>2. CASE u = t
    BY <1>2, <1>3, <1>4, <1>5, <2>2 DEF Buffers
  <2>3. CASE u # t
    <3>1. u \in Buffered /\ Buffers(u, ptt, lba0, ltp)
      BY <1>4, <1>8, <2>1, <2>3 DEF Buffered, Type, HomeInv
    <3>2. QED
      BY <1>4, <1>5, <2>1, <2>3, <3>1 DEF Buffers
  <2>4. QED
    BY <2>2, <2>3
<1>9. QED
  BY <1>6, <1>7, <1>8 DEF HomeInv, Buffered, Type

(* Entries of ltp are told apart by their fields. *)
LEMMA RedirectIs ==
  ASSUME NEW f \in [LBAs -> LogicalEntries], NEW l \in LBAs, NEW p \in Tracks
  PROVE  /\ [f EXCEPT ![l].pba = p] \in [LBAs -> LogicalEntries]
         /\ \A k \in LBAs : LET e == [f EXCEPT ![l].pba = p][k] IN
              /\ e.pba = IF k = l THEN p ELSE f[k].pba
              /\ e.valid = f[k].valid /\ e.fid = f[k].fid
<1>1. [f[l] EXCEPT !.pba = p] \in LogicalEntries
      /\ [f[l] EXCEPT !.pba = p].pba = p
      /\ [f[l] EXCEPT !.pba = p].valid = f[l].valid /\ [f[l] EXCEPT !.pba = p].fid = f[l].fid
  <2> DEFINE e == f[l]
  <2>1. e \in LogicalEntries
    OBVIOUS
  <2> HIDE DEF e
  <2>2. [e EXCEPT !.pba = p] \in LogicalEntries /\ [e EXCEPT !.pba = p].pba = p
        /\ [e EXCEPT !.pba = p].valid = e.valid /\ [e EXCEPT !.pba = p].fid = e.fid
    BY <2>1 DEF LogicalEntries
  <2>3. QED
    BY <2>2 DEF e
<1> DEFINE x == [f[l] EXCEPT !.pba = p]
<1> HIDE DEF x
<1>2. [f EXCEPT ![l].pba = p] = [f EXCEPT ![l] = x]
  BY DEF x
<1>3. x \in LogicalEntries /\ x.pba = p /\ x.valid = f[l].valid /\ x.fid = f[l].fid
  BY <1>1 DEF x
<1>4. QED
  BY <1>2, <1>3

LEMMA SameMap ==
  ASSUME NEW f \in [LBAs -> LogicalEntries], NEW g \in [LBAs -> LogicalEntries],
         \A k \in LBAs : g[k].pba = f[k].pba /\ g[k].valid = f[k].valid /\ g[k].fid = f[k].fid
  PROVE  g = f
<1>1. ASSUME NEW k \in LBAs PROVE g[k] = f[k]
  <2>1. ASSUME NEW x \in LogicalEntries, NEW y \in LogicalEntries,
               x.pba = y.pba, x.valid = y.valid, x.fid = y.fid
        PROVE  x = y
    BY <2>1 DEF LogicalEntries
  <2>2. QED
    BY <2>1
<1>2. QED
  BY <1>1

(* The bottom track of v and the cold track c have traded blocks: each of    *)
(* the two entries leads to the track that is told its block.                *)
Exchanged(v, c, map, owners) ==
  LET b == ptt[v].scp_pba IN
  /\ c \in Tops /\ c # v /\ Type(c) = "normal" /\ status[c] = "in_use"
  /\ \A t \in Tracks : owners[t] = IF t = b THEN lba0[c] ELSE IF t = c THEN lba0[v] ELSE lba0[t]
  /\ \A l \in LBAs : /\ map[l].valid = ltp[l].valid
                     /\ map[l].pba = IF l = lba0[v] THEN c ELSE IF l = lba0[c] THEN b ELSE ltp[l].pba

(* A buffered track, the bottom track it buffers and the cold tracks: which  *)
(* blocks they are told, and where the entries of these lead.                *)
LEMMA BackIs ==
  ASSUME TypeOK, LinkInv, HomeInv, NEW v \in Scps, NEW b, b = ptt[v].scp_pba
  PROVE  /\ v \in Buffered /\ lba0[v] \in LBAs /\ ltp[lba0[v]].valid /\ ltp[lba0[v]].pba = b
         /\ b \in Tracks /\ lba0[b] = lba0[v] /\ (pc = "alloc" => lba0[v] # Target)
         /\ [ltp EXCEPT ![lba0[v]].pba = b] = ltp /\ [status EXCEPT ![b] = "in_use"] = status
<1>1. v \in Buffered /\ v \in Tracks /\ b \in Tracks /\ status[b] = "in_use"
  BY ScpVictim DEF Buffered, LinkedTo
<1>2. lba0[v] \in LBAs /\ ltp[lba0[v]].valid /\ ltp[lba0[v]].pba = b
      /\ (pc = "alloc" => lba0[v] # Target)
  BY <1>1 DEF HomeInv, Buffers, TypeOK
<1>3. lba0[b] = lba0[v]
  BY <1>2 DEF HomeInv, HomeIs
<1>4. [ltp EXCEPT ![lba0[v]].pba = b] = ltp
  <2>1. ltp \in [LBAs -> LogicalEntries]
    BY DEF TypeOK, LogicalEntries
  <2> DEFINE g == [ltp EXCEPT ![lba0[v]].pba = b]
  <2>2. g \in [LBAs -> LogicalEntries]
        /\ \A k \in LBAs : /\ g[k].pba = IF k = lba0[v] THEN b ELSE ltp[k].pba
                           /\ g[k].valid = ltp[k].valid /\ g[k].fid = ltp[k].fid
    BY <1>1, <1>2, <2>1, RedirectIs
  <2> HIDE DEF g
  <2>3. g = ltp
    BY <1>2, <2>1, <2>2, SameMap
  <2>4. QED
    BY <2>3 DEF g
<1>5. [status EXCEPT ![b] = "in_use"] = status
  BY <1>1 DEF TypeOK
<1>6. QED
  BY <1>1, <1>2, <1>3, <1>4, <1>5

(* What writing a buffered track back does to the blocks: nothing, or it     *)
(* exchanges two of them.                                                    *)
AtHome(v, r) == r.tba = v /\ r.lba0 = lba0 /\ r.ltp = ltp

LEMMA ScpHome ==
  ASSUME TypeOK, LinkInv, HomeInv, ColdInv, NEW v \in Scps, NEW r \in ScpOutcomes(v)
  PROVE  AtHome(v, r) \/ (initialized /\ \E c \in Tops : Exchanged(v, c, r.ltp, r.lba0))
<1> DEFINE b == ptt[v].scp_pba
<1>1. v \in Tops /\ v \in Tracks /\ b \in Bottoms /\ b \in Tracks /\ b # v
  BY ScpVictim DEF LinkedTo
<1> HIDE DEF b
<1>b. b = ptt[v].scp_pba
  BY DEF b
<1>2. /\ v \in Buffered /\ lba0[v] \in LBAs /\ ltp[lba0[v]].pba = b /\ lba0[b] = lba0[v]
      /\ [ltp EXCEPT ![lba0[v]].pba = b] = ltp /\ [status EXCEPT ![b] = "in_use"] = status
  BY <1>b, BackIs
<1>t. ltp \in [LBAs -> LogicalEntries] /\ lba0 \in [Tracks -> LBAs]
  BY DEF TypeOK, LogicalEntries
<1> DEFINE plain == [tba |-> v, ltp |-> ltp, lba0 |-> lba0, status |-> [status EXCEPT ![v] = "trimed"]]
           map(c) == [[ltp EXCEPT ![lba0[b]].pba = c] EXCEPT ![lba0[c]].pba = b]
           swapped(c) == [tba |-> c, lba0 |-> Trade(lba0, b, c), ltp |-> map(c),
                          status |-> [Trade(status, b, c) EXCEPT ![v] = "trimed"]]
<1>3. r = plain \/ (initialized /\ \E c \in ColdTops(v) : r = swapped(c))
  <2> DEFINE back == [ltp EXCEPT ![lba0[v]].pba = b]
             written == [status EXCEPT ![b] = "in_use"]
             plain0 == [tba |-> v, ltp |-> back, lba0 |-> lba0, status |-> [written EXCEPT ![v] = "trimed"]]
             swapped0(c) == [tba |-> c, lba0 |-> Trade(lba0, b, c),
                             ltp |-> [[back EXCEPT ![lba0[b]].pba = c] EXCEPT ![lba0[c]].pba = b],
                             status |-> [Trade(written, b, c) EXCEPT ![v] = "trimed"]]
  <2>1. r \in {plain0} \cup (IF initialized THEN {swapped0(c) : c \in ColdTops(v)} ELSE {})
    BY <1>b DEF ScpOutcomes
  <2>2. back = ltp /\ written = status
    BY <1>2
  <2> HIDE DEF back, written
  <2>3. plain0 = plain /\ \A c : swapped0(c) = swapped(c)
    BY <2>2
  <2> HIDE DEF plain, swapped, plain0, swapped0, map
  <2>4. QED
    BY <2>1, <2>3
<1>4. CASE r = plain
  BY <1>4 DEF AtHome
<1>5. ASSUME initialized, NEW c \in ColdTops(v), r = swapped(c)
      PROVE  AtHome(v, r) \/ Exchanged(v, c, r.ltp, r.lba0)
  <2> DEFINE one == [ltp EXCEPT ![lba0[b]].pba = c]
  <2>1. c \in Tops /\ c \in Tracks /\ status[c] = "in_use" /\ (c # v => Type(c) = "normal")
    BY Ends DEF ColdTops
  <2>2. lba0[b] \in LBAs /\ lba0[c] \in LBAs
    BY <1>1, <1>t, <2>1
  <2>3. one \in [LBAs -> LogicalEntries]
        /\ \A k \in LBAs : /\ one[k].pba = IF k = lba0[b] THEN c ELSE ltp[k].pba
                           /\ one[k].valid = ltp[k].valid /\ one[k].fid = ltp[k].fid
    BY <1>t, <2>1, <2>2, RedirectIs
  <2> HIDE DEF one
  <2>4. map(c) \in [LBAs -> LogicalEntries]
        /\ \A k \in LBAs : /\ map(c)[k].pba = IF k = lba0[c] THEN b ELSE one[k].pba
                           /\ map(c)[k].valid = one[k].valid /\ map(c)[k].fid = one[k].fid
    <3>1. map(c) = [one EXCEPT ![lba0[c]].pba = b]
      BY DEF one
    <3> HIDE DEF map
    <3>2. QED
      BY <1>1, <2>2, <2>3, <3>1, RedirectIs
  <2>5. r.tba = c /\ r.lba0 = Trade(lba0, b, c) /\ r.ltp = map(c)
    BY <1>5
  <2> HIDE DEF map, swapped, plain
  <2>6. CASE c = v
    <3>1. r.lba0 = lba0
      BY <1>1, <1>2, <1>t, <2>5, <2>6 DEF Trade
    <3>2. \A k \in LBAs : /\ map(c)[k].pba = ltp[k].pba
                          /\ map(c)[k].valid = ltp[k].valid /\ map(c)[k].fid = ltp[k].fid
      BY <1>2, <2>3, <2>4, <2>6
    <3>3. map(c) = ltp
      BY <1>t, <2>4, <3>2, SameMap
    <3>4. QED
      BY <2>5, <2>6, <3>1, <3>3 DEF AtHome
  <2>7. CASE c # v
    <3>1. Type(c) = "normal" /\ ltp[lba0[c]].pba = c /\ c # b
      BY <1>1, <2>1, <2>7, TopOrBottom DEF ColdInv, Used
    <3>2. lba0[c] # lba0[v]
      BY <1>2, <3>1
    <3>3. \A t \in Tracks : r.lba0[t] = IF t = b THEN lba0[c] ELSE IF t = c THEN lba0[v] ELSE lba0[t]
      BY <1>1, <1>2, <1>t, <2>1, <2>5, <3>1 DEF Trade
    <3>4. \A l \in LBAs : /\ r.ltp[l].valid = ltp[l].valid
                          /\ r.ltp[l].pba = IF l = lba0[v] THEN c ELSE IF l = lba0[c] THEN b ELSE ltp[l].pba
      BY <1>2, <2>3, <2>4, <2>5, <3>2
    <3>5. QED
      BY <2>1, <2>7, <3>1, <3>3, <3>4, <1>b DEF Exchanged
  <2>8. QED
    BY <2>6, <2>7
<1>6. QED
  <2>1. \A c \in ColdTops(v) : c \in Tops
    BY DEF ColdTops
  <2> HIDE DEF plain, swapped
  <2>2. QED
    BY <1>3, <1>4, <1>5, <2>1

(* The buffer is closed before block swapping begins, so a move to a full    *)
(* buffer takes over the very track that was written back.                   *)
LEMMA MoveFullBack ==
  ASSUME TypeOK, LinkInv, HomeInv, ColdInv, NEW p \in Bottoms, SearchMoveFull(p)
  PROVE  \E v \in Scps :
           /\ ltp' = ltp /\ ptt' = create_top_buffer(Unlinked(v), p, v) /\ Take(v, lba0)
           /\ status' = [[status EXCEPT ![v] = "trimed"] EXCEPT ![v] = "booked"]
<1>v. PICK v \in Scps : \E r \in ScpOutcomes(v) :
        /\ ltp' = r.ltp
        /\ ptt' = create_top_buffer(Unlinked(v), p, r.tba)
        /\ status' = [r.status EXCEPT ![r.tba] = "booked"]
        /\ Take(r.tba, r.lba0)
  BY DEF SearchMoveFull
<1>r. PICK r \in ScpOutcomes(v) :
        /\ ltp' = r.ltp
        /\ ptt' = create_top_buffer(Unlinked(v), p, r.tba)
        /\ status' = [r.status EXCEPT ![r.tba] = "booked"]
        /\ Take(r.tba, r.lba0)
  BY <1>v
<1>1. ~initialized
  BY DEF SearchMoveFull, SearchMoves, NeedsBuffer, ColdInv
<1>2. AtHome(v, r) /\ r.status = [status EXCEPT ![v] = "trimed"]
  BY <1>1, ScpHome, ScpOutcome
<1>3. QED
  BY <1>r, <1>2 DEF AtHome

LEMMA MoveFullHome ==
  ASSUME TypeOK, InstrInv, LinkInv, HomeInv, ColdInv, NEW p \in Bottoms, SearchMoveFull(p)
  PROVE  HomeInv'
<1>1. PICK v \in Scps :
        /\ ltp' = ltp /\ ptt' = create_top_buffer(Unlinked(v), p, v) /\ Take(v, lba0)
        /\ status' = [[status EXCEPT ![v] = "trimed"] EXCEPT ![v] = "booked"]
  BY MoveFullBack
<1> DEFINE b == ptt[v].scp_pba
<1>2. v \in Tops /\ v \in Tracks /\ b \in Bottoms /\ b \in Tracks /\ b # v
      /\ status[b] = "in_use" /\ Type(b) = "top_buffer" /\ ptt[b].tba = v /\ Type(v) = "buffered"
  BY ScpVictim DEF LinkedTo, Type
<1>3. p \in Tracks /\ p # v /\ p # b /\ Type(p) = "normal" /\ p = ltp[Target].pba /\ ltp[Target].valid
      /\ Target \in LBAs
  BY <1>2, MoveStart, TopOrBottom, TargetIn DEF SearchMoveFull
<1>4. \A u \in Tracks : ptt'[u] =
              IF u = v THEN [tba |-> v, scp_pba |-> p, type |-> "buffered"]
              ELSE IF u = p THEN [tba |-> v, scp_pba |-> ptt[p].scp_pba, type |-> "top_buffer"]
              ELSE IF u = b THEN [tba |-> 0, scp_pba |-> ptt[b].scp_pba, type |-> "normal"]
              ELSE ptt[u]
  <2>1. Unlinked(v) \in [Tracks -> Links]
        /\ \A u \in Tracks : Unlinked(v)[u] =
              IF u = v THEN [tba |-> v, scp_pba |-> 0, type |-> "normal"]
              ELSE IF u = b THEN [tba |-> 0, scp_pba |-> ptt[b].scp_pba, type |-> "normal"]
              ELSE ptt[u]
    BY <1>2, UnlinkedIs
  <2>2. \A u \in Tracks : ptt'[u] =
              IF u = v THEN [tba |-> v, scp_pba |-> p, type |-> "buffered"]
              ELSE IF u = p THEN [tba |-> v, scp_pba |-> Unlinked(v)[p].scp_pba, type |-> "top_buffer"]
              ELSE Unlinked(v)[u]
    BY <1>1, <1>2, <2>1, CreateIs
  <2>3. Unlinked(v)[p] = ptt[p]
    BY <1>3, <2>1
  <2>4. QED
    BY <2>1, <2>2, <2>3
<1>5. \A u \in Tracks : /\ status'[u] = IF u = v THEN "booked" ELSE status[u]
                        /\ lba0'[u] = IF u = v THEN Target ELSE lba0[u]
  BY <1>1, <1>2 DEF TypeOK, Take
<1>6. pc' # "alloc"
  BY <1>1 DEF Take, NextBlock
<1> HIDE DEF b
<1>7. ASSUME NEW l \in LBAs, ltp[l].valid
      PROVE  HomeIs(l, ltp[l].pba, ptt', lba0', status')
  <2> DEFINE q == ltp[l].pba
  <2>1. HomeIs(l, q, ptt, lba0, status) /\ q \in Tracks /\ ptt[q].tba \in Tracks
    BY <1>7 DEF HomeInv, TypeOK
  <2>2. q # v /\ (q # b /\ ptt[q].type = "top_buffer" =>
                    ptt[q].tba # v /\ ptt[q].tba # p /\ ptt[q].tba # b)
    BY <1>2, <1>3, <2>1 DEF HomeIs, Type, b
  <2>3. CASE l = Target
    BY <1>2, <1>3, <1>4, <1>5, <2>1, <2>3 DEF HomeIs
  <2>4. CASE l # Target /\ q = b
    BY <1>2, <1>3, <1>4, <1>5, <2>1, <2>4 DEF HomeIs
  <2>5. CASE l # Target /\ q # b
    <3>1. q # p
      BY <1>3, <1>7, <2>1, <2>5 DEF HomeInv, HomeIs
    <3>2. QED
      BY <1>4, <1>5, <2>1, <2>2, <2>5, <3>1 DEF HomeIs
  <2>6. QED
    BY <2>3, <2>4, <2>5
<1>8. ASSUME NEW u \in Tops, ptt'[u].type = "buffered"
      PROVE  Buffers(u, ptt', lba0', ltp)
  <2>1. u \in Tracks /\ u # p /\ u # b
    BY <1>2, Ends, TopOrBottom
  <2>2. CASE u = v
    BY <1>2, <1>3, <1>4, <1>5, <2>2 DEF Buffers
  <2>3. CASE u # v
    <3>1. u \in Buffered /\ Buffers(u, ptt, lba0, ltp)
      BY <1>4, <1>8, <2>1, <2>3 DEF Buffered, Type, HomeInv
    <3>2. QED
      BY <1>4, <1>5, <2>1, <2>3, <3>1 DEF Buffers
  <2>4. QED
    BY <2>2, <2>3
<1>9. QED
  BY <1>1, <1>6, <1>7, <1>8 DEF HomeInv, Buffered, Type

(* Giving a buffered track up: what becomes of the tables. *)
LEMMA GiveUpIs ==
  ASSUME TypeOK, LinkInv, HomeInv, ColdInv, AllocGiveUpBuffer
  PROVE  \E v \in Scps :
           /\ (ltp' = ltp /\ lba0' = lba0) \/ \E c \in Tops : Exchanged(v, c, ltp', lba0')
           /\ \A u \in Tracks : status'[u] = IF u = v THEN "trimed" ELSE status[u]
           /\ \A u \in Tracks : ptt'[u] =
                IF u = v THEN [tba |-> v, scp_pba |-> 0, type |-> "normal"]
                ELSE IF u = ptt[v].scp_pba
                     THEN [tba |-> 0, scp_pba |-> ptt[ptt[v].scp_pba].scp_pba, type |-> "normal"]
                ELSE ptt[u]
           /\ zinfo' = [zinfo EXCEPT !.current_track = v]
<1>v. PICK v \in Scps : \E r \in ScpOutcomes(v) :
        /\ ltp' = r.ltp /\ lba0' = r.lba0 /\ status' = r.status /\ ptt' = Unlinked(v)
        /\ zinfo' = [zinfo EXCEPT !.current_track = v]
  BY DEF AllocGiveUpBuffer
<1>r. PICK r \in ScpOutcomes(v) :
        /\ ltp' = r.ltp /\ lba0' = r.lba0 /\ status' = r.status /\ ptt' = Unlinked(v)
        /\ zinfo' = [zinfo EXCEPT !.current_track = v]
  BY <1>v
<1>1. v \in Tops /\ v \in Tracks /\ ptt[v].scp_pba \in Bottoms
  BY ScpVictim DEF LinkedTo
<1>2. (ltp' = ltp /\ lba0' = lba0) \/ \E c \in Tops : Exchanged(v, c, ltp', lba0')
  BY <1>r, ScpHome DEF AtHome
<1>3. \A u \in Tracks : status'[u] = IF u = v THEN "trimed" ELSE status[u]
  <2>1. status' = [status EXCEPT ![v] = "trimed"]
    BY <1>r, ScpOutcome
  <2>2. QED
    BY <1>1, <2>1 DEF TypeOK
<1>4. \A u \in Tracks : ptt'[u] =
              IF u = v THEN [tba |-> v, scp_pba |-> 0, type |-> "normal"]
              ELSE IF u = ptt[v].scp_pba
                   THEN [tba |-> 0, scp_pba |-> ptt[ptt[v].scp_pba].scp_pba, type |-> "normal"]
              ELSE ptt[u]
  BY <1>r, <1>1, UnlinkedIs
<1>5. QED
  BY <1>r, <1>2, <1>3, <1>4

LEMMA GiveUpHome ==
  ASSUME TypeOK, LinkInv, HomeInv, ColdInv, AllocGiveUpBuffer
  PROVE  HomeInv'
<1>g. PICK v \in Scps :
           /\ (ltp' = ltp /\ lba0' = lba0) \/ \E c \in Tops : Exchanged(v, c, ltp', lba0')
           /\ \A u \in Tracks : status'[u] = IF u = v THEN "trimed" ELSE status[u]
           /\ \A u \in Tracks : ptt'[u] =
                IF u = v THEN [tba |-> v, scp_pba |-> 0, type |-> "normal"]
                ELSE IF u = ptt[v].scp_pba
                     THEN [tba |-> 0, scp_pba |-> ptt[ptt[v].scp_pba].scp_pba, type |-> "normal"]
                ELSE ptt[u]
  BY GiveUpIs
<1> DEFINE b == ptt[v].scp_pba
<1>2. v \in Tops /\ v \in Tracks /\ b \in Bottoms /\ b \in Tracks /\ b # v /\ status[b] = "in_use"
      /\ Type(b) = "top_buffer" /\ ptt[b].tba = v /\ Type(v) = "buffered"
  BY ScpVictim DEF LinkedTo, Type
<1>3. \A u \in Tracks : status'[u] = IF u = v THEN "trimed" ELSE status[u]
  BY <1>g
<1>4. \A u \in Tracks : ptt'[u] =
              IF u = v THEN [tba |-> v, scp_pba |-> 0, type |-> "normal"]
              ELSE IF u = b THEN [tba |-> 0, scp_pba |-> ptt[b].scp_pba, type |-> "normal"]
              ELSE ptt[u]
  BY <1>g
<1>5. pc' = pc /\ Target' = Target
  BY DEF AllocGiveUpBuffer, Target
<1>b. lba0[v] \in LBAs /\ ltp[lba0[v]].pba = b /\ lba0[b] = lba0[v]
  BY BackIs
<1> HIDE DEF b
<1>h. ASSUME NEW l \in LBAs, ltp[l].valid
      PROVE  LET q == ltp[l].pba IN
             /\ HomeIs(l, q, ptt, lba0, status) /\ q \in Tracks /\ ptt[q].tba \in Tracks /\ q # v
             /\ q # b /\ ptt[q].type = "top_buffer" => ptt[q].tba # v /\ ptt[q].tba # b
  <2>1. HomeIs(l, ltp[l].pba, ptt, lba0, status) /\ ltp[l].pba \in Tracks /\ ptt[ltp[l].pba].tba \in Tracks
    BY <1>h DEF HomeInv, TypeOK
  <2>2. QED
    BY <1>2, <2>1 DEF HomeIs, Type, b
<1>u. ASSUME NEW u \in Tops, ptt'[u].type = "buffered"
      PROVE  /\ u \in Buffered /\ Buffers(u, ptt, lba0, ltp) /\ (pc = "alloc" => lba0[u] # Target)
             /\ u \in Tracks /\ u # b /\ u # v /\ lba0[u] \in LBAs
             /\ ptt[u].scp_pba \in Bottoms /\ ptt[u].scp_pba # b /\ ptt'[u] = ptt[u]
  <2>1. u \in Tracks /\ u # b /\ u # v
    BY <1>2, <1>4, <1>u, Ends, TopOrBottom
  <2>2. u \in Buffered /\ lba0[u] \in LBAs
    BY <1>4, <1>u, <2>1 DEF Buffered, Type, TypeOK
  <2>3. Buffers(u, ptt, lba0, ltp) /\ (pc = "alloc" => lba0[u] # Target)
    BY <2>2 DEF HomeInv
  <2>4. ptt[u].scp_pba \in Bottoms /\ ptt[ptt[u].scp_pba].tba = u
    BY <2>2 DEF LinkInv, LinksAgree
  <2>5. QED
    BY <1>2, <1>4, <2>1, <2>2, <2>3, <2>4
<1>6. CASE ltp' = ltp /\ lba0' = lba0
  <2>1. ASSUME NEW l \in LBAs, ltp[l].valid
        PROVE  HomeIs(l, ltp[l].pba, ptt', lba0, status')
    BY <1>2, <1>3, <1>4, <1>h, <2>1 DEF HomeIs
  <2>2. ASSUME NEW u \in Tops, ptt'[u].type = "buffered"
        PROVE  Buffers(u, ptt', lba0, ltp) /\ (pc = "alloc" => lba0[u] # Target)
    BY <1>u, <2>2 DEF Buffers
  <2>3. QED
    BY <1>5, <1>6, <2>1, <2>2 DEF HomeInv, Buffered, Type
<1>7. ASSUME NEW c \in Tops, Exchanged(v, c, ltp', lba0')
      PROVE  HomeInv'
  <2>1. c \in Tracks /\ c # v /\ c # b /\ Type(c) = "normal" /\ status[c] = "in_use"
        /\ ltp[lba0[c]].valid /\ ltp[lba0[c]].pba = c /\ lba0[c] \in LBAs
    BY <1>2, <1>7, Ends, TopOrBottom DEF Exchanged, ColdInv, Used, TypeOK
  <2>2. \A t \in Tracks : lba0'[t] = IF t = b THEN lba0[c] ELSE IF t = c THEN lba0[v] ELSE lba0[t]
    BY <1>7 DEF Exchanged, b
  <2>3. \A l \in LBAs : /\ ltp'[l].valid = ltp[l].valid
                        /\ ltp'[l].pba = IF l = lba0[v] THEN c ELSE IF l = lba0[c] THEN b ELSE ltp[l].pba
    BY <1>7 DEF Exchanged, b
  <2>4. ASSUME NEW l \in LBAs, ltp[l].valid
        PROVE  HomeIs(l, ltp'[l].pba, ptt', lba0', status')
    <3>1. CASE l = lba0[v]
      BY <1>2, <1>3, <1>4, <2>1, <2>2, <2>3, <3>1 DEF HomeIs, Type
    <3>2. CASE l = lba0[c] /\ l # lba0[v]
      BY <1>2, <1>3, <1>4, <2>1, <2>2, <2>3, <3>2 DEF HomeIs, Type
    <3>3. CASE l # lba0[v] /\ l # lba0[c]
      <4> DEFINE q == ltp[l].pba
      <4>1. /\ HomeIs(l, q, ptt, lba0, status) /\ q \in Tracks /\ ptt[q].tba \in Tracks /\ q # v
            /\ q # b /\ ptt[q].type = "top_buffer" => ptt[q].tba # v /\ ptt[q].tba # b
        BY <1>h, <2>4
      <4>2. q # b /\ q # c /\ ltp'[l].pba = q
        BY <1>b, <2>3, <3>3, <4>1 DEF HomeIs
      <4>3. ptt[q].type = "top_buffer" => ptt[q].tba # c
        BY <2>1, <4>1 DEF HomeIs, Type
      <4>4. QED
        BY <1>3, <1>4, <2>2, <4>1, <4>2, <4>3 DEF HomeIs
    <3>4. QED
      BY <3>1, <3>2, <3>3
  <2>5. ASSUME NEW u \in Tops, ptt'[u].type = "buffered"
        PROVE  Buffers(u, ptt', lba0', ltp') /\ (pc = "alloc" => lba0'[u] # Target)
    <3>1. /\ u \in Buffered /\ Buffers(u, ptt, lba0, ltp) /\ (pc = "alloc" => lba0[u] # Target)
          /\ u \in Tracks /\ u # b /\ u # v /\ lba0[u] \in LBAs
          /\ ptt[u].scp_pba \in Bottoms /\ ptt[u].scp_pba # b /\ ptt'[u] = ptt[u]
      BY <1>u, <2>5
    <3>2. u # c
      BY <2>1, <3>1 DEF Buffered
    <3>3. lba0'[u] = lba0[u] /\ lba0[u] # lba0[v] /\ lba0[u] # lba0[c]
      BY <1>b, <1>2, <2>1, <2>2, <3>1, <3>2, TopOrBottom DEF Buffers
    <3>4. QED
      BY <2>3, <3>1, <3>3 DEF Buffers
  <2>6. QED
    BY <1>5, <2>3, <2>4, <2>5 DEF HomeInv, Buffered, Type
<1>8. QED
  BY <1>g, <1>6, <1>7

(* A block is told by the track its links lead to, so no two lead to one.    *)
LEMMA Resolved ==
  ASSUME TypeOK, HomeInv, NEW l \in LBAs, ltp[l].valid
  PROVE  lba_to_tba(l) \in Tracks /\ lba0[lba_to_tba(l)] = l
<1>1. HomeIs(l, ltp[l].pba, ptt, lba0, status) /\ ltp[l].pba \in Tracks
      /\ ptt[ltp[l].pba] \in [tba : Tracks, scp_pba : Tracks, type : Types]
  BY DEF HomeInv, TypeOK
<1>2. QED
  BY <1>1 DEF HomeIs, lba_to_tba, Type, Types

(* A file's tracks are forgotten, and with them the blocks they are told. *)
LEMMA DeleteIs ==
  ASSUME TypeOK, LinkInv, HomeInv, NEW f \in Fids, Delete(f)
  PROVE  \E D \in SUBSET Tracks :
           /\ \A t \in D : \E m \in LBAs : ltp[m].valid /\ t = lba_to_tba(m) /\ lba0[t] = m
           /\ \A t \in Tracks : status'[t] = IF t \in D THEN "trimed" ELSE status[t]
           /\ \A t \in Tracks : t \notin D => ptt'[t] = ptt[t]
           /\ \A t \in Tracks : t \in D => ptt'[t].type = "normal"
           /\ \A l \in LBAs : /\ ltp'[l].pba = ltp[l].pba
                              /\ ltp'[l].valid <=> ltp[l].valid /\ ~\E t \in D : lba0[t] = l
           /\ lba0' = lba0 /\ pc' # "alloc"
<1> DEFINE D == TracksOf(f)
<1>1. D \in SUBSET Tracks
  BY Deleted
<1>2. \A t \in D : \E m \in LBAs : ltp[m].valid /\ t = lba_to_tba(m) /\ lba0[t] = m
  BY Resolved DEF TracksOf, BlocksOf
<1>3. \A t \in Tracks : status'[t] = IF t \in D THEN "trimed" ELSE status[t]
  BY DEF Delete
<1>4. \A t \in Tracks : t \notin D => ptt'[t] = ptt[t]
  BY DEF Delete
<1>5. \A t \in Tracks : t \in D => ptt'[t].type = "normal"
  <2>1. \A t \in Tracks : "type" \in DOMAIN ptt[t]
    BY DEF TypeOK
  <2>2. QED
    BY <2>1 DEF Delete
<1>6. \A l \in LBAs : /\ ltp'[l].pba = ltp[l].pba
                      /\ ltp'[l].valid <=> ltp[l].valid /\ ~\E t \in D : lba0[t] = l
  <2>1. \A l \in LBAs : ltp[l] \in LogicalEntries
    BY DEF TypeOK, LogicalEntries
  <2>2. QED
    BY <2>1 DEF Delete, LogicalEntries
<1>7. lba0' = lba0 /\ pc' # "alloc"
  BY DEF Delete
<1> HIDE DEF D
<1>8. QED
  BY <1>1, <1>2, <1>3, <1>4, <1>5, <1>6, <1>7

LEMMA DeleteHome ==
  ASSUME TypeOK, LinkInv, HomeInv, NEW f \in Fids, Delete(f)
  PROVE  HomeInv'
<1>1. PICK D \in SUBSET Tracks :
           /\ \A t \in D : \E m \in LBAs : ltp[m].valid /\ t = lba_to_tba(m) /\ lba0[t] = m
           /\ \A t \in Tracks : status'[t] = IF t \in D THEN "trimed" ELSE status[t]
           /\ \A t \in Tracks : t \notin D => ptt'[t] = ptt[t]
           /\ \A t \in Tracks : t \in D => ptt'[t].type = "normal"
           /\ \A l \in LBAs : /\ ltp'[l].pba = ltp[l].pba
                              /\ ltp'[l].valid <=> ltp[l].valid /\ ~\E t \in D : lba0[t] = l
           /\ lba0' = lba0 /\ pc' # "alloc"
  BY DeleteIs
<1>8. ASSUME NEW l \in LBAs, ltp'[l].valid
      PROVE  HomeIs(l, ltp'[l].pba, ptt', lba0, status')
  <2> DEFINE q == ltp[l].pba
  <2>1. HomeIs(l, q, ptt, lba0, status) /\ q \in Tracks /\ ptt[q].tba \in Tracks
        /\ ltp'[l].pba = q /\ \A t \in D : lba0[t] # l
    BY <1>1, <1>8 DEF HomeInv, TypeOK
  <2>2. q \notin D /\ (ptt[q].type = "top_buffer" => ptt[q].tba \notin D)
    BY <2>1 DEF HomeIs
  <2>3. QED
    BY <1>1, <2>1, <2>2 DEF HomeIs
<1>9. ASSUME NEW u \in Tops, ptt'[u].type = "buffered"
      PROVE  Buffers(u, ptt', lba0, ltp')
  <2>1. u \in Tracks /\ u \notin D /\ u \in Buffered
    BY <1>1, <1>9, Ends DEF Buffered, Type
  <2> DEFINE l == lba0[u]
  <2>2. l \in LBAs /\ Buffers(u, ptt, lba0, ltp)
    BY <2>1 DEF HomeInv, TypeOK
  <2>3. LinkedTo(u, ptt[u].scp_pba, status, ptt)
    BY <2>1 DEF LinkInv, LinksAgree, LinkedTo, Type
  <2>4. lba_to_tba(l) = u
    BY <2>2, <2>3 DEF lba_to_tba, Buffers, LinkedTo, Type
  <2>5. \A t \in D : lba0[t] # l
    BY <1>1, <2>1, <2>4
  <2>6. QED
    BY <1>1, <2>1, <2>2, <2>5 DEF Buffers
<1>10. QED
  BY <1>1, <1>8, <1>9 DEF HomeInv, Buffered, Type

LEMMA NextHome ==
  ASSUME TypeOK, PhaseInv, InstrInv, LinkInv, HomeInv, ColdInv, [Next]_vars
  PROVE  HomeInv'
<1>k. ASSUME ltp' = ltp, ptt' = ptt, lba0' = lba0, status' = status,
             pc' = "alloc" => UNCHANGED <<pc, cur>>
      PROVE  HomeInv'
  BY <1>k, HomeKept DEF Target
<1>1. CASE (\E l \in LBAs, n \in 1 .. MaxBlocks, f \in Fids : StartWrite(l, n, f))
           \/ (\E f \in Fids : DeleteStops(f)) \/ UNCHANGED vars
  BY <1>1, <1>k DEF StartWrite, DeleteStops, vars
<1>2. CASE \E f \in Fids : Delete(f)
  BY <1>2, DeleteHome
<1>3. CASE Flush
  <2>1. \A t \in Tracks : status'[t] = IF t \in gbtable THEN "in_use" ELSE status[t]
    BY <1>3 DEF Flush
  <2>2. QED
    BY <1>3, <2>1, HomeKept DEF Flush
<1>4. CASE Search
  <2>1. CASE SearchForeign \/ \E p \in Bottoms : SearchNoFreeTop(p) \/ SearchMoveStops(p)
    BY <1>k, <2>1 DEF SearchForeign, NextBlock, SearchNoFreeTop, SearchMoveStops, ScpStops
  <2>2. QED
    BY <1>4, <2>1, SearchNewHome, TakeHome, MoveHome, MoveFullHome DEF Search
<1>5. CASE Alloc
  <2>1. CASE AllocStops \/ AllocDiskFull
    BY <1>k, <2>1 DEF AllocStops, ScpStops, AllocDiskFull
  <2>2. CASE AllocPhase1 \/ AllocPhase2 \/ AllocPhase3 \/ AllocPhase3Trigger
    <3>1. ptt' = ptt /\ pc = "alloc" /\ \E t \in Tracks : TryTrack(t)
      BY <2>2, TrackTried, Ends
        DEF AllocPhase1, AllocPhase2, AllocPhase3, AllocPhase3Trigger, Allocating
    <3>2. QED
      BY <3>1, BookHome
  <2>3. CASE AllocPhase1Full
    <3>1. ptt' = ptt /\ pc = "alloc" /\ zinfo.current_track \in Tracks
      BY <2>3, TrackTried, Ends DEF AllocPhase1Full, Allocating
    <3>2. \E t \in Tracks : (IsFree(t) /\ Book(t)) \/ TryTrack(t)
      BY <2>3, <3>1 DEF AllocPhase1Full, FirstOf, EveryOther
    <3>3. QED
      BY <3>1, <3>2, BookHome
  <2>4. QED
    BY <1>5, <2>1, <2>2, <2>3, GiveUpHome DEF Alloc
<1>6. QED
  BY <1>1, <1>2, <1>3, <1>4, <1>5 DEF Next, DeleteFile, Progress

-----------------------------------------------------------------------------
(* Cold tracks, and the batch.                                             *)

(* Block swapping begins in the last phase and closes the buffer. *)
LastPhase == initialized => zinfo.phases = 3 /\ ~enable_top_buffer

LEMMA NextLastPhase ==
  ASSUME TypeOK, LastPhase, [Next]_vars
  PROVE  LastPhase'
<1>1. zinfo \in Allocators
  BY DEF TypeOK, Allocators
<1>2. CASE Alloc
  <2>1. CASE AllocPhase1 \/ AllocPhase1Full \/ AllocPhase2
    <3>1. zinfo.phases # 3 /\ initialized' = initialized
      <4>1. CASE AllocPhase1Full
        <5>1. zinfo.phases = 1
          BY <4>1, Zenon DEF AllocPhase1Full, Allocating
        <5>2. UNCHANGED <<ptt, initialized, report, cursors>>
          BY <4>1, Zenon DEF AllocPhase1Full
        <5>3. QED
          BY <5>1, <5>2
      <4>2. CASE AllocPhase1 \/ AllocPhase2
        BY <4>2 DEF AllocPhase1, AllocPhase2, Allocating, flags
      <4>3. QED
        BY <2>1, <4>1, <4>2
    <3>2. QED
      BY <3>1 DEF LastPhase
  <2>2. CASE AllocPhase3 \/ AllocGiveUpBuffer
    <3>1. zinfo'.phases = zinfo.phases
      BY <1>1, <2>2 DEF AllocPhase3, AllocGiveUpBuffer, Allocators
    <3>2. QED
      BY <2>2, <3>1 DEF AllocPhase3, AllocGiveUpBuffer, LastPhase, flags
  <2>3. CASE AllocPhase3Trigger \/ AllocStops \/ AllocDiskFull
    BY <2>3 DEF AllocPhase3Trigger, AllocStops, ScpStops, AllocDiskFull, Allocating, LastPhase, flags
  <2>4. QED
    BY <1>2, <2>1, <2>2, <2>3 DEF Alloc
<1>3. CASE ~Alloc
  <2>1. UNCHANGED <<zinfo, flags>>
    BY <1>3 DEF Next, DeleteFile, Progress, StartWrite, Delete, DeleteStops, Flush, Search, SearchForeign,
      SearchNew, SearchBuffered, SearchInPlace, SearchMove, SearchNoFreeTop, SearchMoveFull,
      SearchMoveStops, ScpStops, vars
  <2>2. QED
    BY <2>1 DEF LastPhase, flags
<1>4. QED
  BY <1>2, <1>3

(* The second part of ColdInv, of one track. *)
Cold(t) ==
  status[t] \in Used /\ Type(t) = "normal" =>
    /\ ltp[lba0[t]].valid /\ ltp[lba0[t]].pba = t
    /\ pc = "alloc" => lba0[t] # Target

(* A write that finds no track for its block asks for one: no track is told  *)
(* the block, since those in use are where its entry leads and those booked  *)
(* hold earlier blocks.                                                      *)
LEMMA SearchNewCold ==
  ASSUME TypeOK, InstrInv, ColdInv, BatchInv, SearchNew, NEW t \in Tops
  PROVE  Cold(t)'
<1>1. t \in Tracks /\ Target \in LBAs /\ Target \in Nat
  BY Ends, TargetIn
<1>2. ASSUME status[t] \in Used, Type(t) = "normal", lba0[t] = Target PROVE FALSE
  <2>1. ltp[Target].valid /\ ltp[Target].pba = t
    BY <1>2 DEF ColdInv
  <2>2. status[t] # "in_use"
    BY <2>1 DEF SearchNew, Present
  <2>3. status[t] = "booked"
    BY <1>2, <2>2 DEF Used
  <2>4. lba0[t] < Target
    BY <1>1, <2>3 DEF BatchInv, SearchNew
  <2>5. QED
    BY <1>1, <1>2, <2>4
<1>3. QED
  BY <1>2 DEF SearchNew, ColdInv, Cold, Type, Target

LEMMA BookCold ==
  ASSUME TypeOK, InstrInv, LinkInv, ColdInv, NEW t \in Tracks, pc = "alloc",
         (IsFree(t) /\ Book(t)) \/ TryTrack(t), ptt' = ptt, NEW u \in Tops
  PROVE  Cold(u)'
<1>0. u \in Tracks
  BY Ends
<1>1. CASE GoRound
  BY <1>1 DEF GoRound, Target, ColdInv, Cold, Type
<1>2. CASE IsFree(t) /\ Book(t)
  <2>1. \A w \in Tracks : /\ status'[w] = IF w = t THEN "booked" ELSE status[w]
                          /\ lba0'[w] = IF w = t THEN Target ELSE lba0[w]
    BY <1>2 DEF Book, Take, TypeOK
  <2>2. \A l \in LBAs : ltp'[l] = IF l = Target THEN [pba |-> t, fid |-> cur.fid, valid |-> TRUE] ELSE ltp[l]
    BY <1>2 DEF Book, TypeOK
  <2>3. pc' # "alloc" /\ Target \in LBAs /\ lba0[u] \in LBAs
    BY <1>0, <1>2, TargetIn DEF Book, Take, NextBlock, TypeOK
  <2>4. CASE u = t
    BY <1>0, <2>1, <2>2, <2>3, <2>4 DEF Cold
  <2>5. CASE u # t
    BY <1>0, <2>1, <2>2, <2>3, <2>5 DEF Cold, ColdInv, Type
  <2>6. QED
    BY <2>4, <2>5
<1>3. QED
  BY <1>1, <1>2 DEF TryTrack

LEMMA MoveCold ==
  ASSUME TypeOK, InstrInv, LinkInv, HomeInv, ColdInv, NEW p \in Bottoms,
         SearchMove(p) \/ SearchMoveFull(p), NEW u \in Tops
  PROVE  Cold(u)'
<1>0. u \in Tracks /\ p \in Tracks /\ u # p
  BY Ends, TopOrBottom
<1>m. ptt \in [Tracks -> Links] /\ lba0 \in [Tracks -> LBAs]
  BY DEF TypeOK, Links
<1>1. CASE SearchMove(p)
  <2>1. PICK t \in NextOf(EmptyTops, current_top_buffer_track) :
          /\ ptt' = create_top_buffer(ptt, p, t)
          /\ status' = [status EXCEPT ![t] = "booked"]
          /\ Take(t, lba0)
    BY <1>1 DEF SearchMove
  <2>2. t \in Tops /\ t \in Tracks /\ ltp' = ltp /\ pc' # "alloc"
    BY <1>1, <2>1, NextOfIn, EmptyTopsFree, Ends DEF SearchMove, Take, NextBlock
  <2>3. ptt'[u] = IF u = t THEN [tba |-> t, scp_pba |-> p, type |-> "buffered"] ELSE ptt[u]
    <3>1. \A w \in Tracks : ptt'[w] =
              IF w = t THEN [tba |-> t, scp_pba |-> p, type |-> "buffered"]
              ELSE IF w = p THEN [tba |-> t, scp_pba |-> ptt[p].scp_pba, type |-> "top_buffer"]
              ELSE ptt[w]
      BY <1>m, <2>1, <2>2, CreateIs
    <3>2. QED
      BY <1>0, <3>1
  <2>4. u # t => status'[u] = status[u] /\ lba0'[u] = lba0[u]
    BY <1>0, <2>1, <2>2 DEF TypeOK, Take
  <2>5. QED
    BY <2>2, <2>3, <2>4 DEF Cold, ColdInv, Type
<1>2. CASE SearchMoveFull(p)
  <2>1. PICK v \in Scps :
          /\ ltp' = ltp /\ ptt' = create_top_buffer(Unlinked(v), p, v) /\ Take(v, lba0)
          /\ status' = [[status EXCEPT ![v] = "trimed"] EXCEPT ![v] = "booked"]
    BY <1>2, MoveFullBack
  <2>2. v \in Tops /\ v \in Tracks /\ ptt[v].scp_pba \in Bottoms /\ pc' # "alloc"
    BY <2>1, ScpVictim DEF LinkedTo, Take, NextBlock
  <2>3. ptt'[u] = IF u = v THEN [tba |-> v, scp_pba |-> p, type |-> "buffered"] ELSE ptt[u]
    <3> DEFINE b == ptt[v].scp_pba
    <3>1. Unlinked(v) \in [Tracks -> Links]
          /\ \A w \in Tracks : Unlinked(v)[w] =
                IF w = v THEN [tba |-> v, scp_pba |-> 0, type |-> "normal"]
                ELSE IF w = b THEN [tba |-> 0, scp_pba |-> ptt[b].scp_pba, type |-> "normal"]
                ELSE ptt[w]
      BY <2>2, UnlinkedIs
    <3>2. \A w \in Tracks : ptt'[w] =
              IF w = v THEN [tba |-> v, scp_pba |-> p, type |-> "buffered"]
              ELSE IF w = p THEN [tba |-> v, scp_pba |-> Unlinked(v)[p].scp_pba, type |-> "top_buffer"]
              ELSE Unlinked(v)[w]
      BY <2>1, <2>2, <3>1, CreateIs
    <3>3. u # b
      BY <2>2, TopOrBottom, Ends
    <3>4. QED
      BY <1>0, <3>1, <3>2, <3>3
  <2>4. u # v => status'[u] = status[u] /\ lba0'[u] = lba0[u]
    BY <1>0, <2>1, <2>2 DEF TypeOK, Take
  <2>5. QED
    BY <2>1, <2>2, <2>3, <2>4 DEF Cold, ColdInv, Type
<1>3. QED
  BY <1>1, <1>2

LEMMA GiveUpCold ==
  ASSUME TypeOK, LinkInv, HomeInv, ColdInv, AllocGiveUpBuffer, NEW u \in Tops
  PROVE  Cold(u)'
<1>g. PICK v \in Scps :
           /\ (ltp' = ltp /\ lba0' = lba0) \/ \E c \in Tops : Exchanged(v, c, ltp', lba0')
           /\ \A w \in Tracks : status'[w] = IF w = v THEN "trimed" ELSE status[w]
           /\ \A w \in Tracks : ptt'[w] =
                IF w = v THEN [tba |-> v, scp_pba |-> 0, type |-> "normal"]
                ELSE IF w = ptt[v].scp_pba
                     THEN [tba |-> 0, scp_pba |-> ptt[ptt[v].scp_pba].scp_pba, type |-> "normal"]
                ELSE ptt[w]
  BY GiveUpIs
<1> DEFINE b == ptt[v].scp_pba
<1>1. u \in Tracks /\ b \in Bottoms /\ u # b /\ b \in Tracks
  BY Ends, ScpVictim, TopOrBottom DEF LinkedTo
<1>2. pc' = pc /\ Target' = Target
  BY DEF AllocGiveUpBuffer, Target
<1>b. lba0[v] \in LBAs /\ ltp[lba0[v]].valid /\ ltp[lba0[v]].pba = b /\ (pc = "alloc" => lba0[v] # Target)
  BY BackIs
<1>3. CASE u = v
  BY <1>1, <1>3, <1>g DEF Cold, Used
<1>4. CASE u # v /\ ltp' = ltp /\ lba0' = lba0
  BY <1>1, <1>2, <1>4, <1>g DEF Cold, ColdInv, Type
<1>5. ASSUME u # v, status[u] \in Used, Type(u) = "normal",
             NEW c \in Tops, Exchanged(v, c, ltp', lba0')
      PROVE  /\ ltp'[lba0'[u]].valid /\ ltp'[lba0'[u]].pba = u
             /\ pc = "alloc" => lba0'[u] # Target
  <2>1. lba0[u] \in LBAs /\ ltp[lba0[u]].valid /\ ltp[lba0[u]].pba = u
        /\ (pc = "alloc" => lba0[u] # Target)
    BY <1>1, <1>5 DEF ColdInv, TypeOK
  <2>2. /\ lba0'[u] = IF u = c THEN lba0[v] ELSE lba0[u]
        /\ \A l \in LBAs : /\ ltp'[l].valid = ltp[l].valid
                           /\ ltp'[l].pba = IF l = lba0[v] THEN c ELSE IF l = lba0[c] THEN b ELSE ltp[l].pba
    BY <1>1, <1>5 DEF Exchanged
  <2>3. ltp[lba0[c]].pba = c
    BY <1>5 DEF Exchanged, ColdInv, Used
  <2>4. CASE u = c
    BY <1>b, <2>2, <2>4
  <2>5. CASE u # c
    <3>1. lba0[u] # lba0[v] /\ lba0[u] # lba0[c]
      BY <1>1, <1>b, <2>1, <2>3, <2>5
    <3>2. QED
      BY <2>1, <2>2, <2>5, <3>1
  <2>6. QED
    BY <2>4, <2>5
<1>6. CASE u # v /\ \E c \in Tops : Exchanged(v, c, ltp', lba0')
  <2>1. status'[u] = status[u] /\ ptt'[u] = ptt[u]
    BY <1>1, <1>6, <1>g
  <2>2. QED
    BY <1>2, <1>5, <1>6, <2>1 DEF Cold, Type
<1>7. QED
  BY <1>g, <1>3, <1>4, <1>6

LEMMA DeleteCold ==
  ASSUME TypeOK, LinkInv, HomeInv, ColdInv, NEW f \in Fids, Delete(f), NEW u \in Tops
  PROVE  Cold(u)'
<1>1. PICK D \in SUBSET Tracks :
           /\ \A t \in D : \E m \in LBAs : ltp[m].valid /\ t = lba_to_tba(m) /\ lba0[t] = m
           /\ \A t \in Tracks : status'[t] = IF t \in D THEN "trimed" ELSE status[t]
           /\ \A t \in Tracks : t \notin D => ptt'[t] = ptt[t]
           /\ \A t \in Tracks : t \in D => ptt'[t].type = "normal"
           /\ \A l \in LBAs : /\ ltp'[l].pba = ltp[l].pba
                              /\ ltp'[l].valid <=> ltp[l].valid /\ ~\E t \in D : lba0[t] = l
           /\ lba0' = lba0 /\ pc' # "alloc"
  BY DeleteIs
<1>2. u \in Tracks /\ lba0[u] \in LBAs
  BY Ends DEF TypeOK
<1>3. CASE u \in D
  BY <1>1, <1>2, <1>3 DEF Cold, Used
<1>4. ASSUME u \notin D, status[u] \in Used, Type(u) = "normal"
      PROVE  ltp'[lba0[u]].valid /\ ltp'[lba0[u]].pba = u
  <2>1. ltp[lba0[u]].valid /\ ltp[lba0[u]].pba = u
    BY <1>4 DEF ColdInv
  <2>2. lba_to_tba(lba0[u]) = u
    BY <1>4, <2>1 DEF lba_to_tba
  <2>3. ~\E t \in D : lba0[t] = lba0[u]
    BY <1>1, <1>4, <2>2
  <2>4. QED
    BY <1>1, <1>2, <2>1, <2>3
<1>5. CASE u \notin D
  <2>1. status'[u] = status[u] /\ ptt'[u] = ptt[u] /\ lba0' = lba0 /\ pc' # "alloc"
    BY <1>1, <1>2, <1>5
  <2>2. QED
    BY <1>4, <1>5, <2>1 DEF Cold, Type
<1>6. QED
  BY <1>3, <1>5

LEMMA NextCold ==
  ASSUME TypeOK, PhaseInv, InstrInv, LinkInv, HomeInv, ColdInv, BatchInv, [Next]_vars
  PROVE  ColdInv'
<1>0. LastPhase'
  BY NextLastPhase DEF ColdInv, LastPhase
<1> SUFFICES ASSUME NEW u \in Tops
             PROVE  Cold(u)'
  BY <1>0 DEF ColdInv, LastPhase, Cold
<1>c. u \in Tracks /\ Cold(u)
  BY Ends DEF ColdInv, Cold
<1>k. ASSUME ltp' = ltp, ptt' = ptt, lba0' = lba0, status'[u] \in Used => status[u] \in Used,
             pc' = "alloc" => UNCHANGED <<pc, cur>>
      PROVE  Cold(u)'
  BY <1>c, <1>k DEF Target, Cold, Type
<1>1. CASE (\E l \in LBAs, n \in 1 .. MaxBlocks, f \in Fids : StartWrite(l, n, f))
           \/ (\E f \in Fids : DeleteStops(f)) \/ UNCHANGED vars
  BY <1>1, <1>k DEF StartWrite, DeleteStops, vars
<1>2. CASE \E f \in Fids : Delete(f)
  BY <1>2, DeleteCold
<1>3. CASE Flush
  <2>1. \A t \in gbtable : status[t] \in Used
    BY <1>3 DEF Flush, BatchInv, GivenUp, Stopped
  <2>2. status'[u] = IF u \in gbtable THEN "in_use" ELSE status[u]
    BY <1>3, <1>c DEF Flush
  <2>3. QED
    BY <1>3, <1>k, <2>1, <2>2 DEF Flush
<1>4. CASE Search
  <2>1. CASE SearchForeign \/ \E p \in Bottoms : SearchNoFreeTop(p) \/ SearchMoveStops(p)
    BY <1>k, <2>1 DEF SearchForeign, NextBlock, SearchNoFreeTop, SearchMoveStops, ScpStops
  <2>2. CASE SearchBuffered \/ SearchInPlace
    BY <1>k, <2>2, InPlace
  <2>3. QED
    BY <1>4, <2>1, <2>2, SearchNewCold, MoveCold DEF Search
<1>5. CASE Alloc
  <2>1. CASE AllocStops \/ AllocDiskFull
    BY <1>k, <2>1 DEF AllocStops, ScpStops, AllocDiskFull
  <2>2. CASE AllocPhase1 \/ AllocPhase2 \/ AllocPhase3 \/ AllocPhase3Trigger
    <3>1. ptt' = ptt /\ pc = "alloc" /\ \E t \in Tracks : TryTrack(t)
      BY <2>2, TrackTried, Ends
        DEF AllocPhase1, AllocPhase2, AllocPhase3, AllocPhase3Trigger, Allocating
    <3>2. QED
      BY <3>1, BookCold
  <2>3. CASE AllocPhase1Full
    <3>1. ptt' = ptt /\ pc = "alloc" /\ zinfo.current_track \in Tracks
      BY <2>3, TrackTried, Ends DEF AllocPhase1Full, Allocating
    <3>2. \E t \in Tracks : (IsFree(t) /\ Book(t)) \/ TryTrack(t)
      BY <2>3, <3>1 DEF AllocPhase1Full, FirstOf, EveryOther
    <3>3. QED
      BY <3>1, <3>2, BookCold
  <2>4. QED
    BY <1>5, <2>1, <2>2, <2>3, GiveUpCold DEF Alloc
<1>6. QED
  BY <1>1, <1>2, <1>3, <1>4, <1>5 DEF Next, DeleteFile, Progress

LEMMA BlockNat ==
  ASSUME TypeOK
  PROVE  cur.lba \in Nat /\ cur.i \in Nat
<1>1. cur.lba \in LBAs
  BY DEF TypeOK, Instructions
<1>2. cur.i \in Nat
  BY TraceAssumption DEF TypeOK, Instructions
<1>3. QED
  BY <1>1, <1>2, Ends

(* A block that got a track: the batch has data or will have it at the flush. *)
LEMMA TakeBatch ==
  ASSUME TypeOK, InstrInv, NEW p \in Tracks, NEW owners \in [Tracks -> LBAs], Take(p, owners),
         \A t \in Tracks : status'[t] = "booked" /\ t # p => owners[t] < Target,
         \A t \in gbtable : status'[t] \in Used, status'[p] \in Used
  PROVE  BatchInv'
<1>1. /\ Target \in Nat /\ gbtable \subseteq Tracks
      /\ \/ pc' = "flush" /\ cur' = cur
         \/ pc' = "search" /\ cur'.lba = cur.lba /\ cur'.i = cur.i + 1
  BY TargetIn, TakeType, Ends DEF TypeOK
<1>i. cur.lba \in Nat /\ cur.i \in Nat
  BY BlockNat
<1>2. pc' = "search" => Target' = Target + 1
  BY <1>1, <1>i DEF Target
<1>3. \A t \in Tracks : lba0'[t] = IF t = p THEN Target ELSE owners[t]
  BY DEF Take
<1>4. \A t \in Tracks : status'[t] = "booked" => lba0'[t] \in Nat /\ lba0'[t] <= Target
  <2>1. \A t \in Tracks : owners[t] \in Nat
    BY Ends
  <2>2. \A t \in Tracks : t # p => lba0'[t] = owners[t]
    BY <1>3
  <2>3. \A t \in Tracks : status'[t] = "booked" /\ t # p => owners[t] \in Nat /\ owners[t] < Target
    BY <2>1
  <2>4. lba0'[p] = Target /\ Target <= Target
    BY <1>1, <1>3
  <2>5. \A x \in Nat : x < Target => x <= Target
    BY <1>1
  <2>6. QED
    BY <1>1, <2>2, <2>3, <2>4, <2>5
<1>5. gbtable' = gbtable \cup {p}
  BY DEF Take
<1>6. pc' \in {"search", "alloc"} => \A t \in Tracks : status'[t] = "booked" => lba0'[t] < Target'
  BY <1>1, <1>2, <1>4
<1>7. QED
  BY <1>5, <1>6 DEF BatchInv

(* In the last phase the allocator comes straight back to the track it gave  *)
(* up, if it can be had at all.                                              *)
LEMMA BookBatch ==
  ASSUME TypeOK, PhaseInv, InstrInv, LinkInv, BatchInv, NEW t \in Tracks, pc = "alloc",
         (IsFree(t) /\ Book(t)) \/ TryTrack(t), zinfo.phases = 3 => t = zinfo.current_track,
         zinfo.phases = 3 => zinfo'.phases = 3
  PROVE  BatchInv'
<1>1. gbtable \subseteq Tracks
  BY DEF TypeOK
<1>2. CASE IsFree(t) /\ Book(t)
  <2>1. \A u \in Tracks : status'[u] = IF u = t THEN "booked" ELSE status[u]
    BY <1>2 DEF Book, TypeOK
  <2>2. ASSUME NEW u \in gbtable PROVE status'[u] \in Used
    <3>1. CASE status[u] \in Used
      BY <1>1, <2>1, <3>1 DEF Used
    <3>2. CASE status[u] \notin Used
      <4>1. zinfo.phases = 3 /\ IF ReusesTrimed THEN u = t ELSE \A w \in Tracks : status[w] # "free"
        BY <3>2 DEF BatchInv, GivenUp
      <4>2. ReusesTrimed /\ u = t
        BY <1>2, <4>1 DEF IsFree
      <4>3. QED
        BY <1>1, <2>1, <4>2 DEF Used
    <3>3. QED
      BY <3>1, <3>2
  <2>3. Take(t, lba0) /\ lba0 \in [Tracks -> LBAs]
    BY <1>2 DEF Book, TypeOK
  <2>4. \A u \in Tracks : status'[u] = "booked" /\ u # t => lba0[u] < Target
    BY <2>1 DEF BatchInv
  <2>5. QED
    BY <2>1, <2>2, <2>3, <2>4, TakeBatch DEF Used
<1>3. CASE TryTrack(t) /\ ~(IsFree(t) /\ Type(t) = "normal")
  <2>1. UNCHANGED <<status, lba0, gbtable, pc, cur>> /\ Target' = Target
    BY <1>3 DEF TryTrack, GoRound, Target
  <2>2. ASSUME NEW u \in gbtable, status[u] \notin Used PROVE GivenUp(u)'
    <3>1. zinfo.phases = 3 /\ IF ReusesTrimed THEN u = t ELSE \A w \in Tracks : status[w] # "free"
      BY <2>2 DEF BatchInv, GivenUp
    <3>2. status[u] \in {"free", "trimed"} /\ Type(u) = "normal"
      BY <1>1, <2>2 DEF TypeOK, LinkInv, Used
    <3>3. ~ReusesTrimed
      BY <1>3, <3>1, <3>2 DEF IsFree
    <3>4. QED
      BY <2>1, <3>1, <3>3 DEF GivenUp
  <2>3. QED
    BY <2>1, <2>2 DEF BatchInv
<1>4. QED
  BY <1>2, <1>3 DEF TryTrack

LEMMA GiveUpBatch ==
  ASSUME TypeOK, PhaseInv, LinkInv, HomeInv, ColdInv, BatchInv, AllocGiveUpBuffer
  PROVE  BatchInv'
<1>g. PICK v \in Scps :
           /\ (ltp' = ltp /\ lba0' = lba0) \/ \E c \in Tops : Exchanged(v, c, ltp', lba0')
           /\ \A u \in Tracks : status'[u] = IF u = v THEN "trimed" ELSE status[u]
           /\ zinfo' = [zinfo EXCEPT !.current_track = v]
  BY GiveUpIs
<1> DEFINE b == ptt[v].scp_pba
<1>1. v \in Tops /\ v \in Tracks /\ v \in Nat /\ b \in Tracks /\ status[b] = "in_use"
  BY ScpVictim, TracksNat DEF LinkedTo
<1>2. pc = "alloc" /\ pc' = pc /\ Target' = Target /\ gbtable' = gbtable /\ gbtable \subseteq Tracks
      /\ zinfo.phases = 3 /\ zinfo.current_track > N /\ zinfo.current_track \in Nat
  BY AllocatorSteps DEF AllocGiveUpBuffer, Phase3Over, Allocating, Target, TypeOK
<1>3. zinfo'.phases = 3 /\ zinfo'.current_track = v
  BY <1>1, <1>2, <1>g, AllocatorField DEF AllocatorIs
<1>4. \A t \in Tracks : status[t] # "free"
  <2>1. \A t \in Tracks : t \in Nat /\ ~(t >= zinfo.current_track)
    BY <1>2, Ends DEF Tracks
  <2>2. QED
    BY <1>2, <2>1, TopOrBottom DEF PhaseInv
<1>5. ASSUME NEW t \in Tracks, status'[t] = "booked" PROVE lba0'[t] < Target
  <2>1. status[t] = "booked" /\ lba0[t] < Target
    BY <1>2, <1>5, <1>g DEF BatchInv
  <2>2. lba0'[t] = lba0[t]
    BY <1>1, <1>g, <2>1 DEF Exchanged
  <2>3. QED
    BY <2>1, <2>2
<1>6. ASSUME NEW t \in gbtable, status'[t] \notin Used PROVE GivenUp(t)'
  <2>1. ASSUME status[t] \notin Used, ReusesTrimed PROVE FALSE
    <3>1. t = zinfo.current_track /\ t \in Tracks
      BY <1>2, <2>1 DEF BatchInv, GivenUp
    <3>2. QED
      BY <1>2, <3>1, Ends DEF Tracks
  <2>2. ReusesTrimed => t = v
    BY <1>2, <1>6, <1>g, <2>1
  <2>3. \A u \in Tracks : status'[u] # "free"
    BY <1>4, <1>g
  <2>4. QED
    BY <1>2, <1>3, <2>2, <2>3 DEF GivenUp
<1>7. QED
  BY <1>2, <1>5, <1>6 DEF BatchInv

LEMMA SearchBatch ==
  ASSUME TypeOK, InstrInv, LinkInv, HomeInv, ColdInv, BatchInv, Search
  PROVE  BatchInv'
<1>1. /\ pc = "search" /\ gbtable \subseteq Tracks /\ lba0 \in [Tracks -> LBAs]
      /\ \A t \in gbtable : status[t] \in Used
      /\ \A t \in Tracks : status[t] = "booked" => lba0[t] < Target
  <2>1. pc = "search"
    BY DEF Search, SearchForeign, SearchNew, SearchBuffered, SearchInPlace, SearchMove,
      SearchNoFreeTop, SearchMoveFull, SearchMoveStops, SearchMoves
  <2>2. QED
    BY <2>1 DEF BatchInv, GivenUp, Stopped, TypeOK
<1>2. CASE SearchForeign
  <2>1. UNCHANGED <<status, lba0, gbtable>> /\ (pc' = "search" => Target' = Target + 1) /\ pc' # "alloc"
    <3>1. cur.lba \in Nat /\ cur.i \in Nat
      BY BlockNat
    <3>2. pc' = "search" => cur' = [cur EXCEPT !.i = @ + 1]
      BY <1>2 DEF SearchForeign, NextBlock
    <3>3. cur \in Instructions
      BY DEF TypeOK
    <3>4. pc' = "search" => cur'.lba = cur.lba /\ cur'.i = cur.i + 1
      BY <3>2, <3>3 DEF Instructions
    <3>5. QED
      BY <1>2, <3>1, <3>4 DEF SearchForeign, NextBlock, Target
  <2>2. \A t \in Tracks : lba0[t] \in Nat /\ Target \in Nat
    BY <1>1, TargetIn, Ends
  <2>3. \A t \in Tracks : status[t] = "booked" => lba0[t] < Target + 1
    BY <1>1, <2>2
  <2>4. QED
    BY <1>1, <2>1, <2>3 DEF BatchInv
<1>3. CASE SearchNew
  BY <1>1, <1>3 DEF SearchNew, BatchInv, Target
<1>4. CASE SearchBuffered \/ SearchInPlace
  <2> DEFINE p == ltp[Target].pba
  <2>1. Target \in LBAs /\ ltp[Target].valid /\ p \in Tracks /\ ptt[p].tba \in Tracks
    BY <1>4, TargetIn DEF SearchBuffered, SearchInPlace, Present, TypeOK
  <2>2. HomeIs(Target, p, ptt, lba0, status)
    BY <2>1 DEF HomeInv
  <2>3. CASE SearchInPlace
    BY <1>1, <2>1, <2>3, TakeBatch DEF SearchInPlace, Present, Used
  <2>4. CASE SearchBuffered
    <3>1. Type(ptt[p].tba) = "buffered"
      BY <2>2, <2>4 DEF SearchBuffered, HomeIs, Type
    <3>2. status[ptt[p].tba] \in Used
      BY <2>1, <3>1 DEF LinkInv, TypeOK, Used
    <3>3. QED
      BY <1>1, <2>1, <2>4, <3>2, TakeBatch DEF SearchBuffered
  <2>5. QED
    BY <1>4, <2>3, <2>4
<1>5. ASSUME NEW p \in Bottoms, SearchMove(p) PROVE BatchInv'
  <2>1. PICK t \in NextOf(EmptyTops, current_top_buffer_track) :
          status' = [status EXCEPT ![t] = "booked"] /\ Take(t, lba0)
    BY <1>5 DEF SearchMove
  <2>2. t \in Tracks
    BY NextOfIn, EmptyTopsFree, Ends
  <2>3. \A u \in Tracks : status'[u] = IF u = t THEN "booked" ELSE status[u]
    BY <2>1, <2>2 DEF TypeOK
  <2>4. QED
    BY <1>1, <2>1, <2>2, <2>3, TakeBatch DEF Used
<1>6. ASSUME NEW p \in Bottoms, SearchMoveFull(p) PROVE BatchInv'
  <2>1. PICK v \in Scps :
          Take(v, lba0) /\ status' = [[status EXCEPT ![v] = "trimed"] EXCEPT ![v] = "booked"]
    BY <1>6, MoveFullBack
  <2>2. v \in Tracks
    BY ScpVictim
  <2>3. \A u \in Tracks : status'[u] = IF u = v THEN "booked" ELSE status[u]
    BY <2>1, <2>2 DEF TypeOK
  <2>4. \A t \in Tracks : status'[t] = "booked" /\ t # v => lba0[t] < Target
    BY <1>1, <2>3
  <2>5. status'[v] \in Used /\ \A t \in gbtable : status'[t] \in Used
    BY <1>1, <2>2, <2>3 DEF Used
  <2>6. QED
    BY <1>1, <2>1, <2>2, <2>4, <2>5, TakeBatch
<1>7. CASE \E p \in Bottoms : SearchNoFreeTop(p) \/ SearchMoveStops(p)
  BY <1>1, <1>7 DEF SearchNoFreeTop, SearchMoveStops, ScpStops, BatchInv
<1>8. QED
  BY <1>2, <1>3, <1>4, <1>5, <1>6, <1>7 DEF Search

LEMMA NextBatch ==
  ASSUME TypeOK, PhaseInv, InstrInv, LinkInv, HomeInv, ColdInv, BatchInv, [Next]_vars
  PROVE  BatchInv'
<1>1. CASE \E l \in LBAs, n \in 1 .. MaxBlocks, f \in Fids : StartWrite(l, n, f)
  BY <1>1 DEF StartWrite, InstrInv, LinkInv, BatchInv
<1>2. CASE (\E f \in Fids : Delete(f)) \/ \E f \in Fids : DeleteStops(f)
  BY <1>2 DEF Delete, DeleteStops, InstrInv, BatchInv
<1>3. CASE Flush
  BY <1>3 DEF Flush, BatchInv
<1>4. CASE Alloc
  <2>1. CASE AllocStops \/ AllocDiskFull
    BY <2>1 DEF AllocStops, ScpStops, AllocDiskFull, BatchInv, GivenUp, Stopped
  <2>2. CASE AllocPhase1 \/ AllocPhase2 \/ AllocPhase3 \/ AllocPhase3Trigger
    <3>1. pc = "alloc" /\ zinfo.current_track \in Tracks /\ TryTrack(zinfo.current_track)
      BY <2>2, TrackTried, Ends
        DEF AllocPhase1, AllocPhase2, AllocPhase3, AllocPhase3Trigger, Allocating
    <3>2. zinfo.phases = 3 => zinfo'.phases = 3
      <4>1. CASE AllocPhase1 \/ AllocPhase2
        BY <4>1 DEF AllocPhase1, AllocPhase2, Allocating
      <4>2. CASE AllocPhase3
        BY <4>2, AllocatorSteps DEF AllocPhase3, Allocating, AllocatorIs
      <4>3. CASE AllocPhase3Trigger
        BY <4>3 DEF AllocPhase3Trigger
      <4>4. QED
        BY <2>2, <4>1, <4>2, <4>3
    <3>3. QED
      BY <3>1, <3>2, BookBatch
  <2>3. CASE AllocPhase1Full
    <3>1. pc = "alloc" /\ zinfo.current_track \in Tracks /\ zinfo.phases = 1
      BY <2>3, TrackTried, Ends DEF AllocPhase1Full, Allocating
    <3>2. \E t \in Tracks : (IsFree(t) /\ Book(t)) \/ TryTrack(t)
      BY <2>3, <3>1 DEF AllocPhase1Full, FirstOf, EveryOther
    <3>3. QED
      BY <3>1, <3>2, BookBatch
  <2>4. QED
    BY <1>4, <2>1, <2>2, <2>3, GiveUpBatch DEF Alloc
<1>5. CASE UNCHANGED vars
  BY <1>5 DEF vars, BatchInv, GivenUp, Target
<1>6. QED
  BY <1>1, <1>2, <1>3, <1>4, <1>5, SearchBatch DEF Next, DeleteFile, Progress

-----------------------------------------------------------------------------
(* scp finds nothing it cannot write back, save in the middle of an         *)
(* instruction.                                                             *)

LEMMA NextScpSafe ==
  ASSUME TypeOK, PhaseInv, InstrInv, LinkInv, HomeInv, ScpSafe, [Next]_vars
  PROVE  ScpSafe'
<1>w. \A v \in Victims : Writable(v)
  <2>1. Victims \subseteq Buffered
    BY NextOfIn DEF Victims
  <2>2. QED
    BY <2>1 DEF LinkInv, LinksAgree, Writable, IsFree
<1>k. ASSUME pc' \notin {"bad_bottom", "bad_delete"} PROVE ScpSafe'
  BY <1>k DEF ScpSafe
<1>s. ASSUME ScpStops, pc \in {"search", "alloc"} PROVE ScpSafe'
  <2>1. CASE \E v \in Victims : Writable(v) /\ ~Deletable(v) /\ pc' = "bad_delete"
    <3>1. PICK v \in Victims : ~Deletable(v)
      BY <2>1
    <3>2. v \in Tracks /\ Type(v) = "buffered" /\ status[v] # "in_use"
      BY <3>1, NextOfIn, Ends DEF Victims, Buffered, Deletable
    <3>3. status[v] = "booked"
      BY <3>2 DEF LinkInv, TypeOK
    <3>4. cur.i # 0
      BY <1>s, <3>2, <3>3 DEF LinkInv, InstrInv
    <3>5. cur.n > 1
      BY <3>4, TraceAssumption DEF InstrInv, TypeOK, Instructions
    <3>6. cur' = cur
      BY <1>s DEF ScpStops
    <3>7. QED
      BY <2>1, <3>5, <3>6 DEF ScpSafe
  <2>2. QED
    BY <1>s, <1>w, <1>k, <2>1 DEF ScpStops
<1>1. CASE \E l \in LBAs, n \in 1 .. MaxBlocks, f \in Fids : StartWrite(l, n, f)
  BY <1>1, <1>k DEF StartWrite
<1>2. CASE \E f \in Fids : Delete(f)
  BY <1>2, <1>k DEF Delete
<1>3. CASE \E f \in Fids : DeleteStops(f) /\ ~AllInUse(f)
  <2>1. PICK f \in Fids : DeleteStops(f) /\ ~AllInUse(f)
    BY <1>3
  <2>2. pc = "idle" /\ gbtable = {} /\ \A t \in Tracks : status[t] # "booked"
    BY <2>1 DEF DeleteStops, InstrInv, LinkInv
  <2>3. ASSUME NEW l \in BlocksOf(f)
        PROVE  status[lba_to_tba(l)] = "in_use" /\ lba0[lba_to_tba(l)] = l
    <3>1. l \in LBAs /\ ltp[l].valid /\ ltp[l].pba \in Tracks /\ HomeIs(l, ltp[l].pba, ptt, lba0, status)
          /\ ptt[ltp[l].pba].tba \in Tracks
      BY DEF BlocksOf, HomeInv, TypeOK
    <3>2. lba0[lba_to_tba(l)] = l
      BY <3>1, Resolved
    <3>3. Type(ltp[l].pba) \in Types
      BY <3>1 DEF TypeOK, Type
    <3>4. CASE Type(ltp[l].pba) = "normal"
      BY <2>2, <3>1, <3>2, <3>4 DEF HomeIs, lba_to_tba
    <3>5. CASE Type(ltp[l].pba) = "top_buffer"
      <4> DEFINE t == ptt[ltp[l].pba].tba
      <4>1. t \in Tracks /\ Type(t) = "buffered" /\ lba_to_tba(l) = t
        BY <3>1, <3>5 DEF HomeIs, lba_to_tba, Type
      <4>2. status[t] \notin {"free", "trimed", "booked"}
        BY <2>2, <4>1 DEF LinkInv
      <4>3. QED
        BY <3>2, <4>1, <4>2 DEF TypeOK
    <3>6. QED
      BY <3>1, <3>3, <3>4, <3>5 DEF HomeIs, Types, Type
  <2>4. AllInUse(f)
    BY <2>3 DEF AllInUse, TracksOf
  <2>5. QED
    BY <2>1, <2>4
<1>4. CASE Flush
  BY <1>4, <1>k DEF Flush
<1>5. CASE Search
  <2>1. CASE \E p \in Bottoms : SearchMoveStops(p)
    BY <1>s, <2>1 DEF SearchMoveStops, SearchMoves
  <2>2. QED
    BY <1>5, <1>k, <2>1 DEF Search, SearchForeign, SearchNew, SearchBuffered, SearchInPlace,
      SearchMove, SearchNoFreeTop, SearchMoveFull, Take, NextBlock
<1>6. CASE Alloc
  <2>1. CASE AllocStops
    BY <1>s, <2>1 DEF AllocStops, Phase3Over, Allocating
  <2>2. QED
    BY <1>6, <1>k, <2>1 DEF Alloc, AllocPhase1, AllocPhase1Full, AllocPhase2, AllocPhase3Trigger,
      AllocPhase3, AllocGiveUpBuffer, AllocDiskFull, TryTrack, Book, GoRound, Take, NextBlock, Phase3Over, Allocating
<1>7. CASE UNCHANGED vars
  BY <1>7 DEF vars, ScpSafe
<1>8. QED
  BY <1>1, <1>2, <1>3, <1>4, <1>5, <1>6, <1>7 DEF Next, DeleteFile, Progress

-----------------------------------------------------------------------------
(* The initial states, and the theorems.                                   *)

LEMMA InitInv == Init => TBInv
<1> SUFFICES ASSUME Init PROVE TBInv
  OBVIOUS
<1>1. TypeOK
  <2>1. top_buffer_start \in Tops
    BY NextTopTrack, Geometry DEF top_buffer_start
  <2>2. report \in Reports
    <3>1. report \in [max_top_buffer_num : Capacities, current_top_buffer_count : {0}]
      BY DEF Init
    <3>2. Capacities \subseteq 0 .. N /\ 0 \in 0 .. N
      BY TopBufferAssumption, Ends
    <3>3. QED
      BY <3>1, <3>2 DEF Reports
  <2>3. zinfo \in Allocators
    BY Geometry DEF Init, Allocators
  <2>4. NoInstruction \in Instructions
    BY Ends, TraceAssumption DEF NoInstruction, Instructions
  <2>5. QED
    BY <2>1, <2>2, <2>3, <2>4, Ends DEF Init, TypeOK, Allocators, Reports, Types
<1>2. PhaseInv
  BY Geometry, Ends, TracksNat DEF Init, PhaseInv, FullMeansFull
<1>3. InstrInv
  BY Ends DEF Init, InstrInv, NoInstruction
<1>4. LinkInv
  <2>1. \A t \in Tracks : Type(t) = "normal" /\ status[t] = "free"
    BY DEF Init, Type
  <2>2. Lent = {} /\ Buffered = {}
    BY <2>1, Ends DEF Lent, Buffered
  <2>3. count = 0 /\ count <= report.max_top_buffer_num
    <3>1. report.current_top_buffer_count = 0 /\ report.max_top_buffer_num \in 0 .. N
      BY TopBufferAssumption DEF Init
    <3>2. QED
      BY <3>1, Ends DEF count
  <2>4. CountRight
    BY <2>2, <2>3, FS_EmptySet DEF CountRight, Lent
  <2>5. QED
    BY <2>1, <2>2, <2>4 DEF LinkInv, LinksAgree
<1>5. HomeInv
  <2>1. Buffered = {}
    BY Ends DEF Init, Buffered, Type
  <2>2. QED
    BY <2>1 DEF Init, HomeInv
<1>6. ColdInv /\ BatchInv
  BY Ends DEF Init, ColdInv, BatchInv, Used
<1>7. ScpSafe
  BY DEF Init, ScpSafe
<1>8. QED
  BY <1>1, <1>2, <1>3, <1>4, <1>5, <1>6, <1>7 DEF TBInv

LEMMA NextInv == TBInv /\ [Next]_vars => TBInv'
  BY NextType, NextPhase, NextInstr, NextLink, NextHome, NextCold, NextBatch, NextScpSafe DEF TBInv

(* The inductive invariant of the buffering builds (lba.c:319-349,         *)
(* pba.c:56-189, top_buffer.c, scp.c).                                     *)
THEOREM BufferInvariant == Spec => []TBInv
  BY InitInv, NextInv, PTL DEF Spec

(* The record of the allocator, the tables and the cursors keep their types, *)
(* and the allocator tries tracks of the disk only (pba.c:56-189).           *)
THEOREM TopBufferTypes == Spec => []TypeOK
<1>1. TBInv => TypeOK
  BY DEF TBInv
<1>2. QED
  BY <1>1, BufferInvariant, PTL

(* The two ends of a link agree (top_buffer.c:47-65, scp.c:104-118).       *)
THEOREM LinksAlwaysAgree == Spec => []LinksAgree
<1>1. TBInv => LinksAgree
  BY DEF TBInv, LinkInv
<1>2. QED
  BY <1>1, BufferInvariant, PTL

(* The count is that of the bottom tracks with a top buffer, and never      *)
(* exceeds the maximum, which shrinks (top_buffer.c:62-64, 112-115,         *)
(* scp.c:119, pba.c:158-164).                                              *)
THEOREM CountAlwaysRight == Spec => []CountRight
<1>1. TBInv => CountRight
  BY DEF TBInv, LinkInv
<1>2. QED
  BY <1>1, BufferInvariant, PTL

(* scp never meets a bottom track it cannot write back to, nor, but for     *)
(* instructions of several blocks, a buffer it cannot delete                *)
(* (scp.c:98-105, 131, chs.c:36-46).                                       *)
THEOREM ScpAlwaysSafe == Spec => []ScpSafe
<1>1. TBInv => ScpSafe
  BY DEF TBInv
<1>2. QED
  BY <1>1, BufferInvariant, PTL

(* Every valid block resolves, with block swapping off or on, to a track    *)
(* that holds it and that is in use or in the batch (pba.c:463-472,         *)
(* top_buffer.c:47-95, scp.c:89-146, block_swap.c:97-103,                   *)
(* active_swap.c:42-51).                                                    *)
THEOREM BlocksAlwaysResolve == Spec => []Resolves
<1>1. TBInv => Resolves
  <2> SUFFICES ASSUME TBInv, NEW l \in LBAs, ltp[l].valid
               PROVE  lba0[lba_to_tba(l)] = l
                      /\ (status[lba_to_tba(l)] = "in_use" \/ lba_to_tba(l) \in gbtable)
    BY DEF Resolves
  <2> DEFINE p == ltp[l].pba
             t == lba_to_tba(l)
  <2>1. TypeOK /\ LinkInv /\ HomeInv
    BY DEF TBInv
  <2>2. t \in Tracks /\ lba0[t] = l
    BY <2>1, Resolved
  <2>3. HomeIs(l, p, ptt, lba0, status) /\ p \in Tracks /\ Type(p) \in Types
    BY <2>1 DEF HomeInv, TypeOK, Type
  <2>4. status[t] \notin {"free", "trimed"}
    <3>1. CASE Type(p) = "normal"
      BY <2>3, <3>1 DEF HomeIs, lba_to_tba
    <3>2. CASE Type(p) = "top_buffer"
      <4>1. t = ptt[p].tba /\ Type(t) = "buffered"
        BY <2>3, <3>2 DEF HomeIs, lba_to_tba, Type
      <4>2. QED
        BY <2>1, <2>2, <4>1 DEF LinkInv
    <3>3. QED
      BY <2>3, <3>1, <3>2 DEF HomeIs, Types, Type
  <2>5. status[t] \in {"free", "booked", "in_use", "trimed"} /\ (status[t] = "booked" => t \in gbtable)
    BY <2>1, <2>2 DEF TypeOK, LinkInv
  <2>6. QED
    BY <2>2, <2>4, <2>5
<1>2. QED
  BY <1>1, BufferInvariant, PTL

(* The disk is reported full only when no track is left that was never      *)
(* written (pba.c:133-189).                                                *)
THEOREM FullMeansWritten == Spec => []FullMeansFull
<1>1. TBInv => FullMeansFull
  BY DEF TBInv, PhaseInv
<1>2. QED
  BY <1>1, BufferInvariant, PTL
=============================================================================
