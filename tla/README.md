# A verification of the IMR-Dedupe simulator

IMR-Dedupe (`src/imr_simulator-master`) simulates an interlaced magnetic
recording disk: wide bottom tracks, and narrow top tracks that overlap them, so
that rewriting a bottom track means reading and rewriting its top neighbours.
The simulator replays a trace of logical reads, writes and trims and counts what
they cost. The makefile builds one program per design; the deduplicating ones
(`dedupe_write`, `new_alloc`) keep one track per content, put shared -- hence
rarely rewritten -- content on bottom tracks where they can, and swap a block
that is about to be overwritten with a shared one.

The program is a single thread. What makes it hard is the long history behind
every operation: five tables (the tracks with their owner lists and counts, the
logical table, the hash index, the allocator's phases, the batch) have to agree
after any sequence of writes, updates, trims, restores and swaps, near and past
the limits of each.

## 1. Inventory

| part | state | operations | what makes it correct |
|---|---|---|---|
| disk geometry (`init_disk`, lba.c:48-321) | bounds of the four allocation phases | computed once | every track belongs to the phase it should, for every disk size |
| allocator (`zalloc_find_next_pba`, pba.c:39-258) | `zinfo`: phase, current track, full flag | one search per new block | books free tracks only, bottoms first, ends, gives up only on a full disk |
| lookup (`dedupe_pba_search`, pba.c:745-899; `DEDU_update`, `is_in_storage`, `find_swapped_pba`) | logical table `ltp` | where does a block go: keep, swap, restore, share, take over, allocate | never hands a block a track whose content others rely on |
| store (`dedupe_lba_write`, lba.c:614-680) and batch (`batch_add`, `batch_write`) | tracks: content hash, count of further owners, owner list, status; `gbtable` | store or share each block of an instruction, then flush | contents, counts and lists agree; nothing is left pending |
| trim (`dedupe_trim`, lba.c:700-770) | the same | forget a block, vacate a track with its last owner | finds the owner it removes |
| swap (`DEDU_createBlockSwap`, active_swap.c:8-60; `find_empty_block_swap`) | the same, and the hash index | exchange a bottom and a top track with all their owners | every logical block keeps its content |
| hash index (`hash_table.c`) | open addressing table, one cell per track | `insert`, `deleteItem` (and `searchItem`, without callers) | every probe ends; what a track holds is in the table, within reach |
| phase-1 buffer (`new_alloc`: lba.c:774-1004, pba.c:51-101) | `phase1_buf`, `report.used_buffer_count` | buffer a write, join a buffered block of the same content, flush the full buffer | a block keeps its content in the buffer, in the middle of a flush and after it; owners go past the end of an array by one at most; loops and flushes end |
| batched journaling (`batch.c`, `record_op.c`) | tracks to read and to rewrite | extend a batch by neighbours, write it | every overlapped neighbour is rewritten once |
| top buffer, second chance (`top_buffer.c`, `scp.c`) | links `ptt` between bottom and top tracks, count and maximum of buffers | move a block to a top track, write a buffered track back | the ends of a link agree, the count is theirs, nothing is written back to a track without a buffer |
| file-id path (`lba.c`, `pba.c`, `block_swap.c`, `rw.c`; `nodedupe`, `blockswap`) | `ltp`, the allocator, the batch | write, delete a file, trade a bottom for a cold top track | a block resolves through its links to a track that holds it, block swapping or not |
| virtual groups (`virtual_groups.c`, `fid_table.c`, `ring_buffer.c`) | zones, groups, history of a file | place, migrate | (does not compile, section 6) |
| cost model, parsing, reports (`chs.c`, `parse.c`, `output.c`, `dump.c`, `min_access.c`) | counters, files | I/O | - |

How the parts interact: `parse` hands one instruction at a time to
`dedupe_lba_write` or `dedupe_trim`. For each block of a write the lookup is
called first; it changes the logical table and the counts itself, may swap two
tracks (which moves both tracks' owners in the logical table and both contents
in the hash index) and may call the allocator. The store then decides by the
count of owners whether to write the track, join its owners or exit, and hands
the track to the batch, which is flushed at the end of the instruction.

The hazards of the code, with the properties that watch them, are listed in
`PROJECT.json`. The hard ones: the lookup changes state before the store may
refuse (partial failure); a trimmed entry keeps an old track number (stale
state); the list of owners is scanned by the wrong track's count; a flag
survives from one block of an instruction to the next; top tracks skipped in one
phase must be found in a later one; the phase-3 search runs off the end of the
array; a full hash table has no cell at which a failing probe would stop; a flush is
set off by a write that is not done yet, and the first write of phase 2 flushes the
last buffer a second time; a buffered top track carries stale links once it was
deleted or written back; the last phase takes tracks from the buffer while it allocates.

## 2. Modules

| module | models |
|---|---|
| `ImrDisk` | tracks and phase bounds, as `init_disk` computes them |
| `DedupWrite` | the `dedupe_write` build: lookup, swap, allocator, store, batch, trim |
| `NewAlloc` | the `new_alloc` build: phase-1 buffer, flush and allocator, over `DedupWrite`; its own refinement mapping to `LogicalStore` |
| `TopBuffer` | the `nodedupe` and `blockswap` builds: file-id writes and deletions, top buffer, second chance, allocator |
| `LogicalStore` | abstract specification: a map from logical blocks to contents |
| `DedupStore` | `DedupWrite` with the refinement mapping to `LogicalStore` |
| `TrackContent` | abstract specification: tracks get content, or exchange it |
| `HashTable` | the hash index under the calls the write path makes; extends `TrackContent` |
| `Batch` | batches of tracks, their extension, and what they are charged |
| `ImrDiskProofs`, `DedupWriteProofs`, `DedupStoreProofs`, `HashTableProofs`, `BatchProofs`, `TopBufferProofs`, `NewAllocProofs`, `NewStoreProofs` | theorems and proofs |
| `MCDedupWrite`, `MCDedupStore`, `MCNewAlloc`, `MCTopBuffer`, `MCHashTable`, `MCBatch` | constants for TLC |

The makefile's targets that compile at this commit are `nodedupe`, `dedupeorigin`,
`dedupe_write`, `new_alloc`, `blockswap` and `blockswap_virtual`. A definition named
`X_Bug` is `X` with a plausible mistake; no specification uses it.

### DedupWrite

State and code: `status`, `hash`, `refs`, `lba_list` are the fields `status`,
`hash`, `referenced_count` and `lba` of `struct block` (`lba_capacity` is the
length of the list, an unassigned cell is `NoLba`); `ltp` is the logical table,
`zinfo` the allocator, `current_use` is `report.current_use_block_num`,
`gbtable` the batch. `pc` and `cur` are the control point and the locals of
`dedupe_lba_write`, among them `pass` and the loop counter.

One write is a chain of steps, `search` -> (`alloc` ...) -> `store` -> `search`
for the next block or `flush`. `Search*` has one action per branch of
`dedupe_pba_search` with everything the branch calls; a swap with its logical
table repair is one such step. `Alloc*` has one action per branch of one
iteration of the allocator's loop. `Store*` are the three outcomes of the store,
including the early `return 0` and the `exit`. A trim is one step, since nothing
can happen during it.

Abstractions: a block fills a track; content is its hash; time, counters for the
reports and output are left out. `current_use` is capped at the number of bottom
tracks (`UseCap`), since it is only compared with smaller numbers. Reads outside
the array `storage` (the neighbours of the first, the last, and a nonexistent
track) answer anything in `OutOfBounds`; cells of owner arrays that were never
assigned hold anything in `Garbage`. A process that exits, jumps through the
`env` nobody set, or writes outside an array stops (`Stopped`). A trim addresses
a block of the table; the program does not test that.

`Trace` restricts what instructions the trace holds, by what they come to when
they are issued (`KindOf`): first write in order (`append`) or not (`fresh`),
rewriting the same content (`same`, `same_shared`), other content (`update`,
`update_shared`), writing a trimmed block (`rewrite`, `rewrite_taken` when its
track was taken by another, `restore`), one past the table (`beyond`), `trim`.
It only restricts the input, never what the program does with it.

### NewAlloc

`buf` is `phase1_buf`: each block has a content, the owners assigned so far and a
capacity (`referenced_count` is the number of owners less one). `used` is
`report.used_buffer_count`, `next_bottom` is `report.next_bottom_to_write`,
`buffer_flushed` the flag of that name. `fi` is the loop index of `buffer_flush`, 0
outside of it; a flush shares the control points of a write, so `fi` tells them
apart, and `after` holds the instruction that set the flush off. `ShareOnDisk`,
`JoinBuffered` and `FillBlock` are the branches of `dedupe_lba_write_p1_buf` and
`buffer_write`; `FlushUpdate`, `FlushRestore`, `FlushNew`, `FlushJoin`, `FlushStore`
those of `buffer_flush`, and `FlushGrow` one round of the two loops in it that double
an array, the loops whose end is in question. `FlushAgain` is the second flush, that of
the first write of phase 2, and `NewPhase1*` the allocator's branch for this build.
Lookup, swap, the later phases and the trim are `DedupWrite`'s own actions; the store
is written anew, since this build writes each block's batch at once and grows arrays
later.

Arrays of owners have the cells that the code allocates: two on a track, doubled by
`Increase`; on a buffer block one more than its capacity until the first doubling
(`BufferCells`), then what the capacity says. In four places the program writes the cell
just past an array, each a condition of its own: sharing a track whose array is full
(`SharesPast`, lba.c:862-866), joining a buffer block whose array was doubled (`JoinsPast`,
896-902), clearing such an array for its next use (`ClearsPast`, 911), and storing a
buffer block on a track (`StoresPast`, 989-997). What comes of that is up to the
allocator of the C library, so `SpareCell` holds the answers to try. `TRUE`: the cell is
nobody else's, since `malloc` rounds sizes up, and what was written stays there, also when
`realloc` moves the array; a list here gets the cell with the first such write
(`Reaching`). `FALSE`: the write hits what belongs to others, and nothing can be said of the
program from there on (`Overrun` leads to the control point "undefined"). The runs try
both. All four writes do happen in `new_alloc`; `JoinsPast` and `StoresPast` also in the
plain traces of `buffered`. `OneCellPast` says that one cell is the worst of it.

Traces: those of `new_alloc` are arbitrary, of at most `MaxInstr` instructions (`budget`;
lists would grow without end). The plain traces (`PlainWrite`, `PlainTrim`) are those on
which the build keeps what it is given: first writes of blocks that are not in the buffer,
and trims of such blocks, in phase 1; a second flush; then what `store` has, trims
included. They leave out what it does not handle, each seen in a counterexample: of an
instruction of several blocks phase 1 handles the first only; when a buffered block is
written again with other content the flush's order, not the order of the writes, decides;
an update that the flush meets on a shared track is written over the others' content; a
trim of a buffered block is lost, and the second flush brings back what was trimed after
the first. A write of content that a trimed track still holds is left out of phase 1 as
well. The code and its comments promise nothing of these cases, so no finding is made of
them.

### TopBuffer

`ptt` is the table of links (`tba`, `scp_pba`, `type`), `lba0` the first cell of a
block's `lba` array, the only one these builds use, `report` the count and maximum of
buffered tracks, `enable_top_buffer` and `initialized` the flags of pba.c. One block of
an instruction is one step (`Search*`, which has the branches of `pba_search` with
`run_top_buffer` and `run_scp`), or one iteration of the allocator's loop (`Alloc*`).
`ScpOutcomes` is what `run_scp` makes of tables and tracks. `DeleteFile` is
`native_lba_delete`. `ReusesTrimed` tells the two readings of `storage_is_free` apart.

Abstractions: the counts of writes by which `find_empty_block_swap` picks a cold track
are left out, so it may be any track of the kind or none (`ColdTops`); an error exit
leaves the tables as they were, for the program ends; the cursor from which victims and
empty tops are sought is kept, with its wrap-around. The trace addresses blocks of the
table.

### HashTable

`insert`, `deleteItem` and `searchItem` are functions from tables to the set of
their results, which is empty if the probe never stops. Cells become `NULL` only
at the start; deletion leaves a dummy. `IndexedWrite` and `IndexedSwap` make the
calls of lba.c:668-669 and active_swap.c:22-28. `DedupWrite` leaves the index
out: nothing reads it (the call of `searchItem`, pba.c:573, is commented out), so
the only way it could matter is by a call that never returns, and there is none:
theorem `ContentFollows` shows that `DedupWrite` does to the tracks' contents only
what `TrackContent` allows, and theorem `CallsReturn` that the index keeps up with
whatever `TrackContent` allows. `duplicated` is a history variable; in this build
two tracks may come to hold the same content (an update does not look for its new
content elsewhere), and from then on an item may name the wrong track. The calls of
`buffer_flush` are not in the model: a flush of an updated block deletes one hash twice
(lba.c:979, 986), and whether the second call returns depends on where dummies lie.

### Batch

The module follows one `b_table_head_t`, of which the program has several
(`gbtable`, `mbtable`, those of `scp.c`): `block_head` and `extend_head` are its two
tables, and `first` the cell of the second that outlives `batch_clear`. `status` is
the tracks' status, with `status_invalid` counted as free; `Deleted` says which of
the two a build leaves behind (chs.c:46-50). A call begins with the sorting of the
batch (`batch_write`, `batch_read`, `batch_delete`, and `rw_block` from its second
half on, the first being a read of one track). `Extend` is one round of the loop of
`batch_extend`; `RunContinues` and `RunEnds` one round of the loops of
`record_write`, `record_delete` and `record_read`, which differ only in the counters
they feed and the table they walk, and `LastRunEnds` what follows the loop. `run`
holds their locals and `recorded` what the call has added to the report so far:
tracks written (or read, or deleted), rewritten and reread, and seeks, from which
the report's times follow.

`batch_add` takes any track that is not free, also one the batch has already:
`dedupe_lba_write` can return without flushing, and a trim and another write of the
same block then add its track again. `Elsewhere` is what else happens to tracks
while the batch fills. `DeleteFails` may happen at any delete, since the
logical table it also asks is in `DedupWrite`; the program exits then, and what it
deleted before is left out.

`DedupWrite`, `NewAlloc` and `TopBuffer` need only what a flush does to the status of
the tracks, which is `pba_write` here; the extension and the record change nothing but
the report.

## 3. Runs

| run | instance | shows |
|---|---|---|
| `any_block` | 4 tracks, 2 logical blocks, 2 contents, any trace of up to 2 blocks an instruction but for rewriting what a block alone holds (`same`), any answer out of bounds | phases in order, table leads to allocated tracks, no track freed, full means full, every step of a write leaves less to do, and the inductive invariant |
| `store` | 4 tracks, 4 logical blocks, 3 contents, traces without the operations of section 5 | refinement of `LogicalStore`, exact owner lists that fit their arrays, only a full disk stops the program |
| `phases` | 8 tracks, 8 logical blocks, 7 contents, first writes only | tops between shared bottoms, content stored once, through all four phases |
| `new_alloc` | 4 tracks, 4 logical blocks, 3 contents, a buffer of 3, any trace of 6 instructions of up to 2 blocks | the counter of phase 1 keeps up, only full buffers are flushed, arrays are overrun by one cell at most, every step of a write or flush leaves less to do |
| `buffered` | 4 tracks, 4 logical blocks, 4 contents, a buffer of 2, plain traces of any length | refinement of `LogicalStore` through buffer, flush and second flush; exact owner lists; only a full disk, or an overrun without a spare cell, stops the program |
| `top_buffer` | 4 tracks, 3 logical blocks, 2 files, room for 1 or 3 buffered tracks, any trace of writes in order and deletions | links, counts and blocks agree, scp is safe, full means full, every write ends |
| `index` | 3 cells, 4 hashes, two of which collide and wrap around | the hash index |
| `batch` | 4 tracks in any state, batches of up to 4 tracks with repeats | the extension and the charges of a batch |
| `restore`, `lost_owner`, `rewrite_shared`, `empty_batch` | as small as the case allows | section 5 |

Why the bounds are enough: on four tracks (two bottoms, two tops) every phase is
entered, both halves of the tops exist, every track has a neighbour out of bounds
or two inside, a swap has a bottom and a top, and with two logical blocks more than
one owner, with four an owner list grows past its first capacity. Phases 2 and 3
step by four tracks, which only eight tracks show; hence `phases`. In `new_alloc` six
instructions fill a buffer of three, flush it, enter phase 2, flush it again and go on;
the capacity starts at one, so that a block of three owners outgrows it. In `buffered` a
buffer of two is flushed in the middle of phase 1 and at its end, with blocks of several
owners and of tracks that were trimed; a block of three owners grows past its doubled array
and is stored past a track's. Both runs take either answer of `SpareCell`. `any_block`
leaves `same` out for its size (it passes with it, in three times the states); `store` has it,
for single blocks, and the theorems about `IInv` cover it. In `top_buffer` room for one track makes the
buffer full at the second move, so that tracks are written back; room for three on four
tracks makes the last phase close the buffer, begin block swapping and give buffers up.
With gaps in the writing order and with `ReusesTrimed = FALSE` the same holds (proved for
all but the liveness property, section 4). In `index` a table of three cells is
completely filled, probes collide, wrap around and pass dummies. In `batch`
(`MaxBatch` = 4) a bottom track lies at the end of the disk and another between two
tops, a top between two bottoms is damaged by both, and a batch may take every track or
one of them twice; an extended batch falls into as many as two runs. Contents are
symmetric in the runs without liveness. Deadlock is not checked for the write paths,
where the program exits on errors and on a full disk; nor for batches, where it exits
on an empty one; it is in `index`.

Termination: `WritesShorten` and `EachStepCloser` are action properties that say a
lexicographic measure of the work left falls with every step of a write, so no fairness
is needed beyond the program running on. `TopBuffer` has no such short measure, and
`WriteEnds` is a liveness property under `WF_vars(Progress)`: the program is one thread that
runs on by itself once it has taken an instruction; nothing is assumed of the trace.

## 4. Proofs

All theorems hold for every number of tracks divisible by four (disks are made of
gigabytes, `TrackNumAssumption`), every number of logical blocks, and the other constants
under the assumptions of their modules.

`ImrDiskProofs` has the arithmetic of the phases the others share: bounds, and which
tracks a phase steps through.

`DedupWriteProofs`, for every set of contents, every `Garbage`, `OutOfBounds` and
`MaxBlocks`, and every kind of trace:

* `InductiveInvariant`: `Spec => []IInv`, where `IInv` is the type invariant, the
  allocator's invariant, the invariant on which tracks are in use and the one on
  owner lists. The properties alone are not inductive: that a stored block is on an
  allocated track needs to know that the lookup handed out an allocated one
  (`InProgress`), that a track found by its content is allocated (`HashAllocated`)
  and so is what waits in the batch (`BatchAllocated`); that lists have room between
  instructions needs to know that only the track a write is about may have outgrown
  its array, by one (`ListInv`).
* from it `TypeCorrect`, `PhasesInOrder`, `LaterPhasesKeepToTops`, `GivesUpOnlyWhenFull`,
  `TableLeadsToAllocated`, `ListsFit` and the action property `TracksStayAllocated`;
* `EveryWriteShortens`: the measure `WorkLeft` falls with every step of a write.
  In the allocator that needs the bounds of each phase from the invariant: phase 2
  counts down to its end and phase 3 stays within the disk;
* `ContentFollows`: `DedupWrite` implements `TrackContent`.

The argument has one lemma per group of actions and conjunct (`SearchType`,
`AllocAllocator`, `StoreList`, ...), each with a step per action.

`DedupStoreProofs` proves what `DedupWrite` promises on the traces it gets right, for
every disk and set of contents. It takes `IInv` for granted and assumes as little of the
trace as the property needs:

* of any trace of single-block instructions (`SingleBlocks`), `ScanMissesNothing`: the
  window that the lookup scans in phase 1 misses no content. The window is computed from
  the count of blocks in use, so the invariant (`SingleInv`) relates that count to the
  allocator's position (`CountInv`), which in turn needs to know that the batch and the
  booked tracks are at most the one of the write at hand (`BatchInv`) and that a free
  track is not shared (`FreeUnshared`);
* of plain traces (`PlainTraces`: single blocks; kinds `append`, `fresh`, `same`, `update`,
  `rewrite`, `trim`; the cells nobody assigned name no block), `StoreInvariant`:
  `Spec => [](IInv /\ SingleInv /\ StoreInv)`. `TracksInv` says that a track no write is
  about lists its owners exactly, and in which of three conditions the track of a write
  in progress is: to be written, passed over, or joined. `EntriesInv` says that a valid
  entry leads to its content but for the one being written, and that a listed owner is
  valid or trimed, never invalid: a trimed entry keeps its track number, which is why
  ownership is said of lists and entries together. `WriteInv` says what the entry of the
  write in progress holds at each stage, and why the program may have stopped. The
  three need each other;
* from it `ContentNeverLost` (`Integrity`), `OwnersExact`, the action property
  `OthersContentKept`, `OnlyFullStops` (if reads outside the array find no track taken)
  and `ImplementsStore`: every step of `DedupWrite` is a step of `LogicalStore` or a
  stutter; a write holds its block in flight from its first step to its last, and only
  then must the block hold the new content. This includes `fresh`, which the run `store`
  leaves out for its size;
* `NothingStoredTwice` for plain traces that overwrite nothing: an update may well make
  the content of two tracks equal, as only the block's own track is looked at then.
  `OnceInv` carries from the lookup to the store that the content is on no track;
* `TopsWaitForShared` for traces of new data (`OnlyNew`: nothing overwritten or trimed), if
  reads outside the array find no track taken: what phases 2 and 3 saw of the neighbours
  stays true since a shared track stays shared (`SharedStays`).

`NewAllocProofs` proves `NewInvariant`: `NewSpec => []NewIInv`, for every size of the
buffer and of its arrays. It reuses `DedupWriteProofs`' lemmas for the actions the builds
share and adds what the buffer needs. `BufferInv`: the blocks in use hold content, and all
of them do once phase 1 is over or a flush is under way; so a flush, which never looks at
how many are used, finds nothing empty. `TurnInv`: where in a write a flush may be, that
its turns are about blocks of the table and content, that in phase 1 only a flush
allocates, and that an instruction is held up only when the buffer has been flushed for
good; so a lookup of phase 1 cannot come between a flush and its allocations. `RoomInv`:
between instructions the count of a track's owners is within the capacity of its array,
only the track a write is about to join may have outgrown it, and by one; a list has as
many cells as its array, or one more. From it `NewTypeCorrect`, `CounterAgrees`,
`NothingEmptyFlushed` and `OverrunsByOneCell`, which assumes nothing of `SpareCell`: an
overrun by a second cell is ruled out whether or not the first one did harm.
`EveryFlushShortens` compares six numbers lexicographically: the instruction's blocks
left, the buffer's blocks left to flush, the stages left of the block at hand, the phases
and then the tracks the allocator has left, and what the owners' array lacks in capacity.

`TopBufferProofs` proves `BufferInvariant`: `Spec => []TBInv`, for every set of files, every
capacity, both readings of `storage_is_free`, and traces in any order. Its parts need
each other. `LinkInv`: a track without data has no link, so that the track taken for a
move is the buffer of no other block, the two ends of a link agree, and a booked track
waits in the batch. `HomeInv`: the track an entry names knows its block and so does its
buffer, and each buffered track belongs to a valid block of the table; so the write of
`scp` to the logical table finds there what it writes. `ColdInv`: block swapping begins in
the last phase, when the top buffer is closed, and the entry of the block a cold top track is
told leads to that track; so a swap sends two blocks to each other's tracks and moves no third,
and when the cold track is the victim itself, both tracks are told the same block and the
later of the two writes of `ltp_table_swap` leaves it on the bottom track. `BatchInv`: a track
of the batch that was given up is taken again before the flush, or the write comes to no
flush, so a flush brings no track back that no entry leads to. `InstrInv`: the batch is empty
at the first block of an instruction, so that only an instruction of several blocks can
meet a buffer that is booked but not written. `PhaseInv`: the tracks behind the allocator
are not free. From it `TopBufferTypes`, `LinksAlwaysAgree`, `CountAlwaysRight`,
`ScpAlwaysSafe`, `BlocksAlwaysResolve` and `FullMeansWritten`.

`HashTableProofs` proves for every size and hash function that the table is a
permutation of the tracks' contents (`HoldsContent`: a one-to-one correspondence
of tracks and cells), with every item within reach of its probe (`Reachable`):
`IndexInvariant`. `DeleteFollows` and `InsertFollows` say what one call does;
`CallsReturn` and `SearchesFind` follow. The permutation makes room for the
insertion plain: the cell of a track without content is a place to stop. While no
two tracks ever held the same content, every item also names its holder
(`NamesHolder`, by `DeleteExact` and `InsertExact`), hence `SearchesFindHolder`.

`BatchProofs` proves `BatchInvariant` for disks and batches of every size. Its heart
is that `batch_extend` comes to the tracks in ascending order and has, before it
comes to one, a complete and ascending table for those it has visited (`ExtendInv`):
then a track already in the table can only be its last entry (`LastOrNot`), so that
comparing with that entry is enough (`ExtendTop`, `ExtendBottom`). That fails when a
track was added twice, so `ExtendInv` says it of batches without repeats
(`Distinct`). For the record it is that written, rewritten and the run at hand sum
up to the position of the loop (`RecordInv`), which holds for any batch.
`BatchesExtended` follows. `CallsChargedRight` proves `ChargedRight`, size, rewriting, reading and seeks of a call,
by a further invariant, `ChargeInv`: while the record loop is at track b of a run that
begins at track a, what is counted are the tracks before b and what is charged by the run
are the runs before a (`InRun`). A run is charged when it ends (`RunCharged`), and is read
as a whole or not at all (`RunVirtual`). It is stated over tracks, not entries, so that no
induction over the table is needed: the loop itself is the induction.

`NewStoreProofs` proves of the `new_alloc` build what `DedupStoreProofs` proves of
`dedupe_write`: for every disk, every buffer, every set of contents and plain traces of any
length. It assumes only that the cells nobody assigned name no block (`Garbage = {NoLba}`):
the program takes them from `malloc` as they are, and a cell left 0 names block 0. That
could matter only for a first write of block 0 to a shared track, which then looks as if the
track had block 0 listed already; `IInv` and `NewIInv` hold for any `Garbage`.
The properties alone are not inductive, since they say nothing of the buffer, and a flush
makes of it tracks with owners. `PlainInv`, checked by TLC on the constants of `buffered`
before it was proved, has four parts:

* `BlocksInv`: what is in the buffer only (`Unstored`) has content that no track holds,
  owners that are valid nowhere, and nothing in common with another such block; so a flush
  finds each content new, and `FlushJoin` adds owners no track lists. A block that a flush
  has dealt with (`OnTracks`) is on a track with the very content, owners and entries it
  would write: that is why the second flush, which rewrites every block, changes nothing;
* `BookedInv`: at most the track of the write at hand is booked, and it is not shared;
* `InstructionInv`: what a flush's turn is about, and that the instruction it holds up is
  still plain when it goes on, the state having changed under it;
* `SettledInv`: `StoreInv` of `DedupStoreProofs`; during the last flush, which writes
  without a write of a block being in progress, that all tracks are settled.

`PlainInvariant` follows action by action; `Overrun` ends the behaviour, so that it has
`PlainInv` in every state but a last one (`Overran`). Where the builds share an action, the lemmas of
`DedupStoreProofs` on lookup, swap, allocation and lists give the tracks, and only the
buffer remains to be shown: that a lookup outside of a flush comes only after the last
flush, and that a trim misses the buffer. From it `BufferedOwnersExact` (`PlainOwners`),
`BufferedStops` (`PlainStops`, if reads outside the array find no track taken; a write past
an array of owners may also end the program where there is no spare cell) and
`ImplementsBufferedStore` (`BufferKeepsContent`): a block in the buffer reads as the
buffer says, any other through its entry, and each step either leaves what all blocks read
as it is (`Reads`) or ends the write in progress (its own `WriteEnds`). A flush belongs to
the write that set it off: that block is in flight until the flush has ended
(`WriteGoesOn`).

All invariants and action properties of the passing runs, and the three refinements, are
stated by a theorem. Only model-checked: `TopBuffer`'s `WriteEnds`, a liveness property, out
of this prover's reach.

## 5. Where the program and what it says of itself part

Each is a run that TLC ends with a counterexample, and each was seen in the built
program with the same trace.

* `restore`: deleted data is restored (pba.c:751), but the track stays `status_trimed`:
  the block is not found valid again and trimming it ends the program.
* `lost_owner`: writing what a block holds already is skipped (pba.c:828), but on a
  shared track `is_lba_in_storage` reads the count of track 0 (lba.c:608) and the last
  owner's cell is overwritten; a later trim of that owner fails.
* `rewrite_shared`: a track others rely on is not overwritten (lba.c:644-656), but a
  trimmed block still points at its old track, and rewriting it after another block
  took that track over overwrites the other's content.
* `empty_batch`: the size written is that of the blocks written
  (test/ut_batch.h:26-27), but an instruction whose blocks are all passed over still
  flushes, and `record_write` charges the first entry of an empty table
  (record_op.c:81; the assertion at batch.c:236 is commented out).

The traces of `store` leave out exactly these: `restore`, `same_shared`, `rewrite_taken`;
`update_shared`, for which the program exits by design (lba.c:644-656); and `fresh` (gaps
in the order of first writes change nothing but the number of states), `beyond` and
multi-block instructions (which may return early and leave blocks in the batch). So
`StopsOnlyWhenFull` and the refinement say nothing of the exit at lba.c:644, of the entry
past the table (625) or of what an instruction of several blocks does wrong: the hazards
there have a note instead of a property. `any_block` has those instructions and shows
that the allocator, the types and the bounds of the lists survive them.

## 6. Not modelled, or only in part, and why

* Virtual groups, file table and ring buffer: the targets `vg` and `vg_history` do not
  compile at this commit (lba.c:797 names `zinfo`, which their `struct disk` leaves out), so
  there is no behaviour to model. Nor do `cmr`, `native`, `zalloc` and `topbuffer`.
* The hash index under `buffer_flush` (above) and under the block swap of the builds
  without deduplication, which files tracks under the empty hash: nothing reads the index.
* What `TopBuffer`'s properties leave open. An instruction of several blocks may come upon a track of its own batch as a
  victim and exit (`ScpSafe` says only such can). The deletion of a buffered block leaves
  its bottom track and the count behind, so that a later `scp` may find no victim and
  exit (`CountRight` says what is counted); and a move may find no free top. The disk may
  be reported full while trimed bottom tracks remain, where they may be reused.
* The option `-d` of `nodedupe`, `dedupeorigin` and `blockswap`. These builds read a trace of
  contents with `dedupe_lba_write`, too (test/main.c:240, parse.c:4), compiled without
  `DEDU_WRITE`: no sharing or no swap in the lookup, another store (lba.c:639), and trims
  (`dedupe_trim`). `TopBuffer` has what they do with a trace of files (option `-c`).
* `createBlockSwap` and `block_swap_type` have no caller and no setter; `lba_invalid` and
  `journaling_write` are reached by no trace; `min_access.c` by no build.
* The CMR variants of the batch, which extend nothing, and `batch_invalid` with virtual groups.
* Cost accounting, reports, dumps and the parser's text handling: counters and I/O. The
  intrusive list is third-party code.
