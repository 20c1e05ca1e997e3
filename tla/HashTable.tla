------------------------------- MODULE HashTable -------------------------------
(***************************************************************************)
(* The index from hashes of content to tracks: open addressing with linear *)
(* probing over as many cells as the disk has tracks.  Deleting leaves a   *)
(* dummy item behind, which later insertions reuse.  A probe that finds    *)
(* nothing to stop at goes round for ever: an operation is the set of its  *)
(* possible results, which then is empty.                                  *)
(*                                                                         *)
(* A definition named X_Bug is X as a plausible mistake would have it; it  *)
(* stands before X and is used only to test that the properties notice.    *)
(***************************************************************************)
EXTENDS TrackContent, Integers

CONSTANTS
  Size,   (* report.max_track_num, the number of cells                     *)
  Code,   (* hashCode: where probing for a hash starts                     *)
  NULL    (* an empty cell                                                 *)

ASSUME HashAssumption == NoHash \notin Hashes
ASSUME SizeAssumption == Size \in Nat \ {0} /\ Tracks = 0 .. Size - 1
ASSUME CodeAssumption == Code \in [Hashes \cup {NoHash} -> 0 .. Size - 1]
ASSUME NullAssumption == NULL \notin [hash : Hashes \cup {NoHash}, pba : Tracks \cup {-1}]

VARIABLES
  table,       (* d->hash_table                                            *)
  duplicated   (* history: two tracks have held the same content           *)

vars == <<content, table, duplicated>>

Cells == 0 .. Size - 1
Items == [hash : Hashes \cup {NoHash}, pba : Tracks \cup {-1}]
Dummy == [hash |-> NoHash, pba |-> -1]

TypeOK == ContentTypeOK /\ table \in [Cells -> Items \cup {NULL}] /\ duplicated \in BOOLEAN

-----------------------------------------------------------------------------
(* hash_table.c                                                            *)

(* The cell visited after i others, and the first visit among those in S.  *)
Probe(h, i) == (Code[h] + i) % Size
First(S) == {i \in S : \A j \in S : i <= j}

HashAt(T, c) == IF T[c] = NULL THEN NoHash ELSE T[c].hash

(* Visits a search for hash h, or one for room, would stop at.             *)
Matches(T, h) == {i \in Cells : T[Probe(h, i)] = NULL \/ HashAt(T, Probe(h, i)) = h}
Room(T, h) == {i \in Cells : HashAt(T, Probe(h, i)) = NoHash}

searchItem(T, h) == {T[Probe(h, i)] : i \in First(Matches(T, h))}

insert_Bug(T, h, p) ==
  {[T EXCEPT ![Probe(h, i)] = [hash |-> h, pba |-> p]] :
     i \in First({j \in Cells : T[Probe(h, j)] = NULL})}
insert(T, h, p) ==
  {[T EXCEPT ![Probe(h, i)] = [hash |-> h, pba |-> p]] : i \in First(Room(T, h))}

deleteItem_Bug(T, h) ==
  {IF T[Probe(h, i)] = NULL THEN T ELSE [T EXCEPT ![Probe(h, i)] = NULL] :
     i \in First(Matches(T, h))}
deleteItem(T, h) ==
  {IF T[Probe(h, i)] = NULL THEN T ELSE [T EXCEPT ![Probe(h, i)] = Dummy] :
     i \in First(Matches(T, h))}

-----------------------------------------------------------------------------
(* The callers.                                                            *)

(* dedupe_lba_write stores a block.                                        *)
AfterWrite_Bug(p, h) == insert(table, h, p)
AfterWrite(p, h) == UNION {insert(T, h, p) : T \in deleteItem(table, content[p])}

(* block_info_swap exchanges two tracks.                                   *)
AfterSwap_Bug(p, q) ==
  UNION {UNION {insert(T, content[q], q) :
                  T \in UNION {insert(U, content[p], p) : U \in deleteItem(V, content[q])}} :
           V \in deleteItem(table, content[p])}
AfterSwap(p, q) ==
  UNION {UNION {insert(T, content[p], q) :
                  T \in UNION {insert(U, content[q], p) : U \in deleteItem(V, content[q])}} :
           V \in deleteItem(table, content[p])}

Duplicates(C) == \E p, q \in Tracks : p # q /\ C[p] = C[q] /\ C[p] # NoHash

Init == ContentInit /\ table = [c \in Cells |-> NULL] /\ duplicated = FALSE

IndexedWrite(p, h) == /\ table' \in AfterWrite(p, h)
                      /\ Write(p, h)
                      /\ duplicated' = (duplicated \/ Duplicates(content'))

IndexedSwap(p, q) == /\ p # q
                     /\ table' \in AfterSwap(p, q)
                     /\ Swap(p, q)
                     /\ UNCHANGED duplicated

Next == \/ \E p \in Tracks, h \in Hashes : IndexedWrite(p, h)
        \/ \E p, q \in Tracks : IndexedSwap(p, q)

Spec == Init /\ [][Next]_vars

-----------------------------------------------------------------------------
(* Every call the program may make returns: no probe goes round for ever,  *)
(* even though the table has no room to spare and dummies never turn back  *)
(* into empty cells (hash_table.c:51, 72).                                 *)
EveryCallReturns ==
  /\ \A p \in Tracks, h \in Hashes : AfterWrite(p, h) # {}
  /\ \A p, q \in Tracks : p # q => AfterSwap(p, q) # {}

(* The table holds the contents of the tracks and nothing else, a content  *)
(* that several tracks hold as many times (lba.c:668-671,                  *)
(* active_swap.c:22-28).                                                   *)
Permutes(f) == /\ \A p, q \in Tracks : f[p] = f[q] => p = q
               /\ \A c \in Cells : \E p \in Tracks : f[p] = c
HoldsContent(T, C) ==
  \E f \in [Tracks -> Cells] : (\A p \in Tracks : HashAt(T, f[p]) = C[p]) /\ Permutes(f)
TableHoldsContent == HoldsContent(table, content)

(* No item is cut off from the cell its probing starts at by a cell that   *)
(* was emptied after it went in (hash_table.c:82-84).                      *)
Reachable(T) ==
  \A h \in Hashes, i \in Cells : HashAt(T, Probe(h, i)) = h =>
    \A j \in Cells : j < i => T[Probe(h, j)] # NULL
FindsContent == \A p \in Tracks : content[p] # NoHash => NULL \notin searchItem(table, content[p])

(* While no two tracks ever held the same content, a search leads to the   *)
(* track that holds it (active_swap.c:22-28).                              *)
FindsHolder ==
  ~duplicated => \A p \in Tracks : content[p] # NoHash =>
    searchItem(table, content[p]) = {[hash |-> content[p], pba |-> p]}

(* Until then every item names the track that holds its content.           *)
Exact(T, C) ==
  \A c \in Cells : HashAt(T, c) # NoHash => T[c].pba \in Tracks /\ C[T[c].pba] = T[c].hash
NamesHolder == ~duplicated => ~Duplicates(content) /\ Exact(table, content)

IInv == TypeOK /\ TableHoldsContent /\ Reachable(table) /\ NamesHolder
=============================================================================
