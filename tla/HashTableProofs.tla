---------------------------- MODULE HashTableProofs ----------------------------
(***************************************************************************)
(* For every size of the table and every hash function: each call of the   *)
(* program returns, and the table goes on holding what the tracks hold,    *)
(* within reach of a search, which finds the holder of unshared content.   *)
(***************************************************************************)
EXTENDS HashTable, NaturalsInduction, WellFoundedInduction, TLAPS

-----------------------------------------------------------------------------
(* Probing.                                                                *)

(* A nonempty set of visits has a first one. *)
LEMMA FirstExists ==
  ASSUME NEW S \in SUBSET Cells, S # {}
  PROVE  First(S) # {}
<1>1. S \subseteq Nat
  BY SizeAssumption DEF Cells
<1> DEFINE Less == {ss \in Nat \X Nat : ss[1] < ss[2]}
<1>2. Less = OpToRel(<, Nat)
  BY Zenon DEF OpToRel
<1>. IsWellFoundedOn(Less, Nat)
  BY <1>2, NatLessThanWellFounded, Zenon
<1>3. PICK i \in S : \A j \in S : <<j, i>> \notin Less
  BY <1>1, WFMin
<1>4. ASSUME NEW j \in S PROVE i <= j
  <2>1. i \in Nat /\ j \in Nat
    BY <1>1
  <2>2. j < i => <<j, i>> \in Less
    BY <2>1
  <2>3. QED
    BY <1>3, <2>1, <2>2
<1>5. QED
  BY <1>4 DEF First

LEMMA Wraps ==
  ASSUME NEW a \in Cells, NEW i \in Cells
  PROVE  (a + i) % Size = IF a + i < Size THEN a + i ELSE a + i - Size
  BY SizeAssumption DEF Cells

(* Probing visits cells of the table, and every one of them. *)
LEMMA ProbeCells ==
  ASSUME NEW h \in Hashes \cup {NoHash}
  PROVE  /\ \A i \in Cells : Probe(h, i) \in Cells
         /\ \A c \in Cells : \E i \in Cells : Probe(h, i) = c
<1> DEFINE a == Code[h]
<1>1. a \in Cells
  BY CodeAssumption DEF Cells
<1> HIDE DEF a
<1>2. \A i \in Cells : (a + i) % Size = IF a + i < Size THEN a + i ELSE a + i - Size
  BY <1>1, Wraps
<1>3. \A i \in Cells : (a + i) % Size \in Cells
  BY <1>1, <1>2, SizeAssumption DEF Cells
<1>4. ASSUME NEW c \in Cells PROVE \E i \in Cells : (a + i) % Size = c
  <2> DEFINE i == IF c >= a THEN c - a ELSE c - a + Size
  <2>1. i \in Cells /\ (IF a + i < Size THEN a + i ELSE a + i - Size) = c
    BY <1>1, SizeAssumption DEF Cells
  <2>2. QED
    BY <1>2, <2>1
<1>5. QED
  BY <1>3, <1>4 DEF Probe, a

(* No cell is visited twice. *)
LEMMA ProbeOnce ==
  ASSUME NEW h \in Hashes \cup {NoHash}, NEW i \in Cells, NEW j \in Cells,
         Probe(h, i) = Probe(h, j)
  PROVE  i = j
<1> DEFINE a == Code[h]
<1>1. a \in Cells
  BY CodeAssumption DEF Cells
<1>2. (a + i) % Size = (a + j) % Size
  BY DEF Probe
<1> HIDE DEF a
<1>3. /\ (a + i) % Size = IF a + i < Size THEN a + i ELSE a + i - Size
      /\ (a + j) % Size = IF a + j < Size THEN a + j ELSE a + j - Size
  BY <1>1, Wraps
<1>4. QED
  BY <1>1, <1>2, <1>3, SizeAssumption DEF Cells

-----------------------------------------------------------------------------
(* One call.                                                               *)

Tables == [Cells -> Items \cup {NULL}]
Contents == [Tracks -> Hashes \cup {NoHash}]
Good(T, C) == T \in Tables /\ C \in Contents /\ HoldsContent(T, C) /\ Reachable(T)

LEMMA DummyIsItem == Dummy \in Items /\ NULL \notin Items
  BY NullAssumption DEF Dummy, Items

(* A cell that holds what track p holds may be taken for the cell of p, so *)
(* the table keeps up with p when only that cell changes.                  *)
LEMMA CellFollows ==
  ASSUME NEW T \in Tables, NEW U \in Tables, NEW C \in Contents, HoldsContent(T, C),
         NEW p \in Tracks, NEW c \in Cells, NEW x \in Hashes \cup {NoHash},
         HashAt(T, c) = C[p], HashAt(U, c) = x,
         \A d \in Cells : d # c => HashAt(U, d) = HashAt(T, d)
  PROVE  HoldsContent(U, [C EXCEPT ![p] = x])
<1>1. PICK f \in [Tracks -> Cells] : Permutes(f) /\ \A r \in Tracks : HashAt(T, f[r]) = C[r]
  BY DEF HoldsContent
<1>2. PICK q \in Tracks : f[q] = c
  BY <1>1 DEF Permutes
<1> DEFINE g == [f EXCEPT ![p] = f[q], ![q] = f[p]]
<1>3. g \in [Tracks -> Cells]
  OBVIOUS
<1>4. /\ g[p] = c
      /\ q # p => g[q] = f[p]
      /\ \A r \in Tracks : r # p /\ r # q => g[r] = f[r]
  BY <1>2
<1>5. Permutes(g)
  <2>1. \A r, s \in Tracks : g[r] = g[s] => r = s
    BY <1>1, <1>2, <1>4 DEF Permutes
  <2>2. \A d \in Cells : \E r \in Tracks : g[r] = d
    BY <1>1, <1>2, <1>4 DEF Permutes
  <2>3. QED
    BY <2>1, <2>2 DEF Permutes
<1>6. ASSUME NEW r \in Tracks PROVE HashAt(U, g[r]) = [C EXCEPT ![p] = x][r]
  <2>1. CASE r = p
    BY <2>1, <1>4 DEF Contents
  <2>2. CASE r # p
    <3>1. g[r] # c
      BY <2>2, <1>4, <1>5 DEF Permutes
    <3>2. HashAt(U, g[r]) = HashAt(T, g[r])
      BY <3>1, <1>3
    <3>3. HashAt(T, g[r]) = C[r]
      BY <1>1, <1>2, <1>4, <2>2
    <3>4. QED
      BY <2>2, <3>2, <3>3 DEF Contents
  <2>3. QED
    BY <2>1, <2>2
<1>7. QED
  BY <1>3, <1>5, <1>6 DEF HoldsContent

(* Deleting a track's content finds it, and takes it out of the table. *)
LEMMA DeleteFollows ==
  ASSUME NEW T, NEW C, Good(T, C), NEW p \in Tracks
  PROVE  /\ deleteItem(T, C[p]) # {}
         /\ \A U \in deleteItem(T, C[p]) : Good(U, [C EXCEPT ![p] = NoHash])
<1> DEFINE h == C[p]
<1>1. T \in Tables /\ C \in Contents /\ HoldsContent(T, C) /\ Reachable(T)
  BY DEF Good
<1>2. h \in Hashes \cup {NoHash}
  BY <1>1 DEF Contents
<1>3. PICK k \in Cells : HashAt(T, Probe(h, k)) = h
  BY <1>1, <1>2, ProbeCells DEF HoldsContent
<1> HIDE DEF h
<1>4. k \in Matches(T, h) /\ Matches(T, h) \in SUBSET Cells
  BY <1>3 DEF Matches
<1>5. First(Matches(T, h)) # {}
  BY <1>4, FirstExists
<1>6. deleteItem(T, h) # {}
  BY <1>5 DEF deleteItem
<1>7. ASSUME NEW U \in deleteItem(T, h)
      PROVE  Good(U, [C EXCEPT ![p] = NoHash])
  <2>1. PICK i \in First(Matches(T, h)) :
          U = IF T[Probe(h, i)] = NULL THEN T ELSE [T EXCEPT ![Probe(h, i)] = Dummy]
    BY DEF deleteItem
  <2> DEFINE c == Probe(h, i)
  <2>2. i \in Cells /\ i <= k /\ (T[c] = NULL \/ HashAt(T, c) = h)
    BY <1>4 DEF First, Matches
  <2>3. c \in Cells
    BY <1>2, <2>2, ProbeCells
  <2>4. HashAt(T, c) = h
    <3>1. CASE h = NoHash
      BY <3>1, <2>2 DEF HashAt
    <3>2. CASE h # NoHash
      <4>1. SUFFICES ASSUME T[c] = NULL PROVE FALSE
        BY <2>2
      <4>2. i # k
        BY <1>3, <3>2, <4>1 DEF HashAt
      <4>3. i < k
        BY <2>2, <4>2, SizeAssumption DEF Cells
      <4>4. QED
        BY <1>1, <1>2, <1>3, <2>2, <3>2, <4>1, <4>3 DEF Reachable
    <3>3. QED
      BY <3>1, <3>2
  <2> HIDE DEF c
  <2>5. U = IF T[c] = NULL THEN T ELSE [T EXCEPT ![c] = Dummy]
    BY <2>1 DEF c
  <2>6. U \in Tables
    BY <1>1, <2>5, DummyIsItem DEF Tables
  <2>7. HashAt(U, c) = NoHash
    BY <1>1, <2>3, <2>5, DummyIsItem DEF Tables, HashAt, Dummy
  <2>8. \A d \in Cells : d # c => U[d] = T[d]
    BY <1>1, <2>3, <2>5 DEF Tables
  <2>9. U[c] = NULL => T[c] = NULL
    BY <1>1, <2>3, <2>5, DummyIsItem DEF Tables
  <2>10. HoldsContent(U, [C EXCEPT ![p] = NoHash])
    BY <1>1, <2>3, <2>4, <2>6, <2>7, <2>8, CellFollows DEF HashAt, h
  <2>11. Reachable(U)
    <3> SUFFICES ASSUME NEW e \in Hashes, NEW m \in Cells, HashAt(U, Probe(e, m)) = e,
                        NEW j \in Cells, j < m
                 PROVE  U[Probe(e, j)] # NULL
      BY DEF Reachable
    <3>1. Probe(e, m) \in Cells /\ Probe(e, j) \in Cells
      BY ProbeCells
    <3>2. Probe(e, m) # c
      BY <2>7, HashAssumption
    <3>3. HashAt(T, Probe(e, m)) = e
      BY <2>8, <3>1, <3>2 DEF HashAt
    <3>4. T[Probe(e, j)] # NULL
      BY <1>1, <3>3 DEF Reachable
    <3>5. QED
      BY <2>8, <2>9, <3>1, <3>4
  <2>12. [C EXCEPT ![p] = NoHash] \in Contents
    BY <1>1 DEF Contents
  <2>13. QED
    BY <2>6, <2>10, <2>11, <2>12 DEF Good
<1>8. QED
  BY <1>6, <1>7 DEF h

(* Inserting the content of a track that has none yet finds room. *)
LEMMA InsertFollows ==
  ASSUME NEW T, NEW C, Good(T, C), NEW p \in Tracks, C[p] = NoHash,
         NEW h \in Hashes \cup {NoHash}
  PROVE  /\ insert(T, h, p) # {}
         /\ \A U \in insert(T, h, p) : Good(U, [C EXCEPT ![p] = h])
<1>1. T \in Tables /\ C \in Contents /\ HoldsContent(T, C) /\ Reachable(T)
  BY DEF Good
<1>2. PICK k \in Cells : HashAt(T, Probe(h, k)) = NoHash
  BY <1>1, ProbeCells DEF HoldsContent
<1>3. k \in Room(T, h) /\ Room(T, h) \in SUBSET Cells
  BY <1>2 DEF Room
<1>4. insert(T, h, p) # {}
  BY <1>3, FirstExists DEF insert
<1>5. ASSUME NEW U \in insert(T, h, p)
      PROVE  Good(U, [C EXCEPT ![p] = h])
  <2> DEFINE item == [hash |-> h, pba |-> p]
  <2>1. PICK i \in First(Room(T, h)) : U = [T EXCEPT ![Probe(h, i)] = item]
    BY DEF insert
  <2>2. item \in Items /\ item.hash = h
    BY DEF Items
  <2> HIDE DEF item
  <2> DEFINE c == Probe(h, i)
  <2>3. i \in Cells /\ HashAt(T, c) = NoHash
    BY DEF First, Room
  <2>4. \A j \in Cells : j < i => HashAt(T, Probe(h, j)) # NoHash
    BY <2>3, SizeAssumption DEF First, Room, Cells
  <2>5. c \in Cells
    BY <2>3, ProbeCells
  <2>6. U = [T EXCEPT ![c] = item]
    BY <2>1
  <2>7. U \in Tables /\ U[c] = item /\ \A d \in Cells : d # c => U[d] = T[d]
    BY <1>1, <2>2, <2>5, <2>6 DEF Tables
  <2>8. HashAt(U, c) = h /\ U[c] # NULL
    BY <2>2, <2>7, DummyIsItem DEF HashAt
  <2>9. HoldsContent(U, [C EXCEPT ![p] = h])
    <3> HIDE DEF c
    <3>1. QED
      BY <1>1, <2>3, <2>5, <2>7, <2>8, CellFollows DEF HashAt
  <2>10. Reachable(U)
    <3> SUFFICES ASSUME NEW e \in Hashes, NEW m \in Cells, HashAt(U, Probe(e, m)) = e,
                        NEW j \in Cells, j < m
                 PROVE  U[Probe(e, j)] # NULL
      BY DEF Reachable
    <3>1. Probe(e, m) \in Cells /\ Probe(e, j) \in Cells
      BY ProbeCells
    <3>2. SUFFICES ASSUME Probe(e, j) # c PROVE T[Probe(e, j)] # NULL
      BY <2>7, <2>8, <3>1
    <3>3. CASE Probe(e, m) = c
      <4>1. e = h
        BY <2>8, <3>3
      <4>2. m = i
        BY <2>3, <3>3, <4>1, ProbeOnce
      <4>3. HashAt(T, Probe(e, j)) # NoHash
        BY <2>4, <4>1, <4>2
      <4>4. QED
        BY <4>3 DEF HashAt
    <3>4. CASE Probe(e, m) # c
      <4>1. HashAt(T, Probe(e, m)) = e
        BY <2>7, <3>1, <3>4 DEF HashAt
      <4>2. QED
        BY <1>1, <4>1 DEF Reachable
    <3>5. QED
      BY <3>3, <3>4
  <2>11. [C EXCEPT ![p] = h] \in Contents
    BY <1>1 DEF Contents
  <2>12. QED
    BY <2>7, <2>9, <2>10, <2>11 DEF Good
<1>6. QED
  BY <1>4, <1>5

-----------------------------------------------------------------------------
(* One call while no two tracks hold the same content.                     *)

LEMMA DeleteExact ==
  ASSUME NEW T, NEW C, Good(T, C), Exact(T, C), ~Duplicates(C), NEW p \in Tracks,
         NEW U \in deleteItem(T, C[p])
  PROVE  Exact(U, [C EXCEPT ![p] = NoHash])
<1> DEFINE h == C[p]
<1>1. T \in Tables /\ C \in Contents /\ h \in Hashes \cup {NoHash}
  BY DEF Good, Contents
<1>2. PICK f \in [Tracks -> Cells] : Permutes(f) /\ \A r \in Tracks : HashAt(T, f[r]) = C[r]
  BY DEF Good, HoldsContent
<1>3. \A d \in Cells : HashAt(T, d) = h /\ h # NoHash => d = f[p]
  <2> SUFFICES ASSUME NEW d \in Cells, HashAt(T, d) = h, h # NoHash PROVE d = f[p]
    OBVIOUS
  <2>1. PICK r \in Tracks : f[r] = d
    BY <1>2 DEF Permutes
  <2>2. C[r] = C[p]
    BY <1>2, <2>1
  <2>3. QED
    BY <2>1, <2>2 DEF Duplicates
<1> HIDE DEF h
<1>4. Good(U, [C EXCEPT ![p] = NoHash])
  BY DeleteFollows DEF h
<1>5. PICK i \in First(Matches(T, h)) :
        U = IF T[Probe(h, i)] = NULL THEN T ELSE [T EXCEPT ![Probe(h, i)] = Dummy]
  BY DEF deleteItem, h
<1> DEFINE c == Probe(h, i)
<1>6. c \in Cells
  BY <1>1, ProbeCells DEF First, Matches
<1> HIDE DEF c
<1>7. U = IF T[c] = NULL THEN T ELSE [T EXCEPT ![c] = Dummy]
  BY <1>5 DEF c
<1>8. HashAt(U, c) = NoHash /\ \A d \in Cells : d # c => U[d] = T[d]
  BY <1>1, <1>6, <1>7, DummyIsItem DEF Tables, HashAt, Dummy
<1>9. ASSUME NEW d \in Cells, HashAt(U, d) # NoHash
      PROVE  U[d].pba \in Tracks /\ [C EXCEPT ![p] = NoHash][U[d].pba] = U[d].hash
  <2>1. d # c /\ U[d] = T[d] /\ HashAt(T, d) # NoHash /\ HashAt(U, d) = HashAt(T, d)
    BY <1>8, <1>9 DEF HashAt
  <2>2. T[d].pba \in Tracks /\ C[T[d].pba] = T[d].hash /\ HashAt(T, d) = T[d].hash
    BY <2>1 DEF Exact, HashAt
  <2>3. T[d].pba # p
    <3> SUFFICES ASSUME T[d].pba = p PROVE FALSE
      OBVIOUS
    <3>1. HashAt(T, d) = h /\ h # NoHash
      BY <2>1, <2>2 DEF h
    <3>2. d = f[p]
      BY <1>3, <3>1
    <3>3. PICK g \in [Tracks -> Cells] :
            Permutes(g) /\ \A r \in Tracks : HashAt(U, g[r]) = [C EXCEPT ![p] = NoHash][r]
      BY <1>4 DEF Good, HoldsContent
    <3>4. PICK r \in Tracks : g[r] = d
      BY <3>3 DEF Permutes
    <3>5. [C EXCEPT ![p] = NoHash][r] = h
      BY <2>1, <3>1, <3>3, <3>4
    <3>6. r # p /\ C[r] = C[p] /\ C[p] # NoHash
      BY <1>1, <3>1, <3>5 DEF Contents, h
    <3>7. QED
      BY <3>6 DEF Duplicates
  <2>4. QED
    BY <1>1, <2>1, <2>2, <2>3 DEF Contents
<1>10. QED
  BY <1>9 DEF Exact

LEMMA InsertExact ==
  ASSUME NEW T, NEW C, Good(T, C), Exact(T, C), NEW p \in Tracks, C[p] = NoHash,
         NEW h \in Hashes \cup {NoHash}, NEW U \in insert(T, h, p)
  PROVE  Exact(U, [C EXCEPT ![p] = h])
<1>1. T \in Tables /\ C \in Contents
  BY DEF Good
<1> DEFINE item == [hash |-> h, pba |-> p]
<1>2. PICK i \in First(Room(T, h)) : U = [T EXCEPT ![Probe(h, i)] = item]
  BY DEF insert
<1>3. item.hash = h /\ item.pba = p
  OBVIOUS
<1> HIDE DEF item
<1> DEFINE c == Probe(h, i)
<1>4. c \in Cells
  BY ProbeCells DEF First, Room
<1> HIDE DEF c
<1>5. U[c] = item /\ \A d \in Cells : d # c => U[d] = T[d]
  BY <1>1, <1>2, <1>4 DEF Tables, c
<1>6. ASSUME NEW d \in Cells, HashAt(U, d) # NoHash
      PROVE  U[d].pba \in Tracks /\ [C EXCEPT ![p] = h][U[d].pba] = U[d].hash
  <2>1. CASE d = c
    BY <1>1, <1>3, <1>5, <2>1 DEF Contents
  <2>2. CASE d # c
    <3>1. U[d] = T[d] /\ HashAt(T, d) # NoHash
      BY <1>5, <1>6, <2>2 DEF HashAt
    <3>2. T[d].pba \in Tracks /\ C[T[d].pba] = T[d].hash /\ T[d].hash # NoHash
      BY <3>1 DEF Exact, HashAt
    <3>3. T[d].pba # p
      BY <3>2
    <3>4. QED
      BY <1>1, <3>1, <3>2, <3>3 DEF Contents
  <2>3. QED
    BY <2>1, <2>2
<1>7. QED
  BY <1>6 DEF Exact

LEMMA NoDuplicatesCleared ==
  ASSUME NEW C \in Contents, ~Duplicates(C), NEW p \in Tracks
  PROVE  ~Duplicates([C EXCEPT ![p] = NoHash])
  BY DEF Duplicates, Contents

-----------------------------------------------------------------------------
(* The callers.                                                            *)

Invariant == Good(table, content) /\ duplicated \in BOOLEAN /\ NamesHolder

LEMMA InvariantIsIInv == Invariant <=> IInv
  BY DEF Invariant, IInv, Good, TypeOK, ContentTypeOK, Tables, Contents, TableHoldsContent

(* Storing a block: the old content goes, the new one comes. *)
LEMMA WriteFollows ==
  ASSUME Good(table, content), NEW p \in Tracks, NEW h \in Hashes
  PROVE  /\ AfterWrite(p, h) # {}
         /\ \A U \in AfterWrite(p, h) : Good(U, [content EXCEPT ![p] = h])
<1> DEFINE C == [content EXCEPT ![p] = NoHash]
<1>1. /\ deleteItem(table, content[p]) # {}
      /\ \A T \in deleteItem(table, content[p]) : Good(T, C)
  BY DeleteFollows
<1>2. C[p] = NoHash /\ [C EXCEPT ![p] = h] = [content EXCEPT ![p] = h]
  BY DEF Good, Contents
<1> HIDE DEF C
<1>3. ASSUME NEW T \in deleteItem(table, content[p])
      PROVE  /\ insert(T, h, p) # {}
             /\ \A U \in insert(T, h, p) : Good(U, [content EXCEPT ![p] = h])
  <2>1. Good(T, C)
    BY <1>1
  <2>2. /\ insert(T, h, p) # {}
        /\ \A U \in insert(T, h, p) : Good(U, [C EXCEPT ![p] = h])
    BY <1>2, <2>1, InsertFollows
  <2>3. QED
    BY <1>2, <2>2
<1>4. QED
  BY <1>1, <1>3 DEF AfterWrite

(* Exchanging two tracks: both contents go, and come back the other way round. *)
LEMMA SwapFollows ==
  ASSUME Good(table, content), NEW p \in Tracks, NEW q \in Tracks, p # q
  PROVE  /\ AfterSwap(p, q) # {}
         /\ \A U \in AfterSwap(p, q) :
              Good(U, [content EXCEPT ![p] = content[q], ![q] = content[p]])
<1> DEFINE C1 == [content EXCEPT ![p] = NoHash]
           C2 == [C1 EXCEPT ![q] = NoHash]
           C3 == [C2 EXCEPT ![p] = content[q]]
           C4 == [C3 EXCEPT ![q] = content[p]]
<1>1. content \in [Tracks -> Hashes \cup {NoHash}]
  BY DEF Good, Contents
<1>2. /\ C1[q] = content[q]
      /\ C2[p] = NoHash
      /\ C3[q] = NoHash
      /\ C4 = [content EXCEPT ![p] = content[q], ![q] = content[p]]
  BY <1>1
<1>3. content[p] \in Hashes \cup {NoHash} /\ content[q] \in Hashes \cup {NoHash}
  BY <1>1
<1>4. /\ deleteItem(table, content[p]) # {}
      /\ \A V \in deleteItem(table, content[p]) : Good(V, C1)
  BY DeleteFollows
<1> HIDE DEF C1
<1>5. \A V : Good(V, C1) => /\ deleteItem(V, content[q]) # {}
                           /\ \A U \in deleteItem(V, content[q]) : Good(U, C2)
  <2> SUFFICES ASSUME NEW V, Good(V, C1)
               PROVE  /\ deleteItem(V, content[q]) # {}
                      /\ \A U \in deleteItem(V, content[q]) : Good(U, C2)
    OBVIOUS
  <2>1. /\ deleteItem(V, C1[q]) # {}
        /\ \A U \in deleteItem(V, C1[q]) : Good(U, C2)
    BY DeleteFollows
  <2>2. QED
    BY <1>2, <2>1
<1> HIDE DEF C2
<1>6. \A U : Good(U, C2) => /\ insert(U, content[q], p) # {}
                           /\ \A T \in insert(U, content[q], p) : Good(T, C3)
  BY <1>2, <1>3, InsertFollows
<1> HIDE DEF C3
<1>7. \A T : Good(T, C3) => /\ insert(T, content[p], q) # {}
                           /\ \A W \in insert(T, content[p], q) : Good(W, C4)
  BY <1>2, <1>3, InsertFollows
<1> HIDE DEF C4
<1>8. AfterSwap(p, q) # {}
  <2>1. PICK V : V \in deleteItem(table, content[p])
    BY <1>4
  <2>2. PICK U : U \in deleteItem(V, content[q])
    BY <1>4, <1>5, <2>1
  <2>3. PICK T : T \in insert(U, content[q], p)
    BY <1>4, <1>5, <1>6, <2>1, <2>2
  <2>4. PICK W : W \in insert(T, content[p], q)
    BY <1>4, <1>5, <1>6, <1>7, <2>1, <2>2, <2>3
  <2>5. W \in AfterSwap(p, q)
    BY <2>1, <2>2, <2>3, <2>4 DEF AfterSwap
  <2>6. QED
    BY <2>5
<1>9. ASSUME NEW W \in AfterSwap(p, q) PROVE Good(W, C4)
  <2>1. PICK V \in deleteItem(table, content[p]) :
          \E U \in deleteItem(V, content[q]) : \E T \in insert(U, content[q], p) :
            W \in insert(T, content[p], q)
    BY DEF AfterSwap
  <2>2. QED
    BY <1>4, <1>5, <1>6, <1>7, <2>1
<1>10. QED
  BY <1>2, <1>8, <1>9

(* The same callers while no two tracks hold the same content. *)
LEMMA WriteExact ==
  ASSUME Good(table, content), Exact(table, content), ~Duplicates(content),
         NEW p \in Tracks, NEW h \in Hashes, NEW U \in AfterWrite(p, h)
  PROVE  Exact(U, [content EXCEPT ![p] = h])
<1> DEFINE C == [content EXCEPT ![p] = NoHash]
<1>1. content \in Contents
  BY DEF Good
<1>2. C[p] = NoHash /\ [C EXCEPT ![p] = h] = [content EXCEPT ![p] = h]
  BY <1>1 DEF Contents
<1>3. \A T \in deleteItem(table, content[p]) : Good(T, C) /\ Exact(T, C)
  BY DeleteFollows, DeleteExact
<1> HIDE DEF C
<1>4. PICK T \in deleteItem(table, content[p]) : U \in insert(T, h, p)
  BY DEF AfterWrite
<1>5. Exact(U, [C EXCEPT ![p] = h])
  BY <1>2, <1>3, <1>4, InsertExact
<1>6. QED
  BY <1>2, <1>5

LEMMA SwapExact ==
  ASSUME Good(table, content), Exact(table, content), ~Duplicates(content),
         NEW p \in Tracks, NEW q \in Tracks, p # q, NEW W \in AfterSwap(p, q)
  PROVE  /\ Exact(W, [content EXCEPT ![p] = content[q], ![q] = content[p]])
         /\ ~Duplicates([content EXCEPT ![p] = content[q], ![q] = content[p]])
<1> DEFINE C1 == [content EXCEPT ![p] = NoHash]
           C2 == [C1 EXCEPT ![q] = NoHash]
           C3 == [C2 EXCEPT ![p] = content[q]]
           C4 == [C3 EXCEPT ![q] = content[p]]
<1>1. content \in Contents
  BY DEF Good
<1>2. /\ C1[q] = content[q]
      /\ C2[p] = NoHash
      /\ C3[q] = NoHash
      /\ C4 = [content EXCEPT ![p] = content[q], ![q] = content[p]]
  BY <1>1 DEF Contents
<1>3. content[p] \in Hashes \cup {NoHash} /\ content[q] \in Hashes \cup {NoHash}
  BY <1>1 DEF Contents
<1>4. C1 \in Contents /\ ~Duplicates(C1)
  BY <1>1, NoDuplicatesCleared DEF Contents
<1>5. ~Duplicates(C4)
  BY <1>1, <1>2 DEF Duplicates, Contents
<1>6. PICK V \in deleteItem(table, content[p]) :
        \E U \in deleteItem(V, content[q]) : \E T \in insert(U, content[q], p) :
          W \in insert(T, content[p], q)
  BY DEF AfterSwap
<1>7. PICK U \in deleteItem(V, content[q]) : \E T \in insert(U, content[q], p) :
        W \in insert(T, content[p], q)
  BY <1>6
<1>8. PICK T \in insert(U, content[q], p) : W \in insert(T, content[p], q)
  BY <1>7
<1>9. Good(V, C1) /\ Exact(V, C1)
  BY <1>6, DeleteFollows, DeleteExact
<1> HIDE DEF C1
<1>10. Good(U, C2) /\ Exact(U, C2)
  <2>1. U \in deleteItem(V, C1[q])
    BY <1>2, <1>7
  <2>2. QED
    BY <1>4, <1>9, <2>1, DeleteFollows, DeleteExact
<1> HIDE DEF C2
<1>11. Good(T, C3) /\ Exact(T, C3)
  BY <1>2, <1>3, <1>8, <1>10, InsertFollows, InsertExact
<1> HIDE DEF C3
<1>12. Exact(W, C4)
  BY <1>2, <1>3, <1>8, <1>11, InsertExact
<1>13. QED
  BY <1>2, <1>5, <1>12

LEMMA InitGood == Init => IInv
<1> SUFFICES ASSUME Init PROVE IInv
  OBVIOUS
<1>1. TypeOK
  BY DEF Init, ContentInit, TypeOK, ContentTypeOK
<1>2. \A c \in Cells : HashAt(table, c) = NoHash
  BY DEF Init, HashAt
<1>3. Cells = Tracks
  BY SizeAssumption DEF Cells
<1>4. TableHoldsContent
  <2> DEFINE f == [p \in Tracks |-> p]
  <2>1. f \in [Tracks -> Cells] /\ Permutes(f)
    BY <1>3 DEF Permutes
  <2>2. \A p \in Tracks : HashAt(table, f[p]) = content[p]
    BY <1>2, <1>3 DEF Init, ContentInit
  <2>3. QED
    BY <2>1, <2>2 DEF TableHoldsContent, HoldsContent
<1>5. Reachable(table)
  BY <1>2, ProbeCells, HashAssumption DEF Reachable
<1>6. NamesHolder
  BY <1>2 DEF NamesHolder, Exact, Duplicates, Init, ContentInit
<1>7. QED
  BY <1>1, <1>4, <1>5, <1>6 DEF IInv

LEMMA NextGood == IInv /\ [Next]_vars => IInv'
<1> SUFFICES ASSUME IInv, [Next]_vars PROVE IInv'
  OBVIOUS
<1>1. Good(table, content) /\ duplicated \in BOOLEAN /\ NamesHolder
  BY InvariantIsIInv DEF Invariant
<1>2. ASSUME NEW p \in Tracks, NEW h \in Hashes, IndexedWrite(p, h)
      PROVE  Good(table', content') /\ duplicated' \in BOOLEAN /\ NamesHolder'
  <2>1. table' \in AfterWrite(p, h) /\ content' = [content EXCEPT ![p] = h]
    BY <1>2 DEF IndexedWrite, Write
  <2>2. Good(table', content')
    BY <1>1, <2>1, WriteFollows
  <2>3. duplicated' = (duplicated \/ Duplicates(content'))
    BY <1>2 DEF IndexedWrite
  <2>4. duplicated' \in BOOLEAN
    BY <1>1, <2>3, Zenon DEF Duplicates
  <2>5. ~duplicated' => ~Duplicates(content') /\ ~duplicated
    BY <2>3, Zenon
  <2>6. ~duplicated => Exact(table', content')
    BY <1>1, <2>1, WriteExact DEF NamesHolder
  <2>7. NamesHolder'
    BY <2>5, <2>6 DEF NamesHolder, Exact, HashAt, Duplicates
  <2>8. QED
    BY <2>2, <2>4, <2>7
<1>3. ASSUME NEW p \in Tracks, NEW q \in Tracks, IndexedSwap(p, q)
      PROVE  Good(table', content') /\ duplicated' \in BOOLEAN /\ NamesHolder'
  <2>1. /\ p # q /\ table' \in AfterSwap(p, q) /\ duplicated' = duplicated
        /\ content' = [content EXCEPT ![p] = content[q], ![q] = content[p]]
    BY <1>3 DEF IndexedSwap, Swap
  <2>2. Good(table', content')
    BY <1>1, <2>1, SwapFollows
  <2>3. ~duplicated => Exact(table', content') /\ ~Duplicates(content')
    BY <1>1, <2>1, SwapExact DEF NamesHolder
  <2>4. NamesHolder'
    BY <2>1, <2>3 DEF NamesHolder, Exact, HashAt, Duplicates
  <2>5. QED
    BY <1>1, <2>1, <2>2, <2>4
<1>4. ASSUME UNCHANGED vars
      PROVE  Good(table', content') /\ duplicated' \in BOOLEAN /\ NamesHolder'
  <2>1. table' = table /\ content' = content /\ duplicated' = duplicated
    BY <1>4 DEF vars
  <2>2. NamesHolder'
    BY <1>1, <2>1 DEF NamesHolder, Exact, HashAt, Duplicates
  <2>3. QED
    BY <1>1, <2>1, <2>2
<1>5. Good(table', content') /\ duplicated' \in BOOLEAN /\ NamesHolder'
  BY <1>2, <1>3, <1>4 DEF Next
<1>6. Invariant'
  BY <1>5 DEF Invariant, Good, Tables, Contents, HoldsContent, Reachable
<1>7. QED
  BY <1>6, InvariantIsIInv, PTL

-----------------------------------------------------------------------------
(* The results.                                                            *)

(* The table always holds, within reach, what the tracks hold. *)
THEOREM IndexInvariant == Spec => []IInv
  BY InitGood, NextGood, PTL DEF Spec

(* Every call dedupe_lba_write and block_info_swap may make returns. *)
THEOREM CallsReturn == Spec => []EveryCallReturns
<1>1. IInv => EveryCallReturns
  BY InvariantIsIInv, WriteFollows, SwapFollows DEF Invariant, EveryCallReturns
<1>2. QED
  BY <1>1, IndexInvariant, PTL

(* A search by the content of a track finds an item with that content. *)
THEOREM SearchesFind == Spec => []FindsContent
<1>1. IInv => FindsContent
  <2> SUFFICES ASSUME IInv, NEW p \in Tracks, content[p] # NoHash,
                      NEW i \in First(Matches(table, content[p])),
                      table[Probe(content[p], i)] = NULL
               PROVE  FALSE
    BY DEF FindsContent, searchItem
  <2>1. content[p] \in Hashes
    BY DEF IInv, TypeOK, ContentTypeOK
  <2>2. PICK k \in Cells : HashAt(table, Probe(content[p], k)) = content[p]
    BY <2>1, ProbeCells DEF IInv, TableHoldsContent, HoldsContent
  <2>3. i \in Cells /\ i <= k
    BY <2>2 DEF First, Matches
  <2>4. i # k
    BY <2>1, <2>2, HashAssumption DEF HashAt
  <2>5. i < k
    BY <2>3, <2>4, SizeAssumption DEF Cells
  <2>6. QED
    BY <2>1, <2>2, <2>3, <2>5 DEF IInv, Reachable
<1>2. QED
  BY <1>1, IndexInvariant, PTL

(* While no two tracks ever held the same content, a search by the content of *)
(* a track leads to that track, whatever was deleted, pushed on or swapped    *)
(* (hash_table.c:16-94, active_swap.c:22-28).                                 *)
THEOREM SearchesFindHolder == Spec => []FindsHolder
<1>1. IInv /\ FindsContent => FindsHolder
  <2> SUFFICES ASSUME IInv, FindsContent, ~duplicated, NEW p \in Tracks, content[p] # NoHash
               PROVE  searchItem(table, content[p]) = {[hash |-> content[p], pba |-> p]}
    BY DEF FindsHolder
  <2> DEFINE h == content[p]
  <2>1. h \in Hashes /\ table \in Tables /\ content \in Contents
    BY DEF IInv, TypeOK, ContentTypeOK, Tables, Contents
  <2>2. ~Duplicates(content) /\ Exact(table, content)
    BY DEF IInv, NamesHolder
  <2>3. First(Matches(table, h)) # {}
    <3>1. PICK k \in Cells : HashAt(table, Probe(h, k)) = h
      BY <2>1, ProbeCells DEF IInv, TableHoldsContent, HoldsContent
    <3>2. Matches(table, h) \in SUBSET Cells /\ Matches(table, h) # {}
      BY <3>1 DEF Matches
    <3>3. QED
      BY <3>2, FirstExists
  <2>4. ASSUME NEW i \in First(Matches(table, h))
        PROVE  table[Probe(h, i)] = [hash |-> h, pba |-> p]
    <3> DEFINE c == Probe(h, i)
    <3>1. table[c] # NULL
      BY DEF FindsContent, searchItem
    <3>2. i \in Cells /\ HashAt(table, c) = h
      BY <3>1 DEF First, Matches
    <3>3. c \in Cells
      BY <2>1, <3>2, ProbeCells
    <3> HIDE DEF c
    <3>4. table[c] \in Items /\ table[c].hash = h
      BY <2>1, <3>1, <3>2, <3>3 DEF Tables, HashAt
    <3>5. table[c].pba \in Tracks /\ content[table[c].pba] = h
      BY <2>1, <2>2, <3>2, <3>3, <3>4, HashAssumption DEF Exact
    <3>6. table[c].pba = p
      BY <2>1, <2>2, <3>5 DEF Duplicates
    <3>7. QED
      BY <3>4, <3>6 DEF Items, c
  <2>5. QED
    BY <2>3, <2>4 DEF searchItem
<1>2. QED
  BY <1>1, IndexInvariant, SearchesFind, PTL
=============================================================================
