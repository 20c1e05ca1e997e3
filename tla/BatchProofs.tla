----------------------------- MODULE BatchProofs -----------------------------
(***************************************************************************)
(* Theorems about Batch, for disks and batches of every size.              *)
(***************************************************************************)
EXTENDS Batch, FiniteSetTheorems, TLAPS

LEMMA TracksType ==
  /\ N \in Nat \ {0}
  /\ \A t \in Tracks : t \in Nat /\ t < N
BY TrackNumAssumption DEF Tracks

(* Neighbours of a bottom track are top tracks.                            *)
LEMMA NeighboursTop ==
  ASSUME NEW b \in Int, ~is_toptrack(b)
  PROVE  is_toptrack(b - 1) /\ is_toptrack(b + 1)
BY DEF is_toptrack

-----------------------------------------------------------------------------
(* Extending a batch.                                                      *)

(* What appending one entry does to a table.                               *)
LEMMA AppendEntry ==
  ASSUME NEW x \in Seq(Entries), NEW e \in Entries, Ascending(x),
         \A m \in Members(x) : m.pba < e.pba
  PROVE  /\ Append(x, e) \in Seq(Entries)
         /\ Append(x, e) # <<>>
         /\ Members(Append(x, e)) = Members(x) \cup {e}
         /\ Ascending(Append(x, e))
<1> DEFINE y == Append(x, e)
<1>1. y \in Seq(Entries) /\ Len(y) = Len(x) + 1 /\ Len(x) \in Nat /\ y # <<>>
  OBVIOUS
<1>2. y[Len(x) + 1] = e /\ \A k \in 1 .. Len(x) : y[k] = x[k]
  OBVIOUS
<1>3. Members(y) = Members(x) \cup {e}
  BY <1>1, <1>2 DEF Members
<1>4. Ascending(y)
  <2> SUFFICES ASSUME NEW j \in 1 .. Len(y), NEW k \in 1 .. Len(y), j < k
               PROVE  y[j].pba < y[k].pba
    BY DEF Ascending
  <2>1. j \in 1 .. Len(x) /\ y[j] = x[j] /\ x[j] \in Members(x)
    BY <1>1, <1>2 DEF Members
  <2>2. CASE k = Len(x) + 1
    BY <1>2, <2>1, <2>2
  <2>3. CASE k # Len(x) + 1
    <3>1. k \in 1 .. Len(x)
      BY <1>1, <2>3
    <3> QED
      BY <1>2, <2>1, <3>1 DEF Ascending
  <2> QED
    BY <2>2, <2>3
<1> QED
  BY <1>1, <1>3, <1>4

(* A table whose entries do not lie past t mentions t in its last entry or *)
(* not at all.                                                             *)
LEMMA LastOrNot ==
  ASSUME NEW x \in Seq(Entries), NEW t \in Tracks, Ascending(x),
         \A m \in Members(x) : m.pba <= t
  PROVE  LastIs(x, t) <=> \E m \in Members(x) : m.pba = t
<1>1. Len(x) \in Nat /\ \A k \in 1 .. Len(x) : x[k] \in Entries /\ x[k] \in Members(x)
  BY DEF Members
<1>2. \A m \in Members(x) : \E k \in 1 .. Len(x) : m = x[k]
  BY DEF Members
<1>3. x # <<>> => Len(x) \in 1 .. Len(x)
  OBVIOUS
<1>4. ASSUME LastIs(x, t) PROVE \E m \in Members(x) : m.pba = t
  BY <1>1, <1>3, <1>4 DEF LastIs
<1>5. ASSUME NEW m \in Members(x), m.pba = t PROVE LastIs(x, t)
  <2>1. PICK k \in 1 .. Len(x) : m = x[k]
    BY <1>2
  <2>2. x # <<>> /\ Len(x) \in 1 .. Len(x)
    BY <2>1, <1>1, <1>3
  <2>3. CASE k = Len(x)
    BY <2>1, <2>2, <2>3, <1>5 DEF LastIs
  <2>4. CASE k < Len(x)
    <3>1. x[k].pba < x[Len(x)].pba
      BY <2>2, <2>4 DEF Ascending
    <3>2. x[Len(x)].pba <= t /\ x[Len(x)].pba \in Nat /\ t \in Nat
      BY <1>1, <2>2, TracksType DEF Entries
    <3> QED
      BY <3>1, <3>2, <2>1, <1>5
  <2> QED
    BY <2>3, <2>4, <1>1
<1> QED
  BY <1>4, <1>5

(* The state of the extension when it comes to track T, later than all the *)
(* tracks V it has visited.                                                *)
Reached(x, V, T) ==
  /\ x \in Seq(Entries) /\ V \subseteq Tracks /\ T \in Tracks
  /\ \A v \in V : v < T
  /\ Ascending(x) /\ Covers(x, V)

LEMMA DamagedAreTops ==
  ASSUME NEW B \in SUBSET Tracks, NEW t \in Damaged(B)
  PROVE  t \in Tracks /\ t \notin B /\ is_toptrack(t)
<1>1. PICK b \in B : ~is_toptrack(b) /\ t \in {b - 1, b + 1}
  BY DEF Damaged
<1>2. b \in Int
  BY TracksType
<1> QED
  BY <1>1, <1>2, NeighboursTop DEF Damaged

(* So far the table mentions V and the tracks it damages, none past T.     *)
LEMMA ReachedEntries ==
  ASSUME NEW x, NEW V, NEW T, Reached(x, V, T)
  PROVE  /\ \A m \in Members(x) : \/ m.pba \in V /\ m = Physical(m.pba)
                                  \/ m.pba \in Damaged(V) /\ m = Virtual(m.pba)
         /\ \A m \in Members(x) : m \in Entries /\ m.pba <= T
         /\ \A t \in Tracks : (\E m \in Members(x) : m.pba = t) <=> t \in V \cup Damaged(V)
<1>1. Members(x) = {Physical(t) : t \in V} \cup {Virtual(t) : t \in Damaged(V)}
  BY DEF Reached, Covers
<1>2. V \subseteq Tracks /\ Damaged(V) \subseteq Tracks
  BY DEF Reached, Damaged
<1>3. \A t \in Tracks : /\ Physical(t).pba = t /\ Virtual(t).pba = t
                        /\ Physical(t) \in Entries /\ Virtual(t) \in Entries
  BY DEF Physical, Virtual, Entries
<1>4. \A v \in V : v <= T
  BY <1>2, TracksType DEF Reached
<1>5. ASSUME NEW t \in Damaged(V) PROVE t <= T
  <2>1. PICK b \in V : t \in {b - 1, b + 1}
    BY DEF Damaged
  <2>2. b < T /\ b \in Int /\ T \in Int
    BY <1>2, TracksType DEF Reached
  <2> QED
    BY <2>1, <2>2
<1>6. \A m \in Members(x) : \/ m.pba \in V /\ m = Physical(m.pba)
                            \/ m.pba \in Damaged(V) /\ m = Virtual(m.pba)
  BY <1>1, <1>2, <1>3
<1>7. \A m \in Members(x) : m \in Entries /\ m.pba <= T
  BY <1>6, <1>2, <1>3, <1>4, <1>5
<1>8. ASSUME NEW t \in V \cup Damaged(V) PROVE \E m \in Members(x) : m.pba = t
  BY <1>1, <1>2, <1>3
<1> QED
  BY <1>6, <1>7, <1>8

(* A top track damages nothing; it may have been in the table as virtual.  *)
LEMMA ExtendTop ==
  ASSUME NEW x, NEW V, NEW T, Reached(x, V, T), is_toptrack(T)
  PROVE  /\ ExtendedByTop(x, T) \in Seq(Entries)
         /\ ExtendedByTop(x, T) # <<>>
         /\ Ascending(ExtendedByTop(x, T))
         /\ Covers(ExtendedByTop(x, T), V \cup {T})
<1> DEFINE W == V \cup {T}
<1>1. /\ x \in Seq(Entries) /\ V \subseteq Tracks /\ T \in Tracks
      /\ \A v \in V : v < T
      /\ Ascending(x) /\ Covers(x, V)
  BY DEF Reached
<1>2. T \notin V /\ T \in Nat
  BY <1>1, TracksType
<1>3. Damaged(W) = Damaged(V) \ {T}
  BY <1>1 DEF Damaged
<1>4. /\ \A m \in Members(x) : \/ m.pba \in V /\ m = Physical(m.pba)
                               \/ m.pba \in Damaged(V) /\ m = Virtual(m.pba)
      /\ \A m \in Members(x) : m \in Entries /\ m.pba <= T
      /\ \A t \in Tracks : (\E m \in Members(x) : m.pba = t) <=> t \in V \cup Damaged(V)
  BY ReachedEntries
<1>5. LastIs(x, T) <=> T \in Damaged(V)
  BY <1>1, <1>2, <1>4, LastOrNot
<1>6. Physical(T) \in Entries /\ Physical(T).pba = T
  BY <1>1 DEF Physical, Entries
<1>7. CASE ~LastIs(x, T)
  <2>1. ExtendedByTop(x, T) = Append(x, Physical(T))
    BY <1>7 DEF ExtendedByTop
  <2>2. \A m \in Members(x) : m.pba < Physical(T).pba
    <3>1. \A m \in Members(x) : m.pba # T /\ m.pba \in Nat
      BY <1>1, <1>2, <1>4, <1>5, <1>7, TracksType DEF Entries
    <3> QED
      BY <3>1, <1>2, <1>4, <1>6
  <2>3. /\ Append(x, Physical(T)) \in Seq(Entries) /\ Append(x, Physical(T)) # <<>>
        /\ Members(Append(x, Physical(T))) = Members(x) \cup {Physical(T)}
        /\ Ascending(Append(x, Physical(T)))
    BY <1>1, <1>6, <2>2, AppendEntry
  <2>4. Damaged(W) = Damaged(V)
    BY <1>3, <1>5, <1>7
  <2>5. Covers(Append(x, Physical(T)), W)
    BY <1>1, <2>3, <2>4 DEF Covers
  <2> QED
    BY <2>1, <2>3, <2>5
<1>8. CASE LastIs(x, T)
  <2> DEFINE n == Len(x)
             y == [x EXCEPT ![n] = Physical(T)]
  <2>1. n \in Nat /\ x # <<>> /\ x[n].pba = T /\ n \in 1 .. n
    BY <1>1, <1>8 DEF LastIs
  <2>5. y \in Seq(Entries) /\ Len(y) = n /\ y # <<>>
    <3>1. x \in [1 .. n -> Entries]
      BY <1>1
    <3>2. y \in [1 .. n -> Entries]
      BY <1>6, <2>1, <3>1
    <3> HIDE DEF y
    <3> QED
      BY <2>1, <3>2
  <2>6. y[n] = Physical(T) /\ \A k \in 1 .. n : k # n => y[k] = x[k]
    BY <1>1, <2>1
  <2> HIDE DEF y
  <2>7. \A k \in 1 .. n : y[k].pba = x[k].pba
    BY <1>6, <2>1, <2>6
  <2>8. Ascending(y)
    BY <1>1, <2>5, <2>7 DEF Ascending
  <2>9. \A k \in 1 .. n : k # n => x[k].pba # T
    <3> SUFFICES ASSUME NEW k \in 1 .. n, k # n PROVE x[k].pba # T
      OBVIOUS
    <3>1. k < n
      BY <2>1
    <3>2. x[k].pba < T
      BY <1>1, <2>1, <3>1 DEF Ascending
    <3> QED
      BY <3>2, <1>2
  <2>10. \A m \in Members(y) : m = Physical(T) \/ (m \in Members(x) /\ m.pba # T)
    BY <1>1, <2>5, <2>6, <2>9 DEF Members
  <2>11. \A m \in Members(x) : m.pba # T => m \in Members(y)
    BY <1>1, <2>1, <2>5, <2>6 DEF Members
  <2>12. Physical(T) \in Members(y)
    BY <2>1, <2>5, <2>6 DEF Members
  <2>13. Members(y) = {Physical(t) : t \in W} \cup {Virtual(t) : t \in Damaged(W)}
    <3>1. ASSUME NEW m \in Members(y)
          PROVE  m \in {Physical(t) : t \in W} \cup {Virtual(t) : t \in Damaged(W)}
      BY <1>3, <1>4, <2>10
    <3>2. ASSUME NEW t \in W PROVE Physical(t) \in Members(y)
      <4>1. CASE t = T
        BY <4>1, <2>12
      <4>2. CASE t \in V
        <5>1. Physical(t) \in Members(x) /\ Physical(t).pba = t /\ t # T
          BY <1>1, <1>2, <4>2 DEF Covers, Physical
        <5> QED
          BY <5>1, <2>11
      <4> QED
        BY <4>1, <4>2
    <3>3. ASSUME NEW t \in Damaged(W) PROVE Virtual(t) \in Members(y)
      <4>1. t \in Damaged(V) /\ t # T
        BY <1>3
      <4>2. Virtual(t) \in Members(x) /\ Virtual(t).pba = t
        BY <1>1, <4>1 DEF Covers, Virtual
      <4> QED
        BY <4>1, <4>2, <2>11
    <3> QED
      BY <3>1, <3>2, <3>3
  <2>14. y = ExtendedByTop(x, T)
    BY <1>8 DEF y, ExtendedByTop
  <2> QED
    BY <2>5, <2>8, <2>13, <2>14 DEF Covers
<1> QED
  BY <1>7, <1>8

(* A bottom track comes with the tracks in use on either side.             *)
LEMMA ExtendBottom ==
  ASSUME NEW x, NEW V, NEW T, Reached(x, V, T), ~is_toptrack(T)
  PROVE  LET y == AddAfter(Append(AddBefore(x, T), Physical(T)), T) IN
         y \in Seq(Entries) /\ y # <<>> /\ Ascending(y) /\ Covers(y, V \cup {T})
<1> DEFINE W == V \cup {T}
           Before == IF T # 0 /\ storage_is_in_use(T - 1) THEN {T - 1} ELSE {}
           After == IF T # N - 1 /\ storage_is_in_use(T + 1) THEN {T + 1} ELSE {}
           P == {Physical(t) : t \in V}
           x1 == AddBefore(x, T)
           x2 == Append(x1, Physical(T))
           x3 == AddAfter(x2, T)
<1>1. /\ x \in Seq(Entries) /\ V \subseteq Tracks /\ T \in Tracks
      /\ \A v \in V : v < T
      /\ Ascending(x) /\ Covers(x, V)
  BY DEF Reached
<1>2. T \notin V /\ T \in Nat /\ N \in Nat /\ T < N /\ is_toptrack(T - 1) /\ is_toptrack(T + 1)
  BY <1>1, TracksType, NeighboursTop
<1>3. Before \subseteq Tracks /\ After \subseteq Tracks
  BY <1>2 DEF Tracks
<1>4. /\ \A m \in Members(x) : \/ m.pba \in V /\ m = Physical(m.pba)
                               \/ m.pba \in Damaged(V) /\ m = Virtual(m.pba)
      /\ \A m \in Members(x) : m \in Entries /\ m.pba <= T
      /\ \A t \in Tracks : (\E m \in Members(x) : m.pba = t) <=> t \in V \cup Damaged(V)
  BY ReachedEntries
<1>5. \A m \in Members(x) : m \in Entries /\ m.pba \in Nat /\ m.pba < T
  <2> SUFFICES ASSUME NEW m \in Members(x) PROVE m \in Entries /\ m.pba \in Nat /\ m.pba < T
    OBVIOUS
  <2>1. m \in Entries /\ m.pba \in Nat /\ m.pba <= T
    BY <1>4, TracksType DEF Entries
  <2>2. T \notin Damaged(V)
    BY <1>1, DamagedAreTops
  <2>3. m.pba # T
    BY <1>2, <1>4, <2>2
  <2> QED
    BY <1>2, <2>1, <2>3
<1>6. \A t \in Tracks : /\ Physical(t) \in Entries /\ Physical(t).pba = t
                        /\ Virtual(t) \in Entries /\ Virtual(t).pba = t
  BY DEF Physical, Virtual, Entries
<1>7. Damaged(W) = (Damaged(V) \cup Before \cup After) \ W
  <2>1. ASSUME NEW t \in Damaged(W) PROVE t \in (Damaged(V) \cup Before \cup After) \ W
    <3>1. PICK b \in W : ~is_toptrack(b) /\ t \in {b - 1, b + 1}
      BY DEF Damaged
    <3>2. t \in Tracks /\ t \notin W /\ storage_is_in_use(t)
      BY DEF Damaged
    <3>3. CASE b \in V
      BY <3>1, <3>2, <3>3 DEF Damaged
    <3>4. CASE b = T
      <4>1. t \in Nat /\ t < N
        BY <3>2, TracksType
      <4>2. t = T - 1 => t \in Before
        BY <1>2, <3>2, <4>1
      <4>3. t = T + 1 => t \in After
        BY <1>2, <3>2, <4>1
      <4> QED
        BY <3>1, <3>2, <3>4, <4>2, <4>3
    <3> QED
      BY <3>1, <3>3, <3>4
  <2>2. ASSUME NEW t \in (Damaged(V) \cup Before \cup After) \ W PROVE t \in Damaged(W)
    <3>1. CASE t \in Damaged(V)
      BY <3>1 DEF Damaged
    <3>2. CASE t \in Before \cup After
      <4>1. t \in Tracks /\ t \notin W
        BY <1>3, <3>2
      <4>2. storage_is_in_use(t) /\ t \in {T - 1, T + 1}
        BY <3>2
      <4> QED
        BY <4>1, <4>2 DEF Damaged
    <3> QED
      BY <2>2, <3>1, <3>2
  <2> QED
    BY <2>1, <2>2
<1>8. /\ x1 \in Seq(Entries) /\ Ascending(x1)
      /\ Members(x1) = P \cup {Virtual(t) : t \in Damaged(V) \cup (Before \ V)}
      /\ \A m \in Members(x1) : m \in Entries /\ m.pba \in Nat /\ m.pba < T
  <2>1. Members(x) = P \cup {Virtual(t) : t \in Damaged(V)}
    BY <1>1 DEF Covers
  <2>2. CASE Before = {}
    <3>1. x1 = x
      BY <2>2 DEF AddBefore
    <3> QED
      BY <1>1, <1>5, <2>1, <2>2, <3>1
  <2>3. CASE Before # {}
    <3>1. T # 0 /\ storage_is_in_use(T - 1) /\ Before = {T - 1} /\ T - 1 \in Tracks
      BY <1>3, <2>3
    <3>2. \A m \in Members(x) : m.pba <= T - 1
      BY <1>2, <1>5
    <3>3. LastIs(x, T - 1) <=> T - 1 \in V \cup Damaged(V)
      BY <1>1, <1>4, <3>1, <3>2, LastOrNot
    <3>4. CASE LastIs(x, T - 1)
      <4>1. x1 = x /\ Damaged(V) \cup (Before \ V) = Damaged(V)
        BY <3>1, <3>3, <3>4 DEF AddBefore
      <4> QED
        BY <1>1, <1>5, <2>1, <4>1
    <3>5. CASE ~LastIs(x, T - 1)
      <4>1. x1 = Append(x, Virtual(T - 1)) /\ Before \ V = {T - 1}
        BY <3>1, <3>3, <3>5 DEF AddBefore
      <4>2. \A m \in Members(x) : m.pba < Virtual(T - 1).pba
        <5>1. \A m \in Members(x) : m.pba # T - 1
          BY <1>4, <3>1, <3>3, <3>5
        <5> QED
          BY <1>2, <1>5, <1>6, <3>1, <3>2, <5>1
      <4>3. Virtual(T - 1) \in Entries
        BY <1>6, <3>1
      <4>4. /\ x1 \in Seq(Entries) /\ Members(x1) = Members(x) \cup {Virtual(T - 1)}
            /\ Ascending(x1)
        BY <1>1, <4>1, <4>2, <4>3, AppendEntry
      <4>5. Virtual(T - 1).pba \in Nat /\ Virtual(T - 1).pba < T
        BY <1>2, <1>6, <3>1
      <4> QED
        BY <1>5, <2>1, <4>1, <4>3, <4>4, <4>5
    <3> QED
      BY <3>4, <3>5
  <2> QED
    BY <2>2, <2>3
<1> HIDE DEF x1
<1>9. /\ x2 \in Seq(Entries) /\ x2 # <<>> /\ Ascending(x2)
      /\ Members(x2) = Members(x1) \cup {Physical(T)}
  BY <1>1, <1>6, <1>8, AppendEntry
<1> HIDE DEF x2
<1>10. /\ x3 \in Seq(Entries) /\ x3 # <<>> /\ Ascending(x3)
       /\ Members(x3) = Members(x2) \cup {Virtual(t) : t \in After}
  <2>1. CASE After = {}
    <3>1. x3 = x2
      BY <2>1 DEF AddAfter
    <3> QED
      BY <1>9, <2>1, <3>1
  <2>2. CASE After # {}
    <3>1. x3 = Append(x2, Virtual(T + 1)) /\ After = {T + 1} /\ T + 1 \in Tracks
      BY <1>3, <2>2 DEF AddAfter
    <3>2. \A m \in Members(x2) : m.pba < Virtual(T + 1).pba
      BY <1>1, <1>2, <1>6, <1>8, <1>9, <3>1
    <3>3. Virtual(T + 1) \in Entries
      BY <1>6, <3>1
    <3>4. /\ x3 \in Seq(Entries) /\ x3 # <<>> /\ Ascending(x3)
          /\ Members(x3) = Members(x2) \cup {Virtual(T + 1)}
      BY <1>9, <3>1, <3>2, <3>3, AppendEntry
    <3> QED
      BY <3>1, <3>4
  <2> QED
    BY <2>1, <2>2
<1>11. Covers(x3, W)
  <2>1. (Damaged(V) \cup (Before \ V)) \cup After = Damaged(W)
    <3>1. T \notin Before /\ T \notin After /\ T \notin Damaged(V)
      BY <1>2, DamagedAreTops, <1>1
    <3>2. After \cap V = {}
      <4>1. T + 1 \notin V
        BY <1>1, <1>2, TracksType
      <4> QED
        BY <4>1
    <3>3. Damaged(V) \cap V = {}
      BY DEF Damaged
    <3> QED
      BY <1>7, <3>1, <3>2, <3>3
  <2>2. Members(x3) = (P \cup {Physical(T)})
          \cup {Virtual(t) : t \in (Damaged(V) \cup (Before \ V)) \cup After}
    BY <1>8, <1>9, <1>10
  <2>3. P \cup {Physical(T)} = {Physical(t) : t \in W}
    OBVIOUS
  <2> QED
    BY <2>1, <2>2, <2>3 DEF Covers
<1> QED
  BY <1>10, <1>11 DEF x1, x2

(* Whatever the batch, extending it leaves a table with entries.           *)
LEMMA ExtendedType ==
  ASSUME NEW x \in Seq(Entries), NEW T \in Tracks
  PROVE  Extended(x, T) \in Seq(Entries) /\ Extended(x, T) # <<>>
<1>1. Physical(T) \in Entries /\ T \in Nat /\ N \in Nat /\ T < N
  BY TracksType DEF Physical, Entries
<1>2. CASE is_toptrack(T)
  <2>1. Extended(x, T) = ExtendedByTop(x, T)
    BY <1>2 DEF Extended
  <2>2. CASE LastIs(x, T)
    <3> DEFINE y == [x EXCEPT ![Len(x)] = Physical(T)]
    <3>1. x \in [1 .. Len(x) -> Entries] /\ Len(x) \in 1 .. Len(x)
      BY <2>2 DEF LastIs
    <3>2. y \in [1 .. Len(x) -> Entries]
      BY <1>1, <3>1
    <3>3. y = Extended(x, T)
      BY <2>1, <2>2 DEF ExtendedByTop
    <3> HIDE DEF y
    <3>4. y \in Seq(Entries) /\ y # <<>>
      BY <3>1, <3>2
    <3> QED
      BY <3>3, <3>4
  <2>3. CASE ~LastIs(x, T)
    BY <1>1, <2>1, <2>3 DEF ExtendedByTop
  <2> QED
    BY <2>2, <2>3
<1>3. CASE ~is_toptrack(T)
  <2> DEFINE before == AddBefore(x, T)
             middle == Append(before, Physical(T))
  <2>1. T # 0 => T - 1 \in Tracks
    BY <1>1 DEF Tracks
  <2>2. T # N - 1 => T + 1 \in Tracks
    BY <1>1 DEF Tracks
  <2>3. \A t \in Tracks : Virtual(t) \in Entries
    BY DEF Virtual, Entries
  <2>4. before \in Seq(Entries)
    BY <2>1, <2>3 DEF AddBefore
  <2> HIDE DEF before
  <2>5. middle \in Seq(Entries) /\ middle # <<>>
    BY <1>1, <2>4
  <2>6. Extended(x, T) = AddAfter(middle, T)
    BY <1>3 DEF Extended, before
  <2> HIDE DEF middle
  <2>7. AddAfter(middle, T) \in Seq(Entries) /\ AddAfter(middle, T) # <<>>
    BY <2>2, <2>3, <2>5 DEF AddAfter
  <2> QED
    BY <2>6, <2>7
<1> QED
  BY <1>2, <1>3

(* A sorted batch without repeats ascends.                                 *)
LEMMA SyncedAscends ==
  ASSUME TypeOK, Synced, Distinct,
         NEW j \in 1 .. Len(block_head), NEW k \in 1 .. Len(block_head), j < k
  PROVE  block_head[j] < block_head[k]
<1>1. block_head[j] \in Nat /\ block_head[k] \in Nat
  BY TracksType DEF TypeOK
<1>2. block_head[j] <= block_head[k] /\ block_head[j] # block_head[k]
  BY DEF Synced, Distinct
<1> QED
  BY <1>1, <1>2

(* One step of batch_extend, in the middle of the loop or at its end.      *)
LEMMA ExtendOnce ==
  ASSUME TypeOK, ExtendInv, pc = "extend"
  PROVE  LET x == Extended(extend_head, block_head[i])
             V == Visited \cup {block_head[i]}
         IN  /\ x \in Seq(Entries) /\ x # <<>>
             /\ Distinct => Ascending(x) /\ Covers(x, V)
             /\ V = {block_head[k] : k \in 1 .. i}
             /\ i = Len(block_head) => V = Batched
<1> DEFINE T == block_head[i]
<1>1. /\ block_head \in Seq(Tracks) /\ Len(block_head) \in Nat /\ i \in 1 .. Len(block_head)
      /\ extend_head \in Seq(Entries) /\ Synced
      /\ Distinct => Ascending(extend_head) /\ Covers(extend_head, Visited)
  BY DEF TypeOK, ExtendInv
<1>2. T \in Tracks /\ Visited \subseteq Tracks
  BY <1>1 DEF Visited
<1>3. Visited \cup {T} = {block_head[k] : k \in 1 .. i}
  BY <1>1 DEF Visited
<1>4. i = Len(block_head) => {block_head[k] : k \in 1 .. i} = Batched
  BY <1>1 DEF Batched, Members
<1>5. Extended(extend_head, T) \in Seq(Entries) /\ Extended(extend_head, T) # <<>>
  BY <1>1, <1>2, ExtendedType
<1>6. ASSUME Distinct
      PROVE  LET x == Extended(extend_head, T)
             IN  Ascending(x) /\ Covers(x, Visited \cup {T})
  <2>1. \A v \in Visited : v < T
    <3> SUFFICES ASSUME NEW k \in 1 .. i - 1 PROVE block_head[k] < T
      BY DEF Visited
    <3>1. k \in 1 .. Len(block_head) /\ k < i
      BY <1>1
    <3> QED
      BY <1>1, <1>6, <3>1, SyncedAscends
  <2>2. Reached(extend_head, Visited, T)
    BY <1>1, <1>2, <1>6, <2>1 DEF Reached
  <2>3. CASE is_toptrack(T)
    BY <2>2, <2>3, ExtendTop DEF Extended
  <2>4. CASE ~is_toptrack(T)
    BY <2>2, <2>4, ExtendBottom DEF Extended
  <2> QED
    BY <2>3, <2>4
<1> QED
  BY <1>3, <1>4, <1>5, <1>6

-----------------------------------------------------------------------------
(* The inductive invariant.                                                *)

LEMMA InitIInv == Init => IInv
<1> SUFFICES ASSUME Init PROVE IInv
  OBVIOUS
<1>1. TypeOK
  <2>1. status \in [Tracks -> Statuses] /\ block_head \in Seq(Tracks) /\ extend_head \in Seq(Entries)
    BY DEF Init, Statuses
  <2>2. first \in BOOLEAN
    BY Zenon DEF Init
  <2>3. call \in Calls /\ pc = "fill" /\ i \in Nat \ {0}
    BY DEF Init, Calls
  <2>4. run \in [continuous_tracks : Nat, num_phy_tracks : Nat, is_virtual : BOOLEAN]
    BY DEF Init, NewRun
  <2>5. recorded \in [size : Nat, rewrite : Nat, reread : Nat, seeks : Nat]
    BY DEF Init, NoRecord
  <2> QED
    BY <2>1, <2>2, <2>3, <2>4, <2>5, Zenon DEF TypeOK
<1>2. ExtendInv /\ ExtendedRight
  BY DEF Init, ExtendInv, ExtendedRight, Recording
<1>3. RecordInv
  BY DEF Init, RecordInv
<1> QED
  BY <1>1, <1>2, <1>3 DEF IInv

LEMMA FillStep ==
  ASSUME IInv, (\E t \in Tracks : batch_add(t) \/ Elsewhere(t)) \/ ReadNothing \/ DeleteNothing
  PROVE  IInv'
<1>1. TypeOK /\ ExtendInv /\ RecordInv /\ pc = "fill" /\ pc' \in {"fill", "stopped"}
      /\ UNCHANGED <<extend_head, first, call, i, run, recorded>>
  BY DEF IInv, batch_add, Elsewhere, ReadNothing, DeleteNothing, records
<1>2. status' \in [Tracks -> Statuses] /\ block_head' \in Seq(Tracks)
  <2>1. ASSUME NEW t \in Tracks, batch_add(t)
        PROVE  status' \in [Tracks -> Statuses] /\ block_head' \in Seq(Tracks)
    BY <1>1, <2>1 DEF batch_add, TypeOK
  <2>2. ASSUME NEW t \in Tracks, Elsewhere(t)
        PROVE  status' \in [Tracks -> Statuses] /\ block_head' \in Seq(Tracks)
    BY <1>1, <2>2 DEF Elsewhere, TypeOK
  <2>3. ASSUME ReadNothing \/ DeleteNothing
        PROVE  status' \in [Tracks -> Statuses] /\ block_head' \in Seq(Tracks)
    BY <1>1, <2>3 DEF ReadNothing, DeleteNothing, TypeOK
  <2> QED
    BY <2>1, <2>2, <2>3
<1>3. TypeOK'
  BY <1>1, <1>2 DEF TypeOK
<1>4. ExtendInv' /\ ExtendedRight'
  BY <1>1 DEF ExtendInv, ExtendedRight, Recording
<1>5. RecordInv'
  BY <1>1 DEF RecordInv
<1> QED
  BY <1>3, <1>4, <1>5 DEF IInv

LEMMA Beginning ==
  ASSUME IInv, NEW c, NEW next, Begin(c, next), c \in Calls, next \in {"write", "extend", "record"},
         status' \in [Tracks -> Statuses],
         next = "write" => block_head = <<>>,
         next # "write" => block_head # <<>>,
         next = "record" <=> c = "read"
  PROVE  IInv'
<1>1. TypeOK /\ ExtendInv /\ RecordInv /\ pc = "fill" /\ extend_head = <<>> /\ i = 1
      /\ run = NewRun /\ recorded = NoRecord
      /\ pc' = next /\ call' = c /\ UNCHANGED <<extend_head, first, i, run, recorded>>
  BY DEF IInv, ExtendInv, RecordInv, Begin, records
<1>2. PICK s \in batch_sync(block_head) : block_head' = s
  BY DEF Begin
<1>3. block_head \in Seq(Tracks) /\ Len(block_head) \in Nat /\ Members(block_head) \subseteq Tracks
  BY <1>1 DEF TypeOK, Members
<1>4. PICK p \in Orders(block_head) : s = [k \in 1 .. Len(block_head) |-> block_head[p[k]]]
  BY <1>2 DEF batch_sync
<1>41. /\ p \in [1 .. Len(block_head) -> 1 .. Len(block_head)]
       /\ \A j, k \in 1 .. Len(block_head) : j < k => block_head[p[j]] <= block_head[p[k]]
  <2>1. DOMAIN block_head = 1 .. Len(block_head)
    BY <1>3
  <2> QED
    BY <1>4, <2>1 DEF Orders
<1>42. s \in [1 .. Len(block_head) -> Tracks]
  BY <1>3, <1>4, <1>41
<1>5. block_head' \in Seq(Tracks) /\ Len(block_head') = Len(block_head)
  BY <1>2, <1>3, <1>42
<1>6. Synced'
  BY <1>2, <1>4, <1>41, <1>5 DEF Synced
<1>7. TypeOK'
  BY <1>1, <1>5 DEF TypeOK
<1>8. Visited' = {} /\ Damaged(Visited)' = {} /\ Members(extend_head)' = {}
  <2>1. Visited' = {}
    BY <1>1 DEF Visited
  <2> QED
    BY <1>1, <2>1 DEF Damaged, Members
<1>9. Ascending(extend_head)' /\ Covers(extend_head, Visited)'
  BY <1>1, <1>8 DEF Ascending, Covers
<1>10. next # "write" => 1 <= Len(block_head')
  BY <1>3, <1>5
<1>11. ExtendInv'
  BY <1>1, <1>6, <1>9, <1>10 DEF ExtendInv
<1>12. RecordInv'
  <2>1. /\ run' = NewRun /\ recorded' = NoRecord /\ i' = 1
        /\ pc' \in {"write", "extend", "record"}
    BY <1>1
  <2>2. pc' = "record" => 1 <= Len(Table')
    <3>1. ASSUME pc' = "record" PROVE Table' = [k \in 1 .. Len(block_head') |-> Physical(block_head'[k])]
      BY <1>1, <3>1 DEF Table
    <3> QED
      BY <1>1, <1>5, <1>10, <3>1
  <2> QED
    BY <2>1, <2>2 DEF RecordInv, NewRun, NoRecord
<1>13. ExtendedRight'
  <2>1. pc' = "write" => block_head' = <<>>
    <3>1. block_head = <<>> => Len(block_head') = 0
      BY <1>5
    <3>2. Len(block_head') = 0 => block_head' = <<>>
      BY <1>5
    <3> QED
      BY <1>1, <3>1, <3>2
  <2> QED
    BY <1>1, <2>1 DEF ExtendedRight, Recording
<1> QED
  BY <1>7, <1>11, <1>12, <1>13 DEF IInv

LEMMA WrittenType ==
  ASSUME TypeOK
  PROVE  /\ Written \in [Tracks -> Statuses]
         /\ \A t \in Tracks \ Members(block_head) : Written[t] = status[t]
BY DEF Written, TypeOK, Statuses

LEMMA BeginStep ==
  ASSUME IInv, batch_write \/ batch_read \/ batch_delete \/ rw_block
  PROVE  IInv'
<1>1. TypeOK
  BY DEF IInv
<1>2. CASE batch_write
  <2>1. CASE block_head = <<>>
    BY <1>1, <1>2, <2>1, Beginning DEF batch_write, Calls, TypeOK
  <2>2. CASE block_head # <<>>
    BY <1>1, <1>2, <2>2, Beginning DEF batch_write, Calls, TypeOK
  <2> QED
    BY <2>1, <2>2
<1>3. CASE batch_read
  BY <1>1, <1>3, Beginning DEF batch_read, Calls, TypeOK
<1>4. CASE batch_delete
  BY <1>1, <1>4, Beginning DEF batch_delete, Calls, TypeOK
<1>5. CASE rw_block
  <2>1. block_head # <<>>
    BY <1>5 DEF rw_block
  <2> QED
    BY <1>1, <1>5, <2>1, Beginning, WrittenType DEF rw_block, Calls
<1> QED
  BY <1>2, <1>3, <1>4, <1>5

LEMMA ExtendStep ==
  ASSUME IInv, Extend
  PROVE  IInv'
<1>1. TypeOK /\ ExtendInv /\ RecordInv /\ pc = "extend" /\ i \in 1 .. Len(block_head)
      /\ run = NewRun /\ recorded = NoRecord /\ Synced /\ Len(block_head) \in Nat
      /\ UNCHANGED <<status, block_head, call, run, recorded>>
      /\ Distinct' = Distinct
  BY DEF Distinct, IInv, TypeOK, ExtendInv, RecordInv, Extend, records
<1> DEFINE x == Extended(extend_head, block_head[i])
           V == Visited \cup {block_head[i]}
<1>2. /\ x \in Seq(Entries) /\ x # <<>>
      /\ Distinct => Ascending(x) /\ Covers(x, V)
      /\ V = {block_head[k] : k \in 1 .. i}
      /\ i = Len(block_head) => V = Batched
  BY <1>1, ExtendOnce
<1>3. extend_head' = x /\ first' = x[1].isVirtual
  BY DEF Extend
<1> HIDE DEF x
<1>4. x[1] \in Entries /\ Len(x) \in Nat /\ Len(x) >= 1
  BY <1>2
<1>5. first' \in BOOLEAN
  BY <1>3, <1>4 DEF Entries
<1>6. /\ i < Len(block_head) => i' = i + 1 /\ pc' = "extend"
      /\ ~(i < Len(block_head)) => i' = 1 /\ pc' \in {"write", "record"}
  BY <1>1 DEF Extend
<1>7. TypeOK'
  BY <1>1, <1>2, <1>3, <1>5, <1>6 DEF TypeOK
<1>8. CASE i < Len(block_head)
  <2>1. Visited' = V /\ i' = i + 1 /\ pc' = "extend" /\ i' <= Len(block_head') /\ i' # 1
    BY <1>1, <1>2, <1>6, <1>8 DEF Visited
  <2>2. Damaged(Visited)' = Damaged(V)
    BY <1>1, <2>1 DEF Damaged, storage_is_in_use
  <2>3. Distinct => Ascending(extend_head)' /\ Covers(extend_head, Visited)'
    BY <1>2, <1>3, <2>1, <2>2 DEF Ascending, Covers
  <2>4. ExtendInv'
    BY <1>1, <2>1, <2>3 DEF ExtendInv, Synced
  <2>5. RecordInv' /\ ExtendedRight'
    BY <1>1, <2>1 DEF RecordInv, ExtendedRight, Recording
  <2> QED
    BY <1>7, <2>4, <2>5 DEF IInv
<1>9. CASE ~(i < Len(block_head))
  <2>1. i' = 1 /\ pc' \in {"write", "record"} /\ i = Len(block_head)
    BY <1>1, <1>6, <1>9
  <2>2. Batched' = V
    BY <1>1, <1>2, <2>1 DEF Batched
  <2>3. Damaged(Batched)' = Damaged(V)
    BY <1>1, <2>2 DEF Damaged, storage_is_in_use
  <2>4. Distinct => Ascending(extend_head)' /\ Covers(extend_head, Batched)'
    BY <1>2, <1>3, <2>2, <2>3 DEF Ascending, Covers
  <2>5. ExtendInv'
    BY <1>1, <2>1 DEF ExtendInv, Synced
  <2>6. call # "read"
    BY <1>1 DEF ExtendInv
  <2>7. Table' = x
    BY <1>1, <1>3, <2>6 DEF Table
  <2>8. RecordInv'
    BY <1>1, <1>4, <2>1, <2>7 DEF RecordInv, NewRun, NoRecord
  <2>9. ExtendedRight'
    BY <1>1, <2>4 DEF ExtendedRight, Recording
  <2> QED
    BY <1>7, <2>5, <2>8, <2>9 DEF IInv
<1> QED
  BY <1>8, <1>9

(* The table a call charges is a sequence of entries.                      *)
LEMMA TableType ==
  ASSUME TypeOK
  PROVE  Table \in Seq(Entries) /\ Len(Table) \in Nat /\ (Table # <<>> => Len(Table) >= 1)
<1>1. CASE call = "read"
  <2>1. block_head \in Seq(Tracks) /\ Len(block_head) \in Nat
    BY DEF TypeOK
  <2>2. \A k \in 1 .. Len(block_head) : Physical(block_head[k]) \in Entries
    BY <2>1 DEF Physical, Entries
  <2>3. Table = [k \in 1 .. Len(block_head) |-> Physical(block_head[k])]
    BY <1>1 DEF Table
  <2>4. Table \in Seq(Entries)
    BY <2>1, <2>2, <2>3
  <2> QED
    BY <2>4
<1>2. CASE call # "read"
  BY <1>2 DEF Table, TypeOK
<1> QED
  BY <1>1, <1>2

LEMMA WriteStep ==
  ASSUME IInv, pba_write
  PROVE  IInv'
<1>1. TypeOK /\ ExtendInv /\ RecordInv /\ pc = "write" /\ pc' = "record" /\ status' = Written
      /\ UNCHANGED <<block_head, extend_head, first, call, i, run, recorded>>
  BY DEF IInv, pba_write, records
<1>2. TypeOK'
  BY <1>1, WrittenType DEF TypeOK
<1>3. ExtendInv'
  BY <1>1 DEF ExtendInv, Synced
<1>4. RecordInv'
  <2>1. Table' = Table
    BY <1>1 DEF Table
  <2> QED
    BY <1>1, <2>1, TableType DEF RecordInv, NewRun, NoRecord
<1>5. ExtendedRight'
  <2>1. Batched' = Batched
    BY <1>1 DEF Batched
  <2>2. \A t \in Tracks \ Batched : status'[t] = status[t]
    BY <1>1, WrittenType DEF Batched
  <2>3. Damaged(Batched)' = Damaged(Batched)
    BY <2>1, <2>2 DEF Damaged, storage_is_in_use
  <2>4. Recording' => Recording
    BY <1>1 DEF Recording, Distinct
  <2> QED
    BY <1>1, <2>1, <2>3, <2>4 DEF IInv, ExtendedRight, Ascending, Covers
<1> QED
  BY <1>2, <1>3, <1>4, <1>5 DEF IInv

(* Closing a run adds its tracks to what is written or rewritten.          *)
LEMMA ChargedType ==
  ASSUME recorded \in [size : Nat, rewrite : Nat, reread : Nat, seeks : Nat],
         NEW c \in Nat, NEW n \in Nat, NEW v, n <= c,
         NEW r, r.continuous_tracks = c, r.num_phy_tracks = n, r.is_virtual = v, v \in BOOLEAN
  PROVE  /\ Charged(r) \in [size : Nat, rewrite : Nat, reread : Nat, seeks : Nat]
         /\ Charged(r).size + Charged(r).rewrite = recorded.size + recorded.rewrite + c
<1>1. /\ recorded.size \in Nat /\ recorded.rewrite \in Nat
      /\ recorded.reread \in Nat /\ recorded.seeks \in Nat
  OBVIOUS
<1>2. CASE r.is_virtual
  BY <1>1, <1>2 DEF Charged
<1>3. CASE ~r.is_virtual
  BY <1>1, <1>3 DEF Charged
<1> QED
  BY <1>2, <1>3

LEMMA CountedType ==
  ASSUME TypeOK, Table # <<>> => i <= Len(Table), run.num_phy_tracks < run.continuous_tracks
  PROVE  /\ Counted \in [continuous_tracks : Nat, num_phy_tracks : Nat, is_virtual : BOOLEAN]
         /\ Counted.continuous_tracks = run.continuous_tracks
         /\ Counted.num_phy_tracks <= run.continuous_tracks
<1>1. run \in [continuous_tracks : Nat, num_phy_tracks : Nat, is_virtual : BOOLEAN]
  BY DEF TypeOK
<1>2. Counted = [continuous_tracks |-> run.continuous_tracks,
                 num_phy_tracks |-> run.num_phy_tracks + (IF curr_is_virtual THEN 0 ELSE 1),
                 is_virtual |-> run.is_virtual \/ curr_is_virtual]
  BY DEF Counted
<1>3. run.continuous_tracks \in Nat /\ run.num_phy_tracks \in Nat
  BY <1>1
<1>4. (run.is_virtual \/ curr_is_virtual) \in BOOLEAN
  OBVIOUS
<1>5. (IF curr_is_virtual THEN 0 ELSE 1) \in {0, 1}
  OBVIOUS
<1> HIDE DEF curr_is_virtual
<1> QED
  BY <1>2, <1>3, <1>4, <1>5

LEMMA RecordStep ==
  ASSUME IInv, RunContinues \/ RunEnds \/ LastRunEnds
  PROVE  IInv'
<1>1. TypeOK /\ ExtendInv /\ RecordInv /\ ExtendedRight /\ pc = "record"
      /\ UNCHANGED <<status, block_head, extend_head, first, call>>
  BY DEF IInv, RunContinues, RunEnds, LastRunEnds
<1>2. /\ recorded \in [size : Nat, rewrite : Nat, reread : Nat, seeks : Nat]
      /\ run \in [continuous_tracks : Nat, num_phy_tracks : Nat, is_virtual : BOOLEAN]
      /\ run.num_phy_tracks < run.continuous_tracks
      /\ Table # <<>> => i <= Len(Table)
      /\ recorded.size + recorded.rewrite + run.continuous_tracks = i
      /\ i \in Nat \ {0}
  BY <1>1 DEF TypeOK, RecordInv
<1>3. Table' = Table /\ Len(Table) \in Nat /\ (Len(Table) > 0 => Table # <<>>)
      /\ (Table # <<>> => Len(Table) >= 1)
  BY <1>1, TableType DEF Table
<1>4. /\ Counted \in [continuous_tracks : Nat, num_phy_tracks : Nat, is_virtual : BOOLEAN]
      /\ Counted.continuous_tracks = run.continuous_tracks
      /\ Counted.num_phy_tracks <= run.continuous_tracks
  BY <1>1, <1>2, CountedType
<1>5. /\ Charged(Counted) \in [size : Nat, rewrite : Nat, reread : Nat, seeks : Nat]
      /\ Charged(Counted).size + Charged(Counted).rewrite
           = recorded.size + recorded.rewrite + run.continuous_tracks
  BY <1>2, <1>4, ChargedType
<1>6. Synced' /\ (pc' \in {"record", "recorded"} => ExtendInv' /\ ExtendedRight')
  <2>1. Synced'
    BY <1>1 DEF ExtendInv, Synced
  <2>2. Batched' = Batched /\ Damaged(Batched)' = Damaged(Batched)
    BY <1>1 DEF Batched, Damaged, storage_is_in_use
  <2>3. Ascending(extend_head)' <=> Ascending(extend_head)
    BY <1>1 DEF Ascending
  <2>4. Covers(extend_head, Batched)' <=> Covers(extend_head, Batched)
    BY <1>1, <2>2 DEF Covers
  <2>5. Recording' => Recording
    BY <1>1 DEF Recording, Distinct
  <2> QED
    BY <1>1, <2>1, <2>3, <2>4, <2>5 DEF ExtendInv, ExtendedRight
<1>7. CASE RunContinues
  <2>1. pc' = "record" /\ i' = i + 1 /\ i < Len(Table) /\ recorded' = recorded
        /\ run' = [Counted EXCEPT !.continuous_tracks = @ + 1]
    BY <1>1, <1>7 DEF RunContinues
  <2>2. /\ run' \in [continuous_tracks : Nat, num_phy_tracks : Nat, is_virtual : BOOLEAN]
        /\ run'.continuous_tracks = run.continuous_tracks + 1
        /\ run'.num_phy_tracks = Counted.num_phy_tracks
    BY <1>4, <2>1
  <2>3. TypeOK'
    BY <1>1, <1>2, <2>1, <2>2 DEF TypeOK
  <2>4. RecordInv'
    BY <1>2, <1>3, <1>4, <2>1, <2>2 DEF RecordInv
  <2> QED
    BY <1>6, <2>1, <2>3, <2>4 DEF IInv
<1>8. CASE RunEnds
  <2>1. pc' = "record" /\ i' = i + 1 /\ i < Len(Table) /\ recorded' = Charged(Counted)
        /\ run' = NewRun
    BY <1>1, <1>8 DEF RunEnds, NextRun
  <2>2. TypeOK'
    BY <1>1, <1>2, <1>5, <2>1 DEF TypeOK, NewRun
  <2>3. RecordInv'
    BY <1>2, <1>3, <1>5, <2>1 DEF RecordInv, NewRun
  <2> QED
    BY <1>6, <2>1, <2>2, <2>3 DEF IInv
<1>9. CASE LastRunEnds
  <2>1. pc' = "recorded" /\ i' = i /\ i >= Len(Table) /\ recorded' = Charged(Counted)
        /\ run' = Counted
    BY <1>1, <1>9 DEF LastRunEnds
  <2>2. TypeOK'
    BY <1>1, <1>4, <1>5, <2>1 DEF TypeOK
  <2>3. RecordInv'
    BY <1>2, <1>3, <1>4, <1>5, <2>1 DEF RecordInv
  <2> QED
    BY <1>6, <2>1, <2>2, <2>3 DEF IInv
<1> QED
  BY <1>7, <1>8, <1>9

LEMMA EndStep ==
  ASSUME IInv, CallEnds \/ pba_delete \/ DeleteFails
  PROVE  IInv'
<1>1. TypeOK /\ ExtendInv /\ RecordInv /\ pc = "recorded"
  BY DEF IInv, CallEnds, pba_delete, DeleteFails
<1>2. CASE CallEnds \/ pba_delete
  <2>1. batch_clear /\ status' \in [Tracks -> Statuses]
    <3>1. CASE CallEnds
      BY <1>1, <3>1 DEF CallEnds, TypeOK
    <3>2. CASE pba_delete
      BY <1>1, <3>2, DeletedAssumption DEF pba_delete, TypeOK, Statuses
    <3> QED
      BY <1>2, <3>1, <3>2
  <2>2. block_head' = <<>> /\ extend_head' = <<>> /\ call' = "none" /\ pc' = "fill" /\ i' = 1
        /\ run' = NewRun /\ recorded' = NoRecord /\ first' = first
    BY <2>1 DEF batch_clear
  <2>3. run' \in [continuous_tracks : Nat, num_phy_tracks : Nat, is_virtual : BOOLEAN]
        /\ recorded' \in [size : Nat, rewrite : Nat, reread : Nat, seeks : Nat]
    BY <2>2 DEF NewRun, NoRecord
  <2>4. TypeOK'
    BY <1>1, <2>1, <2>2, <2>3 DEF TypeOK, Calls
  <2>5. ExtendInv' /\ RecordInv' /\ ExtendedRight'
    BY <2>2 DEF ExtendInv, RecordInv, ExtendedRight, Recording
  <2> QED
    BY <2>4, <2>5 DEF IInv
<1>3. CASE DeleteFails
  <2>1. pc' = "stopped"
        /\ UNCHANGED <<status, block_head, extend_head, first, call, i, run, recorded>>
    BY <1>3 DEF DeleteFails, records
  <2>2. TypeOK'
    BY <1>1, <2>1 DEF TypeOK
  <2>3. ExtendInv' /\ RecordInv' /\ ExtendedRight'
    BY <2>1 DEF ExtendInv, RecordInv, ExtendedRight, Recording
  <2> QED
    BY <2>2, <2>3 DEF IInv
<1> QED
  BY <1>2, <1>3

LEMMA Stutter ==
  ASSUME IInv, UNCHANGED vars
  PROVE  IInv'
<1>1. UNCHANGED <<status, block_head, extend_head, first, call, pc, i, run, recorded>>
  BY DEF vars
<1>2. TypeOK' /\ RecordInv'
  BY <1>1 DEF IInv, TypeOK, RecordInv, Table
<1>3. Damaged(Batched)' = Damaged(Batched) /\ Damaged(Visited)' = Damaged(Visited)
  BY <1>1 DEF Damaged, storage_is_in_use, Batched, Visited
<1>31. /\ Covers(extend_head, Batched)' = Covers(extend_head, Batched)
       /\ Covers(extend_head, Visited)' = Covers(extend_head, Visited)
       /\ Ascending(extend_head)' = Ascending(extend_head)
       /\ Distinct' = Distinct /\ Synced' = Synced
  <2>1. Covers(extend_head, Batched)' = Covers(extend_head, Batched)
    BY <1>1, <1>3 DEF Covers, Batched
  <2>2. Covers(extend_head, Visited)' = Covers(extend_head, Visited)
    <3>1. Visited' = Visited
      BY <1>1 DEF Visited
    <3> QED
      BY <1>1, <1>3, <3>1 DEF Covers
  <2>3. Ascending(extend_head)' = Ascending(extend_head)
    BY <1>1 DEF Ascending
  <2>4. Distinct' = Distinct
    BY <1>1 DEF Distinct
  <2>5. Synced' = Synced
    BY <1>1 DEF Synced
  <2> QED
    BY <2>1, <2>2, <2>3, <2>4, <2>5
<1>4. ExtendInv' /\ ExtendedRight'
  BY <1>1, <1>31 DEF IInv, ExtendInv, ExtendedRight, Recording
<1> QED
  BY <1>2, <1>4 DEF IInv

(* The invariant holds of every behaviour of batches.                      *)
THEOREM BatchInvariant == Spec => []IInv
<1>1. Init => IInv
  BY InitIInv
<1>2. IInv /\ [Next]_vars => IInv'
  BY FillStep, BeginStep, ExtendStep, WriteStep, RecordStep, EndStep, Stutter DEF Next
<1> QED
  BY <1>1, <1>2, PTL DEF Spec

(* A batch is extended by exactly the tracks its writes would damage.      *)
THEOREM BatchesExtended == Spec => []ExtendedRight
<1>1. IInv => ExtendedRight
  BY DEF IInv
<1> QED
  BY <1>1, BatchInvariant, PTL

-----------------------------------------------------------------------------
(* What is charged.                                                        *)

(* The table a call charges lists the tracks it covers in ascending order, *)
(* and those as virtual that are not in the batch.                         *)
LEMMA ChargedTable ==
  ASSUME IInv, pc \in {"record", "recorded"}, block_head # <<>>, Distinct
  PROVE  /\ Table \in Seq(Entries) /\ Len(Table) \in Nat /\ Table # <<>> /\ Ascending(Table)
         /\ {m.pba : m \in Members(Table)} = Covered
         /\ \A m \in Members(Table) : m.isVirtual <=> m.pba \notin Batched
<1>1. TypeOK /\ ExtendInv /\ ExtendedRight
  BY DEF IInv
<1>2. block_head \in Seq(Tracks) /\ Len(block_head) \in Nat /\ Len(block_head) > 0 /\ Synced
  BY <1>1 DEF TypeOK, ExtendInv
<1>3. Table \in Seq(Entries) /\ Len(Table) \in Nat
  BY <1>1, TableType
<1>4. CASE call = "read"
  <2>1. Table = [k \in 1 .. Len(block_head) |-> Physical(block_head[k])]
    BY <1>4 DEF Table
  <2>2. /\ Len(Table) = Len(block_head)
        /\ \A k \in 1 .. Len(block_head) : Table[k].pba = block_head[k] /\ ~Table[k].isVirtual
    BY <1>2, <1>3, <2>1 DEF Physical
  <2>3. Ascending(Table) /\ Table # <<>>
    BY <1>1, <1>2, <1>3, <2>2, SyncedAscends DEF Ascending
  <2>4. Members(Table) = {Table[k] : k \in 1 .. Len(block_head)}
    BY <2>1 DEF Members
  <2>5. Batched = {block_head[k] : k \in 1 .. Len(block_head)}
    BY <1>2 DEF Batched, Members
  <2> QED
    BY <1>3, <1>4, <2>2, <2>3, <2>4, <2>5 DEF Covered
<1>5. CASE call # "read"
  <2>1. Table = extend_head
    BY <1>5 DEF Table
  <2>2. Ascending(Table) /\ Covers(Table, Batched)
    BY <1>1, <1>5, <2>1 DEF ExtendedRight, Recording
  <2>3. Members(Table) = {Physical(t) : t \in Batched} \cup {Virtual(t) : t \in Damaged(Batched)}
    BY <2>2 DEF Covers
  <2>4. /\ \A t \in Batched : Physical(t).pba = t /\ ~Physical(t).isVirtual
        /\ \A t \in Damaged(Batched) : Virtual(t).pba = t /\ Virtual(t).isVirtual /\ t \notin Batched
    BY DEF Physical, Virtual, Damaged
  <2>5. \A m \in Members(Table) : /\ m.pba \in Batched \cup Damaged(Batched)
                                  /\ m.isVirtual <=> m.pba \notin Batched
    BY <2>3, <2>4
  <2>6. \A t \in Batched \cup Damaged(Batched) : \E m \in Members(Table) : m.pba = t
    BY <2>3, <2>4
  <2>7. {m.pba : m \in Members(Table)} = Batched \cup Damaged(Batched)
    BY <2>5, <2>6
  <2>8. block_head[1] \in Batched
    BY <1>2 DEF Batched, Members
  <2>9. Table # <<>>
    <3>1. Physical(block_head[1]) \in Members(Table)
      BY <2>3, <2>8
    <3> QED
      BY <3>1 DEF Members
  <2> QED
    BY <1>3, <1>5, <2>2, <2>5, <2>7, <2>9 DEF Covered
<1> QED
  BY <1>4, <1>5

(* Counting the tracks of a set below a track.                             *)
Below(T, n) == {t \in T : t < n}

LEMMA BelowFinite ==
  ASSUME NEW T \in SUBSET Tracks, NEW n
  PROVE  IsFiniteSet(Below(T, n)) /\ Cardinality(Below(T, n)) \in Nat
<1>1. IsFiniteSet(Tracks)
  BY FS_Interval, TracksType DEF Tracks
<1>2. Below(T, n) \in SUBSET Tracks
  BY DEF Below
<1> QED
  BY <1>1, <1>2, FS_Subset, FS_CardinalityType

(* From a track to the next of the set or beyond.                          *)
LEMMA BelowNext ==
  ASSUME NEW T \in SUBSET Tracks, NEW b \in Int, NEW c \in Int, b < c,
         \A t \in T : ~(b < t /\ t < c)
  PROVE  Cardinality(Below(T, c)) = Cardinality(Below(T, b)) + (IF b \in T THEN 1 ELSE 0)
<1>1. IsFiniteSet(Below(T, b)) /\ Cardinality(Below(T, b)) \in Nat /\ b \notin Below(T, b)
  BY BelowFinite DEF Below
<1>2. CASE b \in T
  <2>1. \A t \in T : t \in Int /\ (t < c <=> t < b \/ t = b)
    BY TracksType
  <2>2. Below(T, c) = Below(T, b) \cup {b}
    BY <1>2, <2>1 DEF Below
  <2> QED
    BY <1>1, <1>2, <2>2, FS_AddElement
<1>3. CASE b \notin T
  <2>1. Below(T, c) = Below(T, b)
    BY <1>3, TracksType DEF Below
  <2> QED
    BY <1>1, <1>3, <2>1
<1> QED
  BY <1>2, <1>3

(* Past a run of tracks that are all of them in the set.                   *)
LEMMA BelowRun ==
  ASSUME NEW T \in SUBSET Tracks, NEW a \in Int, NEW b \in Int, NEW c \in Int, a <= b, b < c,
         \A t \in T : ~(b < t /\ t < c), a .. b \subseteq T
  PROVE  Cardinality(Below(T, c)) = Cardinality(Below(T, a)) + (b - a + 1)
<1>1. IsFiniteSet(Below(T, a)) /\ Cardinality(Below(T, a)) \in Nat
  BY BelowFinite
<1>2. Below(T, c) = Below(T, a) \cup (a .. b)
  BY TracksType DEF Below
<1>3. Below(T, a) \cap (a .. b) = {}
  BY TracksType DEF Below
<1>4. IsFiniteSet(a .. b) /\ Cardinality(a .. b) = b - a + 1
  BY FS_Interval
<1>5. Cardinality(Below(T, a) \cap (a .. b)) = 0
  BY <1>3, FS_EmptySet
<1>6. Cardinality(Below(T, a) \cup (a .. b)) = Cardinality(Below(T, a)) + Cardinality(a .. b)
        - Cardinality(Below(T, a) \cap (a .. b))
  BY <1>1, <1>4, FS_Union
<1> QED
  BY <1>1, <1>2, <1>4, <1>5, <1>6

(* Past a run of tracks none of which is in the set.                       *)
LEMMA BelowGap ==
  ASSUME NEW T \in SUBSET Tracks, NEW a \in Int, NEW b \in Int, NEW c \in Int, a <= b, b < c,
         \A t \in T : ~(b < t /\ t < c), \A t \in a .. b : t \notin T
  PROVE  Below(T, c) = Below(T, a)
BY TracksType DEF Below

(* An ascending table leaves out no track it has between two entries.      *)
LEMMA Gaps ==
  ASSUME NEW x \in Seq(Entries), Ascending(x), NEW k \in 1 .. Len(x)
  PROVE  /\ x[k].pba \in Tracks /\ x[k] \in Members(x)
         /\ k < Len(x) => /\ x[k].pba < x[k + 1].pba
                          /\ \A m \in Members(x) : ~(x[k].pba < m.pba /\ m.pba < x[k + 1].pba)
         /\ k = Len(x) => \A m \in Members(x) : m.pba <= x[k].pba
         /\ k = 1 => \A m \in Members(x) : x[k].pba <= m.pba
<1>1. \A j \in 1 .. Len(x) : x[j] \in Entries /\ x[j].pba \in Tracks /\ x[j].pba \in Int
  <2>1. \A j \in 1 .. Len(x) : x[j] \in Entries
    OBVIOUS
  <2>2. \A e \in Entries : e.pba \in Tracks
    BY DEF Entries
  <2> QED
    BY <2>1, <2>2, TracksType
<1>2. Len(x) \in Nat
  OBVIOUS
<1>3. \A m \in Members(x) : \E j \in 1 .. Len(x) : m = x[j]
  BY DEF Members
<1>4. ASSUME k < Len(x)
      PROVE  /\ x[k].pba < x[k + 1].pba
             /\ \A m \in Members(x) : ~(x[k].pba < m.pba /\ m.pba < x[k + 1].pba)
  <2>1. k + 1 \in 1 .. Len(x) /\ x[k].pba < x[k + 1].pba
    BY <1>2, <1>4 DEF Ascending
  <2>2. ASSUME NEW m \in Members(x), x[k].pba < m.pba, m.pba < x[k + 1].pba
        PROVE  FALSE
    <3>1. PICK j \in 1 .. Len(x) : m = x[j]
      BY <1>3
    <3>2. j < k \/ j = k \/ j = k + 1 \/ j > k + 1
      OBVIOUS
    <3>3. j < k => x[j].pba < x[k].pba
      BY DEF Ascending
    <3>4. j > k + 1 => x[k + 1].pba < x[j].pba
      BY <2>1 DEF Ascending
    <3> QED
      BY <1>1, <2>1, <2>2, <3>1, <3>2, <3>3, <3>4
  <2> QED
    BY <2>1, <2>2
<1>5. ASSUME k = Len(x), NEW m \in Members(x) PROVE m.pba <= x[k].pba
  <2>1. PICK j \in 1 .. Len(x) : m = x[j]
    BY <1>3
  <2>2. j < k => x[j].pba < x[k].pba
    BY DEF Ascending
  <2> QED
    BY <1>1, <1>5, <2>1, <2>2
<1>6. ASSUME k = 1, NEW m \in Members(x) PROVE x[k].pba <= m.pba
  <2>1. PICK j \in 1 .. Len(x) : m = x[j]
    BY <1>3
  <2>2. k < j => x[k].pba < x[j].pba
    BY DEF Ascending
  <2> QED
    BY <1>1, <1>6, <2>1, <2>2
<1> QED
  BY <1>1, <1>4, <1>5, <1>6 DEF Members

(* A run is charged as a whole for a damaged track in it or not at all.    *)
LEMMA RunVirtual ==
  ASSUME Covered \subseteq Tracks, NEW a \in Int, NEW b \in Int,
         a .. b \subseteq Covered, a - 1 \notin Covered, b + 1 \notin Covered
  PROVE  /\ (\E v \in a .. b : v \notin Batched) => a .. b \subseteq InVirtualRun
         /\ (\A v \in a .. b : v \in Batched) => \A t \in a .. b : t \notin InVirtualRun
<1>1. ASSUME NEW v \in a .. b, v \notin Batched, NEW t \in a .. b PROVE t \in InVirtualRun
  <2>1. v \in Covered \ Batched /\ t \in Covered
    BY <1>1
  <2>2. \A u \in Tracks : (t <= u /\ u <= v) \/ (v <= u /\ u <= t) => u \in Covered
    BY TracksType
  <2> QED
    BY <2>1, <2>2 DEF InVirtualRun
<1>2. ASSUME \A v \in a .. b : v \in Batched, NEW t \in a .. b, t \in InVirtualRun PROVE FALSE
  <2>1. PICK v \in Covered \ Batched :
          \A u \in Tracks : (t <= u /\ u <= v) \/ (v <= u /\ u <= t) => u \in Covered
    BY <1>2 DEF InVirtualRun
  <2>2. v \in Nat /\ v < N /\ t \in Nat /\ t < N /\ N \in Nat
    BY TracksType
  <2>3. v < a \/ b < v
    BY <1>2, <2>1, <2>2
  <2>4. CASE v < a
    <3>1. a - 1 \in Tracks /\ v <= a - 1 /\ a - 1 <= t
      BY <2>2, <2>4 DEF Tracks
    <3> QED
      BY <2>1, <3>1
  <2>5. CASE b < v
    <3>1. b + 1 \in Tracks /\ t <= b + 1 /\ b + 1 <= v
      BY <2>2, <2>5 DEF Tracks
    <3> QED
      BY <2>1, <3>1
  <2> QED
    BY <2>3, <2>4, <2>5
<1> QED
  BY <1>1, <1>2

(* The tracks at which runs begin.                                         *)
Heads(T) == {t \in T : t - 1 \notin Covered}

(* All tracks before c are charged for.                                    *)
ChargedTo(r, c) ==
  /\ r.size = Cardinality(Below(Batched, c))
  /\ r.rewrite = Cardinality(Below(Covered \ Batched, c))
  /\ r.reread = Cardinality(Below(InVirtualRun, c))
  /\ r.seeks = Cardinality(Below(Heads(Covered), c)) + 2 * Cardinality(Below(Heads(InVirtualRun), c))

(* The record loop is at track b of a run that begins at a: what has been  *)
(* charged and counted are the tracks before b, and what is charged by the *)
(* run are the runs before a.                                              *)
InRun(a, b) ==
  /\ a \in Int /\ a <= b /\ a .. b \subseteq Covered /\ a - 1 \notin Covered
  /\ run.continuous_tracks = b - a + 1
  /\ recorded.size + run.num_phy_tracks = Cardinality(Below(Batched, b))
  /\ recorded.rewrite + (b - a) - run.num_phy_tracks = Cardinality(Below(Covered \ Batched, b))
  /\ run.is_virtual <=> \E t \in a .. b - 1 : t \notin Batched
  /\ ~run.is_virtual => run.num_phy_tracks = b - a
  /\ recorded.reread = Cardinality(Below(InVirtualRun, a))
  /\ recorded.seeks = Cardinality(Below(Heads(Covered), a))
                        + 2 * Cardinality(Below(Heads(InVirtualRun), a))

ChargeInv ==
  block_head # <<>> /\ Distinct =>
    /\ pc = "record" => InRun(Table[i].pba - run.continuous_tracks + 1, Table[i].pba)
    /\ pc = "recorded" => ChargedTo(recorded, N)

LEMMA CoveredTracks ==
  ASSUME TypeOK
  PROVE  /\ Batched \in SUBSET Tracks /\ Batched \subseteq Covered /\ Covered \in SUBSET Tracks
         /\ Covered \ Batched \in SUBSET Tracks /\ InVirtualRun \in SUBSET Covered
         /\ InVirtualRun \in SUBSET Tracks
         /\ Heads(Covered) \in SUBSET Tracks /\ Heads(InVirtualRun) \in SUBSET Tracks
<1>1. \A k \in DOMAIN block_head : block_head[k] \in Tracks
  BY DEF TypeOK
<1>2. Batched \in SUBSET Tracks
  BY <1>1 DEF Batched, Members
<1>3. Damaged(Batched) \in SUBSET Tracks
  BY DEF Damaged
<1>4. Batched \subseteq Covered /\ Covered \in SUBSET Tracks
  BY <1>2, <1>3 DEF Covered
<1>5. InVirtualRun \in SUBSET Covered
  BY DEF InVirtualRun
<1> QED
  BY <1>2, <1>4, <1>5 DEF Heads

(* A run has one head.                                                     *)
LEMMA OneHead ==
  ASSUME Covered \in SUBSET Tracks, NEW T \in SUBSET Covered,
         NEW a \in Int, NEW b \in Int, NEW c \in Int, a <= b, b < c,
         a .. b \subseteq Covered, a - 1 \notin Covered, \A t \in Covered : ~(b < t /\ t < c)
  PROVE  Cardinality(Below(Heads(T), c)) =
           Cardinality(Below(Heads(T), a)) + (IF a \in T THEN 1 ELSE 0)
<1>1. Heads(T) \in SUBSET Tracks /\ (a \in Heads(T) <=> a \in T)
  BY DEF Heads
<1>2. ASSUME NEW t \in Heads(T), a < t, t < c PROVE FALSE
  <2>1. t \in Covered /\ t \in Int /\ t - 1 \notin Covered
    BY TracksType DEF Heads
  <2>2. t <= b
    BY <1>2, <2>1
  <2>3. t - 1 \in a .. b
    BY <1>2, <2>1, <2>2
  <2> QED
    BY <2>1, <2>3
<1>3. Cardinality(Below(Heads(T), c)) =
        Cardinality(Below(Heads(T), a)) + (IF a \in Heads(T) THEN 1 ELSE 0)
  BY <1>1, <1>2, BelowNext
<1> QED
  BY <1>1, <1>3

(* A run that ends is charged for, up to the next covered track.           *)
LEMMA RunCharged ==
  ASSUME TypeOK, Table # <<>> => i <= Len(Table), run.num_phy_tracks < run.continuous_tracks,
         NEW a, NEW b \in Tracks, NEW c \in Int, b < c, InRun(a, b),
         curr_is_virtual <=> b \notin Batched,
         \A t \in Covered : ~(b < t /\ t < c), b + 1 \notin Covered
  PROVE  ChargedTo(Charged(Counted), c)
<1> DEFINE r == Counted
           here == IF b \in Batched THEN 1 ELSE 0
<1>1. /\ Batched \in SUBSET Tracks /\ Batched \subseteq Covered /\ Covered \in SUBSET Tracks
      /\ Covered \ Batched \in SUBSET Tracks /\ InVirtualRun \in SUBSET Covered
      /\ InVirtualRun \in SUBSET Tracks
      /\ Heads(Covered) \in SUBSET Tracks /\ Heads(InVirtualRun) \in SUBSET Tracks
  BY CoveredTracks
<1>2. /\ a \in Int /\ b \in Int /\ a <= b /\ a .. b \subseteq Covered /\ a - 1 \notin Covered
      /\ run.continuous_tracks = b - a + 1
      /\ recorded.size + run.num_phy_tracks = Cardinality(Below(Batched, b))
      /\ recorded.rewrite + (b - a) - run.num_phy_tracks = Cardinality(Below(Covered \ Batched, b))
      /\ run.is_virtual <=> \E t \in a .. b - 1 : t \notin Batched
      /\ ~run.is_virtual => run.num_phy_tracks = b - a
      /\ recorded.reread = Cardinality(Below(InVirtualRun, a))
      /\ recorded.seeks = Cardinality(Below(Heads(Covered), a))
                            + 2 * Cardinality(Below(Heads(InVirtualRun), a))
  BY TracksType DEF InRun
<1>20. a \in Int /\ b \in Int /\ a <= b /\ b < c
  BY <1>2
<1>21. a .. b \subseteq Covered /\ a - 1 \notin Covered
  BY <1>2
<1>22. \A t \in Batched \cup (Covered \ Batched) \cup InVirtualRun : ~(b < t /\ t < c)
  BY <1>1
<1>23. /\ recorded.size + run.num_phy_tracks = Cardinality(Below(Batched, b))
       /\ recorded.rewrite + (b - a) - run.num_phy_tracks = Cardinality(Below(Covered \ Batched, b))
  BY <1>2
<1>3. /\ recorded.size \in Nat /\ recorded.rewrite \in Nat /\ recorded.reread \in Nat
      /\ recorded.seeks \in Nat /\ run.num_phy_tracks \in Nat
  BY DEF TypeOK
<1>4. /\ r.continuous_tracks = b - a + 1
      /\ r.num_phy_tracks = run.num_phy_tracks + here
      /\ r.is_virtual <=> \E t \in a .. b : t \notin Batched
  <2>1. /\ r.continuous_tracks = run.continuous_tracks
        /\ r.num_phy_tracks = run.num_phy_tracks + (IF curr_is_virtual THEN 0 ELSE 1)
        /\ r.is_virtual = (run.is_virtual \/ curr_is_virtual)
    BY DEF Counted
  <2>2. \A t : t \in a .. b <=> t \in a .. b - 1 \/ t = b
    BY <1>2
  <2>3. (\E t \in a .. b : t \notin Batched) <=> (\E t \in a .. b - 1 : t \notin Batched) \/ b \notin Batched
    BY <2>2
  <2>4. r.is_virtual <=> \E t \in a .. b : t \notin Batched
    BY <1>2, <2>1, <2>3
  <2>5. (IF curr_is_virtual THEN 0 ELSE 1) = here
    OBVIOUS
  <2> QED
    BY <1>2, <2>1, <2>4, <2>5
<1>5. /\ Cardinality(Below(Batched, c)) = Cardinality(Below(Batched, b)) + here
      /\ Cardinality(Below(Covered \ Batched, c)) = Cardinality(Below(Covered \ Batched, b)) + (1 - here)
  <2>1. Cardinality(Below(Batched, c)) = Cardinality(Below(Batched, b)) + here
    BY <1>1, <1>20, <1>22, BelowNext
  <2>2. Cardinality(Below(Covered \ Batched, c)) =
          Cardinality(Below(Covered \ Batched, b)) + (IF b \in Covered \ Batched THEN 1 ELSE 0)
    BY <1>1, <1>20, <1>22, BelowNext
  <2>3. b \in Covered
    BY <1>2
  <2> QED
    BY <2>1, <2>2, <2>3
<1>6. Cardinality(Below(Heads(Covered), c)) = Cardinality(Below(Heads(Covered), a)) + 1
  <2>1. a \in Covered
    BY <1>2
  <2> QED
    BY <1>1, <1>20, <1>21, <2>1, OneHead
<1>7. Cardinality(Below(Heads(InVirtualRun), c)) =
        Cardinality(Below(Heads(InVirtualRun), a)) + (IF a \in InVirtualRun THEN 1 ELSE 0)
  BY <1>1, <1>20, <1>21, OneHead
<1>8. /\ (\E v \in a .. b : v \notin Batched) => a .. b \subseteq InVirtualRun
      /\ (\A v \in a .. b : v \in Batched) => \A t \in a .. b : t \notin InVirtualRun
  BY <1>1, <1>2, RunVirtual
<1>10. /\ a .. b \subseteq InVirtualRun =>
            Cardinality(Below(InVirtualRun, c)) = Cardinality(Below(InVirtualRun, a)) + (b - a + 1)
       /\ (\A t \in a .. b : t \notin InVirtualRun) =>
            Cardinality(Below(InVirtualRun, c)) = Cardinality(Below(InVirtualRun, a))
  <2>1. InVirtualRun \in SUBSET Tracks /\ \A t \in InVirtualRun : ~(b < t /\ t < c)
    BY <1>1, <1>22
  <2>2. ASSUME a .. b \subseteq InVirtualRun
        PROVE  Cardinality(Below(InVirtualRun, c)) = Cardinality(Below(InVirtualRun, a)) + (b - a + 1)
    BY <1>20, <2>1, <2>2, BelowRun
  <2>3. ASSUME \A t \in a .. b : t \notin InVirtualRun
        PROVE  Below(InVirtualRun, c) = Below(InVirtualRun, a)
    BY <1>20, <2>1, <2>3, BelowGap
  <2> QED
    BY <2>2, <2>3
<1>11. /\ Cardinality(Below(Batched, b)) \in Nat /\ Cardinality(Below(Covered \ Batched, b)) \in Nat
       /\ Cardinality(Below(InVirtualRun, a)) \in Nat
       /\ Cardinality(Below(Heads(Covered), a)) \in Nat
       /\ Cardinality(Below(Heads(InVirtualRun), a)) \in Nat
  BY <1>1, BelowFinite
<1>12. a \in a .. b /\ b \in a .. b
  BY <1>2
<1> HIDE DEF r
<1>15. /\ r.continuous_tracks = b - a + 1 /\ r.continuous_tracks \in Int
       /\ r.num_phy_tracks = run.num_phy_tracks + here /\ r.num_phy_tracks \in Int
  <2>1. here \in Int
    OBVIOUS
  <2> QED
    BY <1>3, <1>4, <1>20, <2>1
<1>13. CASE r.is_virtual
  <2>1. a .. b \subseteq InVirtualRun /\ a \in InVirtualRun
    BY <1>4, <1>8, <1>12, <1>13
  <2>2. /\ Charged(r).size = recorded.size + r.num_phy_tracks
        /\ Charged(r).rewrite = recorded.rewrite + r.continuous_tracks - r.num_phy_tracks
        /\ Charged(r).reread = recorded.reread + r.continuous_tracks
        /\ Charged(r).seeks = recorded.seeks + 3
    BY <1>13 DEF Charged
  <2>3. here = 0 \/ here = 1
    OBVIOUS
  <2> HIDE DEF here
  <2>4. Charged(r).size = Cardinality(Below(Batched, c))
    <3>1. Charged(r).size = recorded.size + (run.num_phy_tracks + here)
      BY <1>15, <2>2
    <3>2. recorded.size + (run.num_phy_tracks + here) = (recorded.size + run.num_phy_tracks) + here
      BY <1>3, <2>3
    <3> QED
      BY <1>5, <1>23, <3>1, <3>2
  <2>5. Charged(r).rewrite = Cardinality(Below(Covered \ Batched, c))
    <3>1. Charged(r).rewrite = recorded.rewrite + (b - a + 1) - (run.num_phy_tracks + here)
      BY <1>15, <2>2
    <3>2. recorded.rewrite + (b - a + 1) - (run.num_phy_tracks + here)
            = (recorded.rewrite + (b - a) - run.num_phy_tracks) + (1 - here)
      <4>1. here \in Int /\ recorded.rewrite \in Int /\ run.num_phy_tracks \in Int
        BY <1>3, <2>3
      <4>2. PICK x \in Int, u \in Int, w \in Int :
              x = recorded.rewrite /\ u = run.num_phy_tracks /\ w = here
        BY <4>1
      <4>3. x + (b - a + 1) - (u + w) = (x + (b - a) - u) + (1 - w)
        BY <1>20
      <4> QED
        BY <4>2, <4>3
    <3> QED
      BY <1>5, <1>23, <3>1, <3>2
  <2>6. Charged(r).reread = Cardinality(Below(InVirtualRun, c))
    BY <1>2, <1>3, <1>4, <1>10, <1>11, <2>1, <2>2
  <2>7. Charged(r).seeks = Cardinality(Below(Heads(Covered), c))
                             + 2 * Cardinality(Below(Heads(InVirtualRun), c))
    BY <1>2, <1>3, <1>6, <1>7, <1>11, <2>1, <2>2
  <2> QED
    BY <2>4, <2>5, <2>6, <2>7 DEF ChargedTo, r
<1>14. CASE ~r.is_virtual
  <2>1. /\ \A t \in a .. b : t \in Batched
        /\ \A t \in a .. b : t \notin InVirtualRun
        /\ a \notin InVirtualRun /\ b \in Batched
    BY <1>4, <1>8, <1>12, <1>14
  <2>2. /\ Charged(r).size = recorded.size + r.continuous_tracks
        /\ Charged(r).rewrite = recorded.rewrite
        /\ Charged(r).reread = recorded.reread
        /\ Charged(r).seeks = recorded.seeks + 1
    BY <1>14 DEF Charged
  <2>3. here = 1 /\ run.num_phy_tracks = b - a
    <3>1. \A t \in a .. b - 1 : t \in a .. b
      BY <1>2
    <3>2. ~run.is_virtual
      BY <1>2, <2>1, <3>1
    <3> QED
      BY <1>2, <2>1, <3>2
  <2> HIDE DEF here
  <2>4. Charged(r).size = Cardinality(Below(Batched, c))
    BY <1>20, <1>23, <1>3, <1>15, <1>5, <1>11, <2>2, <2>3
  <2>5. Charged(r).rewrite = Cardinality(Below(Covered \ Batched, c))
    BY <1>20, <1>23, <1>3, <1>15, <1>5, <1>11, <2>2, <2>3
  <2>6. Charged(r).reread = Cardinality(Below(InVirtualRun, c))
    BY <1>2, <1>10, <2>1, <2>2
  <2>7. Charged(r).seeks = Cardinality(Below(Heads(Covered), c))
                             + 2 * Cardinality(Below(Heads(InVirtualRun), c))
    BY <1>2, <1>3, <1>6, <1>7, <1>11, <2>1, <2>2
  <2> QED
    BY <2>4, <2>5, <2>6, <2>7 DEF ChargedTo, r
<1> QED
  BY <1>13, <1>14

(* Nothing of what the batch covers comes before its first entry, at which *)
(* the record loop begins.                                                 *)
LEMMA FirstEntry ==
  ASSUME IInv, pc = "record", i = 1, run = NewRun, recorded = NoRecord
  PROVE  ChargeInv
<1> SUFFICES ASSUME block_head # <<>>, Distinct
             PROVE  InRun(Table[i].pba - run.continuous_tracks + 1, Table[i].pba)
  BY DEF ChargeInv
<1>1. /\ Table \in Seq(Entries) /\ Len(Table) \in Nat /\ Table # <<>> /\ Ascending(Table)
      /\ {m.pba : m \in Members(Table)} = Covered
  BY ChargedTable
<1> DEFINE b == Table[1].pba
<1>2. 1 \in 1 .. Len(Table)
  BY <1>1
<1>3. b \in Tracks /\ b \in Int /\ b \in Covered /\ \A t \in Covered : b <= t
  BY <1>1, <1>2, Gaps, TracksType
<1>4. /\ Batched \in SUBSET Tracks /\ Batched \subseteq Covered /\ Covered \in SUBSET Tracks
      /\ InVirtualRun \in SUBSET Covered
  BY CoveredTracks DEF IInv
<1>5. run.continuous_tracks = 1 /\ run.num_phy_tracks = 0 /\ run.is_virtual = FALSE
      /\ recorded.size = 0 /\ recorded.rewrite = 0 /\ recorded.reread = 0 /\ recorded.seeks = 0
  BY DEF NewRun, NoRecord
<1> HIDE DEF b
<1>6. \A t \in Covered : ~(t < b)
  BY <1>3, <1>4, TracksType
<1>7. /\ Below(Batched, b) = {} /\ Below(Covered \ Batched, b) = {} /\ Below(InVirtualRun, b) = {}
      /\ Below(Heads(Covered), b) = {} /\ Below(Heads(InVirtualRun), b) = {}
  BY <1>4, <1>6 DEF Below, Heads
<1>8. Cardinality({}) = 0
  BY FS_EmptySet
<1>9. b .. b \subseteq Covered /\ b - 1 \notin Covered /\ b - 1 + 1 = b /\ b .. (b - 1) = {}
  BY <1>3, <1>6
<1>10. InRun(b, b)
  <2>1. /\ b \in Int /\ b <= b /\ b .. b \subseteq Covered /\ b - 1 \notin Covered
        /\ run.continuous_tracks = b - b + 1
    BY <1>3, <1>5, <1>9
  <2>2. /\ recorded.size + run.num_phy_tracks = Cardinality(Below(Batched, b))
        /\ recorded.rewrite + (b - b) - run.num_phy_tracks = Cardinality(Below(Covered \ Batched, b))
        /\ recorded.reread = Cardinality(Below(InVirtualRun, b))
        /\ recorded.seeks = Cardinality(Below(Heads(Covered), b))
                              + 2 * Cardinality(Below(Heads(InVirtualRun), b))
    <3>1. b - b = 0
      BY <1>3
    <3>2. Cardinality({}) + 2 * Cardinality({}) = 0
      BY <1>8
    <3>3. recorded.rewrite + (b - b) - run.num_phy_tracks = 0 /\ recorded.size + run.num_phy_tracks = 0
      BY <1>5, <3>1
    <3> QED
      BY <1>5, <1>7, <1>8, <3>2, <3>3
  <2>3. run.is_virtual <=> \E t \in b .. b - 1 : t \notin Batched
    BY <1>5, <1>9
  <2>4. ~run.is_virtual => run.num_phy_tracks = b - b
    BY <1>3, <1>5
  <2> QED
    BY <2>1, <2>2, <2>3, <2>4 DEF InRun
<1> QED
  BY <1>3, <1>5, <1>9, <1>10 DEF b

LEMMA FirstEntryNext ==
  (IInv /\ pc = "record" /\ i = 1 /\ run = NewRun /\ recorded = NoRecord => ChargeInv)'
<1>1. IInv /\ pc = "record" /\ i = 1 /\ run = NewRun /\ recorded = NoRecord => ChargeInv
  BY FirstEntry
<1> QED
  BY <1>1, PTL

(* The sets that are counted do not change while a call is recorded.       *)
LEMMA CountedSame ==
  ASSUME UNCHANGED <<status, block_head, call>>
  PROVE  /\ Batched' = Batched /\ Covered' = Covered /\ InVirtualRun' = InVirtualRun
         /\ \A T \in SUBSET Tracks : Heads(T)' = Heads(T)
<1>1. Batched' = Batched
  BY DEF Batched
<1>2. Damaged(Batched)' = Damaged(Batched)
  BY <1>1 DEF Damaged, storage_is_in_use
<1>3. Covered' = Covered
  BY <1>1, <1>2 DEF Covered
<1>4. InVirtualRun' = InVirtualRun
  BY <1>1, <1>3 DEF InVirtualRun
<1>5. \A T \in SUBSET Tracks : Heads(T)' = Heads(T)
  BY <1>3 DEF Heads
<1> QED
  BY <1>1, <1>3, <1>4, <1>5

LEMMA RecordCharge ==
  ASSUME IInv, ChargeInv, RunContinues \/ RunEnds \/ LastRunEnds
  PROVE  ChargeInv'
<1>1. TypeOK /\ RecordInv /\ pc = "record"
      /\ UNCHANGED <<status, block_head, extend_head, first, call>>
  BY DEF IInv, RunContinues, RunEnds, LastRunEnds
<1> SUFFICES ASSUME block_head # <<>>, Distinct
             PROVE  /\ pc' = "record" => InRun(Table[i].pba - run.continuous_tracks + 1, Table[i].pba)'
                    /\ pc' = "recorded" => ChargedTo(recorded, N)'
  BY <1>1 DEF ChargeInv, Distinct
<1>2. /\ Table \in Seq(Entries) /\ Len(Table) \in Nat /\ Table # <<>> /\ Ascending(Table)
      /\ {m.pba : m \in Members(Table)} = Covered
      /\ \A m \in Members(Table) : m.isVirtual <=> m.pba \notin Batched
  BY <1>1, ChargedTable
<1>3. i \in 1 .. Len(Table) /\ i \in Nat /\ run.num_phy_tracks < run.continuous_tracks
      /\ run.num_phy_tracks \in Nat /\ run.continuous_tracks \in Nat
  BY <1>1, <1>2 DEF TypeOK, RecordInv
<1>4. PICK b \in Tracks : b = Table[i].pba
  BY <1>2, <1>3, Gaps
<1>5. PICK a \in Int : a = b - run.continuous_tracks + 1
  BY <1>3, <1>4, TracksType
<1>6. InRun(a, b)
  BY <1>1, <1>4, <1>5 DEF ChargeInv
<1>7. b \in Int /\ a <= b /\ run.continuous_tracks = b - a + 1
      /\ a .. b \subseteq Covered /\ a - 1 \notin Covered /\ b \in Covered
  BY <1>6, TracksType DEF InRun
<1>8. curr_is_virtual <=> b \notin Batched
  BY <1>2, <1>3, <1>4, Gaps DEF curr_is_virtual
<1>9. Table' = Table
  BY <1>1 DEF Table
<1>10. /\ Batched \in SUBSET Tracks /\ Batched \subseteq Covered /\ Covered \in SUBSET Tracks
       /\ Covered \ Batched \in SUBSET Tracks /\ InVirtualRun \in SUBSET Tracks
       /\ Heads(Covered) \in SUBSET Tracks /\ Heads(InVirtualRun) \in SUBSET Tracks
  BY <1>1, CoveredTracks
<1>11. /\ Batched' = Batched /\ Covered' = Covered /\ InVirtualRun' = InVirtualRun
       /\ Heads(Covered)' = Heads(Covered) /\ Heads(InVirtualRun)' = Heads(InVirtualRun)
  <2>1. /\ Batched' = Batched /\ Covered' = Covered /\ InVirtualRun' = InVirtualRun
    BY <1>1, CountedSame
  <2> QED
    BY <2>1 DEF Heads
<1>12. i < Len(Table) =>
         /\ i + 1 \in 1 .. Len(Table)
         /\ Table[i + 1].pba \in Tracks /\ Table[i + 1].pba \in Covered /\ b < Table[i + 1].pba
         /\ \A t \in Covered : ~(b < t /\ t < Table[i + 1].pba)
  <2> SUFFICES ASSUME i < Len(Table)
               PROVE  /\ i + 1 \in 1 .. Len(Table)
                      /\ Table[i + 1].pba \in Tracks /\ Table[i + 1].pba \in Covered
                      /\ b < Table[i + 1].pba
                      /\ \A t \in Covered : ~(b < t /\ t < Table[i + 1].pba)
    OBVIOUS
  <2>1. i + 1 \in 1 .. Len(Table)
    BY <1>2, <1>3
  <2>2. Table[i + 1].pba \in Tracks /\ Table[i + 1] \in Members(Table)
    BY <1>2, <2>1, Gaps
  <2>3. b < Table[i + 1].pba /\ \A m \in Members(Table) : ~(b < m.pba /\ m.pba < Table[i + 1].pba)
    BY <1>2, <1>3, <1>4, Gaps
  <2> QED
    BY <1>2, <2>1, <2>2, <2>3
<1>13. CASE RunContinues
  <2>1. /\ i < Len(Table) /\ Table[i + 1].pba = b + 1 /\ i' = i + 1 /\ recorded' = recorded
        /\ pc' = "record" /\ run' = [Counted EXCEPT !.continuous_tracks = @ + 1]
    BY <1>1, <1>4, <1>13 DEF RunContinues
  <2>2. /\ Table'[i'].pba = b + 1 /\ b + 1 \in Tracks /\ b + 1 \in Covered
        /\ \A t \in Covered : ~(b < t /\ t < b + 1)
    BY <1>9, <1>12, <2>1
  <2>3. /\ run'.continuous_tracks = run.continuous_tracks + 1
        /\ run'.num_phy_tracks = run.num_phy_tracks + (IF b \in Batched THEN 1 ELSE 0)
        /\ run'.is_virtual <=> run.is_virtual \/ b \notin Batched
    <3>1. Counted = [continuous_tracks |-> run.continuous_tracks,
                     num_phy_tracks |-> run.num_phy_tracks + (IF b \in Batched THEN 1 ELSE 0),
                     is_virtual |-> run.is_virtual \/ b \notin Batched]
      BY <1>8 DEF Counted
    <3> QED
      BY <2>1, <3>1
  <2>4. /\ recorded.size + run.num_phy_tracks = Cardinality(Below(Batched, b))
        /\ recorded.rewrite + (b - a) - run.num_phy_tracks = Cardinality(Below(Covered \ Batched, b))
        /\ run.is_virtual <=> \E t \in a .. b - 1 : t \notin Batched
        /\ ~run.is_virtual => run.num_phy_tracks = b - a
        /\ recorded.reread = Cardinality(Below(InVirtualRun, a))
        /\ recorded.seeks = Cardinality(Below(Heads(Covered), a))
                              + 2 * Cardinality(Below(Heads(InVirtualRun), a))
    BY <1>6 DEF InRun
  <2>5. recorded.size \in Nat /\ recorded.rewrite \in Nat
    BY <1>1 DEF TypeOK
  <2>6. Cardinality(Below(Batched, b + 1)) = Cardinality(Below(Batched, b)) + (IF b \in Batched THEN 1 ELSE 0)
    <3>1. \A t \in Batched : ~(b < t /\ t < b + 1)
      BY <1>10, <2>2
    <3> QED
      BY <1>7, <1>10, <3>1, BelowNext
  <2>7. Cardinality(Below(Covered \ Batched, b + 1))
          = Cardinality(Below(Covered \ Batched, b)) + (IF b \in Batched THEN 0 ELSE 1)
    <3>1. \A t \in Covered \ Batched : ~(b < t /\ t < b + 1)
      BY <2>2
    <3>2. Cardinality(Below(Covered \ Batched, b + 1))
            = Cardinality(Below(Covered \ Batched, b)) + (IF b \in Covered \ Batched THEN 1 ELSE 0)
      <4>1. PICK U \in SUBSET Tracks : U = Covered \ Batched
        BY <1>10
      <4>2. Cardinality(Below(U, b + 1)) = Cardinality(Below(U, b)) + (IF b \in U THEN 1 ELSE 0)
        BY <1>7, <3>1, <4>1, BelowNext
      <4> QED
        BY <4>1, <4>2
    <3> QED
      BY <1>7, <3>2
  <2>8. /\ recorded'.size + run'.num_phy_tracks = Cardinality(Below(Batched, b + 1))
        /\ recorded'.rewrite + (b + 1 - a) - run'.num_phy_tracks
             = Cardinality(Below(Covered \ Batched, b + 1))
        /\ ~run'.is_virtual => run'.num_phy_tracks = b + 1 - a
    <3>1. PICK n \in Nat, x \in Nat, y \in Nat :
            n = run.num_phy_tracks /\ x = recorded.size /\ y = recorded.rewrite
      BY <1>3, <2>5
    <3>2. CASE b \in Batched
      <4>1. x + (n + 1) = (x + n) + 1 /\ y + (b + 1 - a) - (n + 1) = (y + (b - a) - n) + 0
            /\ (n = b - a => n + 1 = b + 1 - a)
        BY <1>7
      <4> QED
        BY <2>1, <2>3, <2>4, <2>6, <2>7, <3>1, <3>2, <4>1
    <3>3. CASE b \notin Batched
      <4>1. x + (n + 0) = (x + n) + 0 /\ y + (b + 1 - a) - (n + 0) = (y + (b - a) - n) + 1
        BY <1>7
      <4> QED
        BY <2>1, <2>3, <2>4, <2>6, <2>7, <3>1, <3>3, <4>1
    <3> QED
      BY <3>2, <3>3
  <2>9. a .. b + 1 \subseteq Covered /\ a <= b + 1 /\ run'.continuous_tracks = b + 1 - a + 1
    BY <1>7, <2>2, <2>3
  <2>10. run'.is_virtual <=> \E t \in a .. b + 1 - 1 : t \notin Batched
    <3>1. \A t : t \in a .. b + 1 - 1 <=> t \in a .. b - 1 \/ t = b
      BY <1>7
    <3> QED
      BY <2>3, <2>4, <3>1
  <2>11. PICK d \in Tracks : d = b + 1
    BY <2>2
  <2>12. a .. d \subseteq Covered' /\ a <= d /\ run'.continuous_tracks = d - a + 1
         /\ a - 1 \notin Covered'
    BY <1>7, <1>11, <2>9, <2>11
  <2>13. /\ recorded'.size + run'.num_phy_tracks = Cardinality(Below(Batched', d))
         /\ recorded'.rewrite + (d - a) - run'.num_phy_tracks
              = Cardinality(Below(Covered' \ Batched', d))
         /\ ~run'.is_virtual => run'.num_phy_tracks = d - a
    BY <1>11, <2>8, <2>11
  <2>14. run'.is_virtual <=> \E t \in a .. d - 1 : t \notin Batched'
    BY <1>11, <2>10, <2>11
  <2>15. /\ recorded'.reread = Cardinality(Below(InVirtualRun', a))
         /\ recorded'.seeks = Cardinality(Below(Heads(Covered)', a))
                               + 2 * Cardinality(Below(Heads(InVirtualRun)', a))
    BY <1>11, <2>1, <2>4
  <2>16. InRun(a, d)'
    BY <2>12, <2>13, <2>14, <2>15 DEF InRun, Below
  <2>17. a = d - run'.continuous_tracks + 1 /\ Table'[i'].pba = d
    BY <1>7, <2>2, <2>9, <2>11, TracksType
  <2>18. InRun(Table[i].pba - run.continuous_tracks + 1, Table[i].pba)'
    BY <2>16, <2>17
  <2> QED
    BY <2>1, <2>18
<1>14. CASE RunEnds
  <2>1. /\ i < Len(Table) /\ Table[i + 1].pba # b + 1 /\ i' = i + 1 /\ recorded' = Charged(Counted)
        /\ pc' = "record" /\ run' = NewRun
    BY <1>1, <1>4, <1>14 DEF RunEnds, NextRun
  <2>2. PICK c \in Tracks : c = Table[i + 1].pba
    BY <1>12, <2>1
  <2>3. /\ c \in Int /\ c \in Covered /\ b < c /\ c # b + 1 /\ Table'[i'].pba = c
        /\ \A t \in Covered : ~(b < t /\ t < c)
    BY <1>9, <1>12, <2>1, <2>2, TracksType
  <2>4. b + 1 \notin Covered /\ c - 1 \notin Covered
    BY <1>7, <2>3
  <2>5. ChargedTo(Charged(Counted), c)
    BY <1>1, <1>3, <1>6, <1>8, <2>3, <2>4, RunCharged
  <2>6. run'.continuous_tracks = 1 /\ run'.num_phy_tracks = 0 /\ run'.is_virtual = FALSE
    BY <2>1 DEF NewRun
  <2>7. Cardinality(Below(Batched, c)) \in Nat /\ Cardinality(Below(Covered \ Batched, c)) \in Nat
    BY <1>10, BelowFinite
  <2>8. c .. c \subseteq Covered /\ c .. c - 1 = {} /\ c - 1 + 1 = c
    BY <2>3
  <2>9. InRun(c, c)'
    BY <1>11, <2>1, <2>3, <2>4, <2>5, <2>6, <2>7, <2>8 DEF InRun, ChargedTo, Below
  <2>10. InRun(Table[i].pba - run.continuous_tracks + 1, Table[i].pba)'
    BY <2>3, <2>6, <2>8, <2>9
  <2> QED
    BY <2>1, <2>10
<1>15. CASE LastRunEnds
  <2>1. i >= Len(Table) /\ recorded' = Charged(Counted) /\ pc' = "recorded"
    BY <1>15 DEF LastRunEnds
  <2>2. i = Len(Table)
    BY <1>2, <1>3, <2>1
  <2>3. \A m \in Members(Table) : m.pba <= b
    BY <1>2, <1>3, <1>4, <2>2, Gaps
  <2>4. \A t \in Covered : t <= b
    BY <1>2, <2>3
  <2>5. N \in Int /\ b < N /\ b + 1 \notin Covered /\ \A t \in Covered : ~(b < t /\ t < N)
    BY <1>7, <1>10, <2>4, TracksType
  <2>6. ChargedTo(Charged(Counted), N)
    BY <1>1, <1>3, <1>6, <1>8, <2>5, RunCharged
  <2>7. ChargedTo(recorded, N)'
    BY <1>11, <2>1, <2>6 DEF ChargedTo, Below
  <2> QED
    BY <2>1, <2>7
<1> QED
  BY <1>13, <1>14, <1>15

(* The other steps either stay out of the record loop or enter it at its   *)
(* first entry.                                                            *)
LEMMA NextCharge ==
  ASSUME IInv, ChargeInv, IInv', [Next]_vars
  PROVE  ChargeInv'
<1>1. TypeOK /\ RecordInv
  BY DEF IInv
<1>2. ASSUME pc' \notin {"record", "recorded"} PROVE ChargeInv'
  BY <1>2 DEF ChargeInv
<1>3. ASSUME pc' = "record", i' = 1, run' = NewRun, recorded' = NoRecord PROVE ChargeInv'
  <2>1. NewRun' = NewRun /\ NoRecord' = NoRecord
    BY DEF NewRun, NoRecord
  <2> QED
    BY <1>3, <2>1, FirstEntryNext
<1>4. CASE RunContinues \/ RunEnds \/ LastRunEnds
  BY <1>4, RecordCharge
<1>5. CASE batch_read
  BY <1>1, <1>3, <1>5 DEF batch_read, Begin, RecordInv, records
<1>6. CASE pba_write
  BY <1>1, <1>3, <1>6 DEF pba_write, RecordInv, records
<1>7. CASE Extend
  <2>1. pc = "extend" /\ run' = NewRun /\ recorded' = NoRecord
    BY <1>1, <1>7 DEF Extend, RecordInv, records
  <2>2. pc' \in {"extend", "write"} \/ (pc' = "record" /\ i' = 1)
    <3>1. \/ i < Len(block_head) /\ pc' = pc
          \/ i' = 1 /\ pc' = (IF call = "write" THEN "write" ELSE "record")
      BY <1>7 DEF Extend
    <3> QED
      BY <2>1, <3>1
  <2> QED
    BY <1>2, <1>3, <2>1, <2>2
<1>8. CASE \/ \E t \in Tracks : batch_add(t) \/ Elsewhere(t)
           \/ batch_write \/ batch_delete \/ rw_block \/ ReadNothing \/ DeleteNothing
  <2>1. pc' \in {"fill", "write", "extend", "stopped"}
    BY <1>8 DEF batch_add, Elsewhere, batch_write, batch_delete, rw_block, Begin, ReadNothing,
      DeleteNothing
  <2> QED
    BY <1>2, <2>1
<1>9. CASE CallEnds \/ pba_delete \/ DeleteFails
  <2>1. pc' \in {"fill", "stopped"}
    BY <1>9 DEF CallEnds, pba_delete, DeleteFails, batch_clear
  <2> QED
    BY <1>2, <2>1
<1>10. CASE UNCHANGED vars
  <2>1. UNCHANGED <<status, block_head, extend_head, first, call, pc, i, run, recorded>>
    BY <1>10 DEF vars
  <2>2. /\ Batched' = Batched /\ Covered' = Covered /\ InVirtualRun' = InVirtualRun
    BY <2>1, CountedSame
  <2>3. Heads(Covered)' = Heads(Covered) /\ Heads(InVirtualRun)' = Heads(InVirtualRun)
    BY <2>2 DEF Heads
  <2>4. Table' = Table
    BY <2>1 DEF Table
  <2>5. ChargedTo(recorded, N)' <=> ChargedTo(recorded, N)
    BY <2>1, <2>2, <2>3 DEF ChargedTo, Below
  <2>6. \A a, b : InRun(a, b)' <=> InRun(a, b)
    BY <2>1, <2>2, <2>3 DEF InRun, Below
  <2>7. InRun(Table[i].pba - run.continuous_tracks + 1, Table[i].pba)'
          <=> InRun(Table[i].pba - run.continuous_tracks + 1, Table[i].pba)
    BY <2>1, <2>4, <2>6
  <2> QED
    BY <2>1, <2>5, <2>7 DEF ChargeInv, Distinct
<1> QED
  BY <1>4, <1>5, <1>6, <1>7, <1>8, <1>9, <1>10 DEF Next

(* A call charges the tracks of its batch as written, the damaged ones as  *)
(* rewritten, the tracks of each run with a damaged one as read, and the   *)
(* seeks of every run, whatever the batch (record_op.c:7-284).             *)
THEOREM CallsChargedRight == Spec => []ChargedRight
<1>1. Init => ChargeInv
  BY DEF Init, ChargeInv
<1>2. IInv /\ ChargeInv /\ IInv' /\ [Next]_vars => ChargeInv'
  BY NextCharge
<1>3. IInv /\ ChargeInv => ChargedRight
  <2> SUFFICES ASSUME IInv, ChargeInv, Charging
               PROVE  recorded = [size |-> Cardinality(Batched),
                                  rewrite |-> Cardinality(Covered \ Batched),
                                  reread |-> Cardinality(InVirtualRun),
                                  seeks |-> RunsOf(Covered) + 2 * RunsOf(InVirtualRun)]
    BY DEF ChargedRight
  <2>1. TypeOK /\ ChargedTo(recorded, N)
    BY DEF ChargeInv, Charging, IInv
  <2>2. \A T \in SUBSET Tracks : Below(T, N) = T
    BY TracksType DEF Below
  <2>3. /\ Below(Batched, N) = Batched /\ Below(Covered \ Batched, N) = Covered \ Batched
        /\ Below(InVirtualRun, N) = InVirtualRun
        /\ Below(Heads(Covered), N) = Heads(Covered)
        /\ Below(Heads(InVirtualRun), N) = Heads(InVirtualRun)
    BY <2>1, <2>2, CoveredTracks
  <2>4. /\ Cardinality(Heads(Covered)) = RunsOf(Covered)
        /\ Cardinality(Heads(InVirtualRun)) = RunsOf(InVirtualRun)
    BY DEF RunsOf, Heads
  <2>5. /\ recorded.size = Cardinality(Batched)
        /\ recorded.rewrite = Cardinality(Covered \ Batched)
        /\ recorded.reread = Cardinality(InVirtualRun)
        /\ recorded.seeks = RunsOf(Covered) + 2 * RunsOf(InVirtualRun)
    BY <2>1, <2>3, <2>4 DEF ChargedTo
  <2>6. recorded \in [size : Nat, rewrite : Nat, reread : Nat, seeks : Nat]
    BY <2>1 DEF TypeOK
  <2> QED
    BY <2>5, <2>6
<1> QED
  BY <1>1, <1>2, <1>3, BatchInvariant, PTL DEF Spec
=============================================================================
