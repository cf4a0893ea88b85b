--------------------------- MODULE RowFollowProofs ---------------------------
(* Proofs about RowFollow, for every value of its constants.                *)
EXTENDS RowFollow, WellFoundedInduction, TLAPS

----------------------------------------------------------------------------
(* The last of some rows.                                                   *)

LEMMA Minimum ==
  ASSUME NEW S, S \subseteq Nat, S # {}
  PROVE  \E x \in S : \A y \in S : x <= y
  <1>1. IsWellFoundedOn(OpToRel(<, Nat), Nat)
    BY NatLessThanWellFounded
  <1>2. PICK x \in S : \A y \in S : <<y, x>> \notin OpToRel(<, Nat)
    BY <1>1, WFMin
  <1>3. \A y \in S : y < x => <<y, x>> \in OpToRel(<, Nat)
    BY DEF OpToRel
  <1>4. \A y \in S : ~ (y < x)
    BY <1>2, <1>3, Zenon
  <1> QED BY <1>4

LEMMA LastIsLast ==
  ASSUME NEW n \in Nat, NEW S, S \subseteq 0..n, S # {}
  PROVE  Last(S) \in S /\ \A s \in S : s <= Last(S)
  <1> DEFINE D == {n - y : y \in S}
  <1>1. PICK d \in D : \A e \in D : d <= e
    <2>1. D \subseteq Nat
      OBVIOUS
    <2>2. PICK y \in S : TRUE
      OBVIOUS
    <2>3. n - y \in D
      OBVIOUS
    <2> HIDE DEF D
    <2> QED BY <2>1, <2>3, Minimum
  <1>2. PICK r \in S : d = n - r
    OBVIOUS
  <1>3. \A s \in S : n - s \in D
    OBVIOUS
  <1>4. \A s \in S : s <= r
    <2>1. \A s \in S : n - r <= n - s
      BY <1>1, <1>2, <1>3
    <2> QED BY <2>1
  <1> QED BY <1>4 DEF Last

LEMMA FrontierRange ==
  ASSUME NEW n \in Nat, NEW d, d.total \in 0..n
  PROVE  row_frontier(d) \in 0..n
  <1> USE DEF row_frontier
  <1>1. CASE ~HasNaN \/ FiniteRows(d) = {}
    BY <1>1
  <1>2. CASE HasNaN /\ FiniteRows(d) # {}
    <2>1. FiniteRows(d) \subseteq 0..n
      BY DEF FiniteRows
    <2>2. Last(FiniteRows(d)) \in FiniteRows(d)
      BY <1>2, <2>1, LastIsLast
    <2> QED BY <1>2, <2>1, <2>2
  <1> QED BY <1>1, <1>2

----------------------------------------------------------------------------
LEMMA InitType == Init => TypeOK
  BY RowsAssumption, CellsAssumption
     DEF Init, TypeOK, NoRows, RowNumbers, Dataset, Length

LEMMA DatasetType ==
  ASSUME TypeOK
  PROVE  Dataset \in [rows : [RowNumbers -> SUBSET Cells], total : 0..Rows]
  <1>1. Length \in 0..Rows
    BY RowsAssumption DEF TypeOK, Length
  <1> QED BY <1>1 DEF TypeOK, Dataset

LEMMA MeasureType ==
  ASSUME TypeOK, NEW cell \in Cells, Measure(cell) PROVE TypeOK'
  <1>1. grid' \in [RowNumbers -> SUBSET Cells]
    <2>1. PICK finite \in BOOLEAN :
            grid' = [grid EXCEPT ![row + 1] = IF finite THEN @ \cup {cell} ELSE @]
      BY DEF Measure
    <2>2. CASE finite
      BY <2>1, <2>2 DEF TypeOK
    <2>3. CASE ~finite
      BY <2>1, <2>3 DEF TypeOK
    <2> QED BY <2>2, <2>3
  <1>2. /\ row' \in 0..Rows /\ (row' = Rows => left' = Cells)
        /\ left' \subseteq Cells /\ left' # {}
    BY RowsAssumption, CellsAssumption DEF TypeOK, Measure
  <1> QED BY <1>1, <1>2 DEF TypeOK, Measure, client

LEMMA RepublishType == ASSUME TypeOK, Republish PROVE TypeOK'
  <1>1. /\ run' \in 1..MaxRuns
        /\ row' = 0 /\ left' = Cells
        /\ grid' \in [RowNumbers -> SUBSET Cells]
    BY RowsAssumption DEF TypeOK, Republish, NoRows
  <1>2. Length' \in 0..Rows
    BY <1>1, RowsAssumption DEF Length
  <1>3. snapshot' \in [rows : [RowNumbers -> SUBSET Cells], total : 0..Rows]
    BY <1>1, <1>2 DEF Republish, Dataset
  <1> QED
    BY <1>1, <1>3, RowsAssumption, CellsAssumption DEF TypeOK, Republish, client

LEMMA PollType == ASSUME TypeOK, Poll PROVE TypeOK'
  <1>1. row_frontier(snapshot) \in 0..Rows
    BY FrontierRange, RowsAssumption DEF TypeOK
  <1>2. copy' \in [RowNumbers -> SUBSET Cells]
    BY DEF TypeOK, Poll
  <1> QED BY <1>1, <1>2 DEF TypeOK, Poll, measurement

LEMMA StepType == TypeOK /\ [Next]_vars => TypeOK'
  <1> SUFFICES ASSUME TypeOK, [Next]_vars PROVE TypeOK'
    OBVIOUS
  <1>1. ASSUME NEW cell \in Cells, Measure(cell) PROVE TypeOK'
    BY <1>1, MeasureType
  <1>2. CASE Republish
    BY <1>2, RepublishType
  <1>3. CASE Build
    BY <1>3, DatasetType DEF TypeOK, Build, measurement, client
  <1>4. CASE Poll
    BY <1>4, PollType
  <1>5. CASE UNCHANGED vars
    BY <1>5 DEF TypeOK, vars, measurement, client
  <1> QED BY <1>1, <1>2, <1>3, <1>4, <1>5 DEF Next

(* Every variable has its type in every behaviour: in particular the row    *)
(* count of a response is never more than the measurement has rows.         *)
THEOREM TypeCorrect == Spec => []TypeOK
  BY InitType, StepType, PTL DEF Spec

----------------------------------------------------------------------------
(* What a follower holds.                                                   *)

LEMMA InitFollow == Init => FollowInvariant
  <1> SUFFICES ASSUME Init PROVE FollowInvariant
    OBVIOUS
  <1>1. TypeOK
    BY InitType
  <1>2. SnapshotOf(0)
    BY DEF Init, SnapshotOf, Dataset, Length, NoRows
  <1> QED
    BY <1>1, <1>2 DEF Init, FollowInvariant, FollowerIsExact, NoRows, TypeOK

(* The frontier of a snapshot of whole rows is one of them. *)
LEMMA FrontierIsHeld ==
  ASSUME TypeOK, shape # "integer_grid", NEW k \in 0..Rows, SnapshotOf(k)
  PROVE  row_frontier(snapshot) \in 0..k
  <1> USE DEF row_frontier
  <1>1. CASE ~HasNaN
    BY <1>1, ShapesAssumption DEF TypeOK, HasNaN, Preallocated, SnapshotOf
  <1>2. CASE HasNaN /\ FiniteRows(snapshot) = {}
    BY <1>2
  <1>3. CASE HasNaN /\ FiniteRows(snapshot) # {}
    <2>1. FiniteRows(snapshot) \subseteq 0..Rows
      <3>1. snapshot.total \in 0..Rows
        BY DEF TypeOK
      <3> QED BY <3>1, RowsAssumption DEF FiniteRows
    <2>2. Last(FiniteRows(snapshot)) \in FiniteRows(snapshot)
      BY <1>3, <2>1, LastIsLast, RowsAssumption
    <2>3. FiniteRows(snapshot) \subseteq 1..k
      BY DEF FiniteRows, TypeOK, SnapshotOf, RowNumbers
    <2> QED BY <1>3, <2>2, <2>3
  <1> QED BY <1>1, <1>2, <1>3

LEMMA MeasureFollow ==
  ASSUME FollowInvariant, NEW cell \in Cells, Measure(cell), TypeOK'
  PROVE  FollowInvariant'
  <1> USE DEF FollowInvariant
  <1>1. /\ row \in 0..Rows /\ row < Rows /\ Rows \in Nat
        /\ row' = row \/ (row' = row + 1 /\ left' = Cells)
        /\ row' = row => left' # Cells
        /\ snapshot' = snapshot /\ copy' = copy /\ held' = held /\ base' = base
        /\ run' = run /\ shape' = shape
    BY RowsAssumption DEF Measure, TypeOK, client
  <1>2. \A r \in RowNumbers : r # row + 1 => grid'[r] = grid[r]
    <2>1. \E finite \in BOOLEAN :
             grid' = [grid EXCEPT ![row + 1] = IF finite THEN @ \cup {cell} ELSE @]
      BY DEF Measure
    <2> QED BY <2>1 DEF TypeOK
  <1>3. PICK k \in 0..row : SnapshotOf(k)
    OBVIOUS
  <1>4. SnapshotOf(k)' /\ k \in 0..row'
    BY <1>1, <1>2, <1>3 DEF SnapshotOf, Preallocated, TypeOK
  <1>5. base' = run' => held' <= row' /\ \A r \in 1..held' : copy'[r] = grid'[r]
    BY <1>1, <1>2 DEF FollowerIsExact, TypeOK, RowNumbers
  <1>6. \A r \in RowNumbers : r > row' + 1 \/ (r = row' + 1 /\ left' = Cells) => grid'[r] = {}
    BY <1>1, <1>2 DEF RowNumbers
  <1> QED BY <1>1, <1>4, <1>5, <1>6 DEF FollowerIsExact

LEMMA RepublishFollow ==
  ASSUME FollowInvariant, Republish, TypeOK' PROVE FollowInvariant'
  <1>1. run' = run + 1 /\ base' = base /\ base' # run' /\ base' <= run'
    BY DEF FollowInvariant, TypeOK, Republish, client
  <1>2. SnapshotOf(0)' /\ 0 \in 0..row'
    BY DEF Republish, SnapshotOf, Dataset, Length, NoRows, Preallocated
  <1>3. \A r \in RowNumbers : grid'[r] = {}
    BY DEF Republish, NoRows
  <1> QED BY <1>1, <1>2, <1>3 DEF FollowInvariant, FollowerIsExact

LEMMA BuildFollow ==
  ASSUME WholeRows, FollowInvariant, Build, TypeOK' PROVE FollowInvariant'
  <1>1. /\ left = Cells /\ snapshot' = Dataset
        /\ row' = row /\ left' = left /\ grid' = grid /\ shape' = shape /\ run' = run
        /\ base' = base /\ held' = held /\ copy' = copy
    BY DEF Build, measurement, client
  <1>2. SnapshotOf(row)'
    BY <1>1 DEF FollowInvariant, TypeOK, SnapshotOf, Dataset, Length, Preallocated, RowNumbers
  <1>3. row \in 0..row'
    BY <1>1 DEF FollowInvariant, TypeOK
  <1> QED BY <1>1, <1>2, <1>3 DEF FollowInvariant, FollowerIsExact

LEMMA PollFollow ==
  ASSUME FollowInvariant, shape # "integer_grid", Poll, TypeOK' PROVE FollowInvariant'
  <1> USE DEF FollowInvariant
  <1>1. PICK k \in 0..row : SnapshotOf(k)
    OBVIOUS
  <1> DEFINE frontier == row_frontier(snapshot)
  <1>2. k \in 0..Rows /\ frontier \in 0..k
    <2>1. k \in 0..Rows
      BY RowsAssumption DEF TypeOK
    <2> QED BY <1>1, <2>1, FrontierIsHeld
  <1>3. /\ row' = row /\ left' = left /\ grid' = grid /\ shape' = shape /\ run' = run
        /\ snapshot' = snapshot /\ held' = frontier
        /\ base' = IF SentWhole(held) THEN run ELSE base
    BY DEF Poll, measurement
  <1>4. \A r \in 1..frontier : r \in RowNumbers /\ snapshot.rows[r] = grid[r]
    <2>1. \A r \in 1..frontier : r \in RowNumbers /\ r <= k
      BY <1>2, RowsAssumption DEF RowNumbers
    <2> QED BY <1>1, <2>1 DEF SnapshotOf
  <1>5. frontier <= snapshot.total
    BY <1>1, <1>2 DEF SnapshotOf, TypeOK
  <1> HIDE DEF frontier
  <1>6. CASE SentWhole(held)
    <2>1. \A r \in 1..frontier : copy'[r] = grid[r]
      BY <1>2, <1>4, <1>5, <1>6 DEF Poll, RowsSent, TypeOK
    <2> QED BY <1>1, <1>2, <1>3, <1>6, <2>1 DEF FollowerIsExact, TypeOK, SnapshotOf, Preallocated
  <1>7. CASE ~SentWhole(held)
    <2>1. ASSUME base = run, NEW r \in 1..frontier PROVE copy'[r] = grid[r]
      <3>1. CASE r <= held
        BY <1>4, <1>7, <2>1, <3>1 DEF Poll, RowsSent, TypeOK, FollowerIsExact
      <3>2. CASE r > held
        BY <1>2, <1>4, <1>7, <3>2 DEF Poll, RowsSent, TypeOK, frontier
      <3> QED BY <1>2, <3>1, <3>2 DEF TypeOK
    <2> QED BY <1>1, <1>2, <1>3, <1>7, <2>1 DEF FollowerIsExact, TypeOK, SnapshotOf, Preallocated
  <1> QED BY <1>6, <1>7

LEMMA StepFollow ==
  ASSUME WholeRows, "integer_grid" \notin Shapes
  PROVE  FollowInvariant /\ [Next]_vars => FollowInvariant'
  <1> SUFFICES ASSUME FollowInvariant, [Next]_vars PROVE FollowInvariant'
    OBVIOUS
  <1>1. TypeOK' /\ shape # "integer_grid"
    BY StepType DEF FollowInvariant, TypeOK
  <1>2. ASSUME NEW cell \in Cells, Measure(cell) PROVE FollowInvariant'
    BY <1>1, <1>2, MeasureFollow
  <1>3. CASE Republish
    BY <1>1, <1>3, RepublishFollow
  <1>4. CASE Build
    BY <1>1, <1>4, BuildFollow
  <1>5. CASE Poll
    BY <1>1, <1>5, PollFollow
  <1>6. CASE UNCHANGED vars
    BY <1>6 DEF FollowInvariant, TypeOK, SnapshotOf, Preallocated, FollowerIsExact,
                vars, measurement, client
  <1> QED BY <1>2, <1>3, <1>4, <1>5, <1>6 DEF Next

(* A client that follows a measurement row by row holds exactly the rows it *)
(* counts, whatever is measured, published again and rebuilt in between, if *)
(* the callback returns whole rows only and missing values can be told from *)
(* measured ones.                                                           *)
THEOREM FollowerCorrect ==
  ASSUME WholeRows, "integer_grid" \notin Shapes
  PROVE  Spec => []FollowerIsExact
  <1>1. Init => FollowInvariant
    BY InitFollow
  <1>2. FollowInvariant /\ [Next]_vars => FollowInvariant'
    BY StepFollow
  <1>3. FollowInvariant => FollowerIsExact
    BY DEF FollowInvariant
  <1> QED BY <1>1, <1>2, <1>3, PTL DEF Spec
=============================================================================
