------------------------------ MODULE RowFollow ------------------------------
(****************************************************************************)
(* Following a measurement incrementally: the rows a client still misses    *)
(* are cut out of the snapshot the server has, by a row count               *)
(* (_partial_snapshot in server.py, row_frontier in protocol.py).           *)
(*                                                                          *)
(* The data variables share their leading dimension; without one the server *)
(* only sends whole snapshots.  A row is the set of its cells, over columns *)
(* and variables, that hold a finite value: a cell is measured at most once *)
(* and its value depends only on its place.                                 *)
(****************************************************************************)
EXTENDS Naturals

CONSTANTS
    Rows,           \* length of the leading dimension in the end
    Cells,          \* cells of one row, over all columns and variables
    Shapes,         \* the shapes of measurement that are followed
    WholeRows,      \* whether the callback returns only rows that are complete
    MaxRuns         \* bound on the runs published under the identifier

ASSUME RowsAssumption == Rows \in Nat /\ MaxRuns \in Nat \ {0}
ASSUME WholeRowsAssumption == WholeRows \in BOOLEAN
ASSUME CellsAssumption == Cells # {}
ASSUME ShapesAssumption ==
    Shapes \subseteq {"grid", "integer_grid", "growing", "integer_growing"}

RowNumbers == 1..Rows
NoRows == [r \in RowNumbers |-> {}]

VARIABLES
    run,        \* the run that is published
    shape,      \* a grid has its full length from the start; integers no NaN
    grid,       \* finite cells of each row
    row,        \* rows measured completely
    left,       \* cells of the next row that are still to be measured
    snapshot,   \* the dataset the server serves: its rows and its length
    copy,       \* the rows the client has put together
    held,       \* rows_written of the client's last response
    latest,     \* history: the run that response was about
    base        \* history: the run of the last response with all rows

measurement == <<run, shape, grid, row, left>>
client == <<copy, held, latest, base>>
vars == <<measurement, snapshot, client>>

(* A definition below whose name ends in a fault's description is a faulty  *)
(* variant of the one that follows it; no specification uses it.            *)

Preallocated == shape \in {"grid", "integer_grid"}
HasNaN == shape \in {"grid", "growing"}

Length == IF Preallocated THEN Rows ELSE IF left = Cells THEN row ELSE row + 1

Dataset == [rows |-> grid, total |-> Length]

Init ==
    /\ run = 1 /\ latest = 1 /\ base = 1
    /\ shape \in Shapes
    /\ grid = NoRows
    /\ row = 0
    /\ left = Cells
    /\ snapshot = Dataset
    /\ copy = NoRows
    /\ held = 0

----------------------------------------------------------------------------
(* The producer measures a cell, which may come out as NaN.                 *)
Measure(cell) ==
    /\ row < Rows
    /\ cell \in left
    /\ \E finite \in IF HasNaN THEN BOOLEAN ELSE {TRUE} :
          grid' = [grid EXCEPT ![row + 1] = IF finite THEN @ \cup {cell} ELSE @]
    /\ IF left = {cell}
       THEN row' = row + 1 /\ left' = Cells
       ELSE left' = left \ {cell} /\ UNCHANGED row
    /\ UNCHANGED <<run, shape, snapshot, client>>

(* Another run is published under the identifier.  The snapshot of the old  *)
(* one is dropped with its provider.                                        *)
RepublishKeepingSnapshot ==
    /\ run < MaxRuns
    /\ run' = run + 1
    /\ grid' = NoRows /\ row' = 0 /\ left' = Cells
    /\ UNCHANGED <<shape, snapshot, client>>

Republish ==
    /\ run < MaxRuns
    /\ run' = run + 1
    /\ grid' = NoRows /\ row' = 0 /\ left' = Cells
    /\ UNCHANGED <<shape, client>>
    /\ snapshot' = Dataset'

(* The server builds a snapshot.  A callback that takes the producer's lock *)
(* returns whole rows only.  Unlike a cell without a finite value, the      *)
(* filler of a preallocated integer cell cannot be told from a measurement. *)
Build ==
    /\ WholeRows => left = Cells
    /\ snapshot' = Dataset
    /\ UNCHANGED <<measurement, client>>

----------------------------------------------------------------------------
(* Leading rows up to the last one with a finite value.                     *)
FiniteRows(dataset) == {r \in 1..dataset.total : dataset.rows[r] # {}}
Last(S) == CHOOSE r \in S : \A s \in S : s <= r

row_frontierExclusive(dataset) ==
    IF ~HasNaN THEN dataset.total
    ELSE IF FiniteRows(dataset) = {} THEN 0 ELSE Last(FiniteRows(dataset)) - 1

row_frontierBeyond(dataset) ==
    IF ~HasNaN THEN dataset.total
    ELSE IF FiniteRows(dataset) = {} THEN 0 ELSE Last(FiniteRows(dataset)) + 1

row_frontier(dataset) ==
    IF ~HasNaN THEN dataset.total
    ELSE IF FiniteRows(dataset) = {} THEN 0 ELSE Last(FiniteRows(dataset))

(* The rows of the response to since_rows: all of them for a count of zero  *)
(* or one that the measurement does not have.                               *)
SentWhole(since) ==
    since = 0 \/ since > row_frontier(snapshot) \/ since > snapshot.total

RowsSentSkippingOne(since) ==
    IF SentWhole(since) THEN 1..snapshot.total
    ELSE since + 2..row_frontier(snapshot)

RowsSent(since) ==
    IF SentWhole(since) THEN 1..snapshot.total
    ELSE since + 1..row_frontier(snapshot)

(* The client asks for the rows past those it holds, puts the answer in     *)
(* their place, or all of it in the place of its copy, and keeps its count. *)
Poll ==
    /\ copy' = [r \in RowNumbers |->
                   IF r \in RowsSent(held) THEN snapshot.rows[r]
                   ELSE IF SentWhole(held) THEN {} ELSE copy[r]]
    /\ held' = row_frontier(snapshot)
    /\ latest' = run
    /\ base' = IF SentWhole(held) THEN run ELSE base
    /\ UNCHANGED <<measurement, snapshot>>

----------------------------------------------------------------------------
Next == (\E cell \in Cells : Measure(cell)) \/ Republish \/ Build \/ Poll

Spec == Init /\ [][Next]_vars

(* A client that follows a measurement keeps polling, and each poll that    *)
(* finds the cached snapshot expired builds another.                        *)
FairSpec == Spec /\ WF_vars(Build) /\ WF_vars(Poll)

----------------------------------------------------------------------------
TypeOK ==
    /\ {run, latest, base} \subseteq 1..MaxRuns
    /\ shape \in Shapes
    /\ grid \in [RowNumbers -> SUBSET Cells]
    /\ row \in 0..Rows /\ (row = Rows => left = Cells)
    /\ left \subseteq Cells /\ left # {}
    /\ snapshot \in [rows : [RowNumbers -> SUBSET Cells], total : 0..Rows]
    /\ copy \in [RowNumbers -> SUBSET Cells]
    /\ held \in 0..Rows

(* The rows a follower counts as held are those of the measurement: none is *)
(* skipped, and none is taken before it was complete.  This holds again for *)
(* another run under the identifier once its rows have been sent from the   *)
(* first one on (server.py:314-330, protocol.py:149-186).                   *)
FollowerIsExact == base = run => \A r \in 1..held : copy[r] = grid[r]

(* The rows of the snapshot, when rows are whole: those up to some row that *)
(* is complete by now, as it is now.                                        *)
SnapshotOf(k) ==
    /\ \A r \in RowNumbers : snapshot.rows[r] = IF r <= k THEN grid[r] ELSE {}
    /\ snapshot.total = IF Preallocated THEN Rows ELSE k

(* FollowerIsExact as an inductive invariant: a client that follows the run *)
(* holds complete rows only, since the snapshot has no other.               *)
FollowInvariant ==
    /\ TypeOK
    /\ \A r \in RowNumbers : r > row + 1 \/ (r = row + 1 /\ left = Cells) => grid[r] = {}
    /\ \E k \in 0..row : SnapshotOf(k)
    /\ base <= run
    /\ base = run => held <= row
    /\ FollowerIsExact

(* Once the last run is over, a follower of it has all of it in the end.    *)
FollowerCatchesUp ==
    run = MaxRuns /\ row = Rows ~> copy = grid \/ base # run
=============================================================================
