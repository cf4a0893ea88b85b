------------------------ MODULE MCSnapshotProviders ------------------------
(* SnapshotProviders on small instances, and three statements that the code *)
(* does not keep.                                                           *)
EXTENDS SnapshotProviders, TLC

Symmetric == Permutations(Workers)

(* "Safe to call from any thread" (producer.py:355) and "returns the        *)
(* previous snapshot" (producer.py:357): two workers that read a Quantify   *)
(* run at once assign in either order, and the older data stays.            *)
NeverGoesBackFromAnyThread ==
    \A w \in Workers : pc[w] = "idle" => AtLeast(result[w], floor[w])

(* "Fetch one atomic measurement snapshot" (client.py:131).  A sweep fills  *)
(* the arrays of a point in order, so no earlier array is ever shorter; a   *)
(* Qanary read that the sweep overtakes returns one that is.                *)
SnapshotIsAtomic ==
    \A w \in Workers : \A a, b \in 1..Arrays : a < b => result[w][a] >= result[w][b]

(* The refresh of the last point is throttled like the others               *)
(* (producer.py:166-168): without a forced one (Final = FALSE) the last     *)
(* points are never published, although nothing has raised.                 *)
EndIsPublishedAnyway ==
    at = "done" /\ ending /\ ~failed => snapshot = Whole(Points)
=============================================================================
