----------------------------- MODULE MCReconcile -----------------------------
(* Reconcile on small instances, and two statements of its comments that    *)
(* the code keeps only while identifiers are used once and sweeps do not    *)
(* overlap.                                                                 *)
EXTENDS Reconcile, TLC

Symmetric == Permutations(Ids) \cup Permutations(Sweepers)

(* "End live records whose producer has gone" (registry.py:503-508).  A     *)
(* sweep that read the row of an earlier run ends, by its identifier, the   *)
(* row of the run that has replaced it, and no beat makes it live again.    *)
EndsOnlyWhatIsGone == RunningIsListed

(* "so the elapsed time is measured from the last answer"                   *)
(* (registry.py:448-449).  A sweep writes the time at which it began, and   *)
(* may write it after another sweep has had an answer.                      *)
ElapsedSinceLastAnswer ==
    [][\A s \in Sweepers :
          EndedUnanswered(s) => answered[subject[s].id] + Grace <= now]_vars
=============================================================================
