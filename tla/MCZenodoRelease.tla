-------------------------- MODULE MCZenodoRelease --------------------------
(* TLC's instance of ZenodoRelease, and statements that TLC refutes.        *)
EXTENDS ZenodoRelease

MCEnvironments == {e \in [overlap : BOOLEAN, lag : BOOLEAN] : ~(e.overlap /\ e.lag)}

(* The statements of ZenodoRelease without their condition.  Two pipelines  *)
(* of the main branch at once take the same draft for both releases; a job  *)
(* run again before the search knows the draft makes a second concept.      *)
PublishedIsCompleteAnyway ==
    \A i \in Ids : records[i].published =>
        records[i].files = Files(records[i].version)

DoneIsArchivedAnyway == \A v \in Versions : at[v] = "done" => Published(v) # {}

OneConceptAnyway == env.overlap \/ \A i, j \in Ids : records[i].concept = records[j].concept

(* The newest published version is the newest release: a job that is run    *)
(* again after a later release was archived publishes the older one last.   *)
NewestIsLatest ==
    \A i, j \in Ids :
        records[i].published /\ records[j].published /\ i < j =>
            records[i].version <= records[j].version
=============================================================================
