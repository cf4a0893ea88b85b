-------------------------- MODULE MCSnapshotServer --------------------------
(* SnapshotServer on small instances, and three statements its comments and *)
(* tests make of it that the code does not keep.                            *)
EXTENDS SnapshotInvariant, TLC

(* Identifiers and connections are interchangeable; used by safety runs.    *)
Symmetric == Permutations(Ids) \cup Permutations(Connections)

(* "An entry from an older epoch describes a provider that has since been   *)
(* replaced or removed" (server.py:97-98).  The epoch is global: another    *)
(* measurement's registration makes an entry old as well.                   *)
OldEpochMeansReplaced ==
    \A m \in Ids :
        cache[m] # NotCached /\ cache[m].epoch < epoch /\ change = NoChange
            => cache[m].entry # providers[m]

(* "building at most one per measurement at a time" (server.py:410).        *)
(* Re-registration drops the lock under a build that is in flight, and the  *)
(* next request builds beside it under a lock of its own.                   *)
OneBuildPerMeasurement == \A m \in Ids : Cardinality(Builders(m)) <= 1

(* A closed measurement leaves nothing behind in _SNAPSHOT_LOCKS            *)
(* (tests/test_snapshot_cache.py:105-120).  A request admitted before the   *)
(* close creates the lock again after it.                                   *)
LocksReleasedWithMeasurement ==
    \A m \in Ids :
        providers[m] = NoEntry /\ change = NoChange => locks[m] = NoLock
=============================================================================
