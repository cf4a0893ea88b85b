---------------------------- MODULE MCPublication ----------------------------
(* Publication on small instances, and the statements its comments and      *)
(* tests make of it that the code does not keep.                            *)
EXTENDS Publication, FiniteSets, TLC

Symmetric == Permutations(Threads) \cup Permutations(Ids)

(* "one thread" beats "for every measurement this process publishes"        *)
(* (producer.py:27-28).  Registering the only publication again stops the   *)
(* heartbeat under the lock its thread waits for; the join gives up and the *)
(* event is cleared for a second thread before the first has seen it.       *)
OneHeartbeatThread ==
    Cardinality({b \in Beats : beat[b] \notin {"unborn", "made", "dead"}}) <= 1

(* stop_heartbeat "must not be called while holding _REGISTRATION_LOCK"     *)
(* (producer.py:91-92).                                                     *)
StopsWithoutLock ==
    \A t \in Threads : pc[t] \in {"setting", "joining"} => owner # t

(* A failed registration takes the provider back (the test                  *)
(* a_failed_discovery_write_unregisters_the_provider): it leaves nothing    *)
(* open.  The first stamp can fail after everything is published.           *)
FailedRegistrationLeavesNothing ==
    [][\A t \in Threads :
          pc[t] \in {"recording", "beating"} /\ failures' > failures /\ pc'[t] = "idle"
              => call[t].id \notin provider']_vars

(* close "marks the discovery record ended" (producer.py:380-384).  After a *)
(* close whose write failed, a second one returns without writing.          *)
ClosedMeansEnded ==
    owner = None =>
        \A h \in Handles : closed[h] /\ row[measurement[h]] = "running"
                              => measurement[h] \in Open

(* "One thread beats for every open registration, so it stops only when the *)
(* count reaches zero" (tests/test_heartbeat.py:140-142).  A close counts   *)
(* zero and stops the heartbeat after it has given the lock back: a         *)
(* registration in between finds no thread, clears the event and starts     *)
(* one, which the late stop then stops.                                     *)
OpenIsBeatenByAnyThreads == OpenIsBeaten
=============================================================================
