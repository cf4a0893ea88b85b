---------------------------- MODULE MCLiveSystem ----------------------------
(* LiveSystem on small instances, and a statement that TLC refutes.         *)
EXTENDS LiveSystem, TLC

Symmetric == Permutations(Ids)

(* "so a producer briefly too busy to answer a probe is not mistaken for    *)
(* one that has exited" (registry.py 35-37).  Its own registration may be   *)
(* what keeps it busy: refuted with ProbeTime = 2, when the endpoints of a  *)
(* sweep take longer than Stale together (two attempts of a handshake and   *)
(* of ten seconds for the close of each, against a window of fifteen).      *)
BusyProducerIsListed == RunningIsListed
=============================================================================
