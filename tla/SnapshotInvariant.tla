-------------------------- MODULE SnapshotInvariant --------------------------
(* The inductive invariant behind the safety properties of SnapshotServer.  *)
EXTENDS SnapshotServer

Asking(c) == pc[c] \notin {"idle", "refused"}
Inside(c) == pc[c] \in {"holding", "building", "built", "broken"}
Locked(c) == pc[c] = "waiting" \/ Inside(c)
Current(c) == req[c].entry = providers[req[c].id]
Cached(m) == cache[m] # NotCached

(* Where a request is, and what its local variables hold there.             *)
RequestShape ==
    \A c \in Connections :
        /\ ~Asking(c) => req[c] = NotAsked
        /\ Asking(c) => req[c].id \in Ids /\ req[c].entry \in 1..entries
        /\ loop = c <=> pc[c] \in {"admitted", "holding"}
        /\ Locked(c) <=> req[c].lock # NoLock
        /\ pc[c] \in {"built", "slicing", "fetched", "answered"}
              => dataset[c].entry = req[c].entry

(* An epoch names at most one provider of an identifier, whether a request  *)
(* or the cache remembers it, and the present epoch names the present one.  *)
EpochNamesEntry ==
    /\ \A c \in Connections : Asking(c) =>
          /\ req[c].epoch <= epoch
          /\ req[c].epoch = epoch => Current(c)
          /\ change.id = req[c].id => ~Current(c)
          /\ Cached(req[c].id) /\ cache[req[c].id].epoch = req[c].epoch
                => cache[req[c].id].entry = req[c].entry
    /\ \A c, d \in Connections :
          /\ Asking(c) /\ Asking(d)
          /\ req[c].id = req[d].id /\ req[c].epoch = req[d].epoch
          => req[c].entry = req[d].entry
    /\ \A m \in Ids : Cached(m) =>
          /\ cache[m].epoch <= epoch
          /\ cache[m].epoch = epoch => cache[m].entry = providers[m]

(* The requests with the same lock object stand in one queue, the request   *)
(* inside it at the head.                                                   *)
LockQueue ==
    /\ \A c \in Connections :
          /\ ahead[c] \subseteq {d \in Connections : d # c /\ req[d].lock = req[c].lock}
          /\ Inside(c) \/ ~Locked(c) => ahead[c] = {}
    /\ \A c, d \in Connections :
          c # d /\ req[c].lock # NoLock /\ req[c].lock = req[d].lock
              => c \in ahead[d] \/ d \in ahead[c]

(* The requests for the published provider of an identifier share its lock. *)
LockOfCurrent ==
    \A c \in Connections :
        Locked(c) /\ Current(c) => req[c].lock = locks[req[c].id]

(* What SnapshotServer's safety properties follow from (server.py:125-188,  *)
(* 404-464).                                                                *)
SafetyInvariant ==
    /\ TypeOK
    /\ RequestShape
    /\ EpochNamesEntry
    /\ LockQueue
    /\ LockOfCurrent
    /\ CacheIsCurrent

----------------------------------------------------------------------------
(* What the implementation of SnapshotService rests on besides: no answer   *)
(* is older than what a client already had.                                 *)

Queueing(c) == pc[c] = "admitted" \/ Locked(c)

KindsArePlaced ==
    \A c \in Connections :
        /\ pc[c] \in {"fetching", "fetched", "failed"} => req[c].kind = "get_data"
        /\ Queueing(c) \/ pc[c] = "slicing" => req[c].kind # "get_data"

(* Requests are admitted, and queue for a lock, in the order of their       *)
(* epochs: a copy that one of them cached is of no later epoch than those   *)
(* still in the queue.                                                      *)
EpochsAreOrdered ==
    \A c \in Connections :
        /\ pc[c] = "admitted" => \A d \in Connections : req[d].epoch <= req[c].epoch
        /\ \A d \in ahead[c] : req[d].epoch <= req[c].epoch
        /\ Queueing(c) /\ Current(c) /\ Cached(req[c].id)
              => cache[req[c].id].epoch <= req[c].epoch

(* No answer of the published provider, given or being sliced, is newer     *)
(* than t.                                                                  *)
NothingNewer(m, t) ==
    /\ newest[m] <= t
    /\ \A d \in Connections :
          pc[d] = "slicing" /\ req[d].id = m /\ Current(d) => dataset[d].at <= t

(* What a build is about to deliver, and what the cache holds in the        *)
(* present epoch, is as new as any answer.                                  *)
NewestIsAtHand ==
    /\ \A c \in Connections :
          pc[c] = "built" /\ Current(c) => NothingNewer(req[c].id, dataset[c].at)
    /\ \A m \in Ids :
          Cached(m) /\ cache[m].epoch = epoch => NothingNewer(m, cache[m].at)

(* A request's data, and a copy it may reuse, reaches the request's floor.  *)
FloorIsReached ==
    \A c \in Connections :
        /\ Queueing(c) /\ Current(c) => req[c].floor <= newest[req[c].id]
        /\ pc[c] \in {"built", "slicing", "fetched"} => req[c].floor <= dataset[c].at
        /\ /\ pc[c] \in {"admitted", "waiting", "holding"}
           /\ Cached(req[c].id) /\ cache[req[c].id].epoch = req[c].epoch
           => req[c].floor <= cache[req[c].id].at

ServiceInvariant ==
    /\ SafetyInvariant
    /\ KindsArePlaced
    /\ EpochsAreOrdered
    /\ NewestIsAtHand
    /\ FloorIsReached
=============================================================================
