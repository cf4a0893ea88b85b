---------------------------- MODULE SnapshotServer ----------------------------
(****************************************************************************)
(* The snapshot path of src/qimchi_connect/server.py: the table of snapshot *)
(* providers, the cache of serialized snapshots with its epochs and its     *)
(* per-measurement asyncio locks, and the requests that read them.          *)
(*                                                                          *)
(* Three kinds of thread run here.  Producer threads register and remove    *)
(* providers under _PROVIDERS_LOCK.  The event-loop thread runs one         *)
(* coroutine at a time, from one await to the next; `loop` names the        *)
(* request that owns it between two steps of the model, which is where a    *)
(* producer thread can come in.  Worker threads (asyncio.to_thread) call    *)
(* the snapshot callbacks.                                                  *)
(*                                                                          *)
(* A dataset is identified by the provider that returned it and the time at *)
(* which the callback ran.                                                  *)
(****************************************************************************)
EXTENDS Naturals, FiniteSets

CONSTANTS
    Ids,            \* measurement identifiers
    Connections,    \* client connections; each handles one request at a time
    None,           \* no connection, no identifier
    Kinds,          \* the requests the connections make
    TTL,            \* SNAPSHOT_CACHE_TTL
    MaxEpoch,       \* bound on the registrations and removals of a behaviour
    MaxClock        \* bound on the clock

ASSUME NoneAssumption == None \notin Ids /\ None \notin Connections
ASSUME KindsAssumption == Kinds \subseteq {"get_snapshot", "get_rows", "get_data"}
ASSUME BoundsAssumption == TTL \in Nat /\ MaxEpoch \in Nat /\ MaxClock \in Nat

NoEntry == 0
NoLock == 0
NotAsked == [kind |-> "get_data", id |-> None, entry |-> NoEntry, epoch |-> 0,
             lock |-> NoLock, floor |-> 0]
NoDataset == [entry |-> NoEntry, at |-> 0]
NotCached == [entry |-> NoEntry, at |-> 0, created |-> 0, epoch |-> 0]
NoChange == [id |-> None, stage |-> "none"]

VARIABLES
    providers,  \* _PROVIDERS: the entry registered under each identifier
    entries,    \* _ProviderEntry objects created so far, numbered from 1
    epoch,      \* _PROVIDER_EPOCH
    change,     \* the _invalidate_snapshot in progress; it has _PROVIDERS_LOCK
    cache,      \* _SNAPSHOT_CACHE
    locks,      \* _SNAPSHOT_LOCKS
    made,       \* asyncio.Lock objects created so far, numbered from 1
    loop,       \* the request the event-loop thread is in the middle of
    pc,         \* where each connection's request is
    req,        \* the request's local variables
    ahead,      \* the requests queued for the same lock object before this one
    dataset,    \* the dataset a worker thread handed back, then the response
    newest,     \* history: the newest snapshot delivered of providers[m]
    now         \* time.monotonic()

tables == <<providers, entries, epoch, change>>
store == <<cache, locks, made>>
requests == <<pc, req, ahead, dataset>>
vars == <<providers, entries, epoch, change, cache, locks, made, loop,
          pc, req, ahead, dataset, newest, now>>

Init ==
    /\ providers = [m \in Ids |-> NoEntry]
    /\ entries = 0
    /\ epoch = 0
    /\ change = NoChange
    /\ cache = [m \in Ids |-> NotCached]
    /\ locks = [m \in Ids |-> NoLock]
    /\ made = 0
    /\ loop = None
    /\ pc = [c \in Connections |-> "idle"]
    /\ req = [c \in Connections |-> NotAsked]
    /\ ahead = [c \in Connections |-> {}]
    /\ dataset = [c \in Connections |-> NoDataset]
    /\ newest = [m \in Ids |-> 0]
    /\ now = 0

----------------------------------------------------------------------------
(* An operator that precedes a definition and carries its name with a       *)
(* suffix is a faulty variant of it, which no specification uses: a         *)
(* property is exercised by putting it in the place of the definition.      *)

(* Producer threads.  The table and the epoch are read under               *)
(* _PROVIDERS_LOCK only, so their two assignments are one step; the cache   *)
(* and the locks are read by the event loop without it, so each is dropped  *)
(* in a step of its own before `change` gives _PROVIDERS_LOCK back.         *)

BeginChange(m, entry) ==
    /\ change = NoChange
    /\ epoch < MaxEpoch
    /\ providers' = [providers EXCEPT ![m] = entry]
    /\ epoch' = epoch + 1
    /\ change' = [id |-> m, stage |-> "cache"]

RegisterReusingEntry(m) ==
    /\ BeginChange(m, entries + 1)
    /\ newest' = [newest EXCEPT ![m] = 0]
    /\ UNCHANGED <<entries, store, loop, requests, now>>

Register(m) ==
    /\ BeginChange(m, entries + 1)
    /\ entries' = entries + 1
    /\ newest' = [newest EXCEPT ![m] = 0]
    /\ UNCHANGED <<store, loop, requests, now>>

Unregister(m) ==
    /\ BeginChange(m, NoEntry)
    /\ UNCHANGED <<entries, store, loop, requests, newest, now>>

DropCache ==
    /\ change.stage = "cache"
    /\ cache' = [cache EXCEPT ![change.id] = NotCached]
    /\ change' = [change EXCEPT !.stage = "locks"]
    /\ UNCHANGED <<providers, entries, epoch, locks, made, loop, requests,
                   newest, now>>

DropLock ==
    /\ change.stage = "locks"
    /\ locks' = [locks EXCEPT ![change.id] = NoLock]
    /\ change' = NoChange
    /\ UNCHANGED <<providers, entries, epoch, cache, made, loop, requests,
                   newest, now>>

----------------------------------------------------------------------------
(* The event loop.  _provider_state blocks the whole loop while a producer  *)
(* thread has _PROVIDERS_LOCK, hence change = NoChange.                     *)

LoopFree == loop = None
Queued(l) == {d \in Connections : l # NoLock /\ req[d].lock = l}

(* _process_request up to its first await for a get_data, and up to the     *)
(* call of _cached_snapshot for a get_snapshot ("get_rows" is one with      *)
(* since_rows > 0).                                                         *)
Admit(c, m, kind) ==
    /\ LoopFree
    /\ change = NoChange
    /\ pc[c] = "idle"
    /\ providers[m] # NoEntry
    /\ req' = [req EXCEPT ![c] =
                  [kind |-> kind, id |-> m, entry |-> providers[m],
                   epoch |-> epoch, lock |-> NoLock,
                   floor |-> IF kind = "get_data" THEN now ELSE newest[m]]]
    /\ pc' = [pc EXCEPT ![c] =
                 IF kind = "get_data" THEN "fetching" ELSE "admitted"]
    /\ loop' = IF kind = "get_data" THEN None ELSE c
    /\ UNCHANGED <<tables, store, ahead, dataset, newest, now>>

NotFound(c, m) ==
    /\ LoopFree
    /\ change = NoChange
    /\ pc[c] = "idle"
    /\ providers[m] = NoEntry
    /\ pc' = [pc EXCEPT ![c] = "refused"]
    /\ UNCHANGED <<tables, store, loop, req, ahead, dataset, newest, now>>

(* _cached_snapshot takes the measurement's lock, making one if there is    *)
(* none, and enters it at once when nobody has it or waits for it: an       *)
(* asyncio.Lock is fair.  A drop that slips in between the lookup and the   *)
(* store of a new lock finds nothing to drop, so one step is enough.        *)
BindToOwnLock(c) ==
    /\ loop = c
    /\ pc[c] = "admitted"
    /\ locks' = [locks EXCEPT ![req[c].id] = made + 1]
    /\ made' = made + 1
    /\ req' = [req EXCEPT ![c].lock = made + 1]
    /\ pc' = [pc EXCEPT ![c] = "holding"]
    /\ UNCHANGED <<tables, cache, loop, ahead, dataset, newest, now>>

Bind(c) ==
    /\ loop = c
    /\ pc[c] = "admitted"
    /\ LET m == req[c].id
           l == IF locks[m] = NoLock THEN made + 1 ELSE locks[m]
       IN  /\ locks' = [locks EXCEPT ![m] = l]
           /\ made' = IF locks[m] = NoLock THEN made + 1 ELSE made
           /\ req' = [req EXCEPT ![c].lock = l]
           /\ ahead' = [ahead EXCEPT ![c] = Queued(l)]
           /\ pc' = [pc EXCEPT ![c] =
                        IF Queued(l) = {} THEN "holding" ELSE "waiting"]
           /\ loop' = IF Queued(l) = {} THEN c ELSE None
    /\ UNCHANGED <<tables, cache, dataset, newest, now>>

Wake(c) ==
    /\ LoopFree
    /\ pc[c] = "waiting"
    /\ ahead[c] = {}
    /\ pc' = [pc EXCEPT ![c] = "holding"]
    /\ loop' = c
    /\ UNCHANGED <<tables, store, req, ahead, dataset, newest, now>>

(* Leaving `async with`: the next request in the queue may enter.           *)
LeaveQueue(c) ==
    ahead' = [d \in Connections |-> IF d = c THEN {} ELSE ahead[d] \ {c}]

(* The response is ready; that of a snapshot of the provider that is still  *)
(* published moves the measurement forward.                                 *)
Respond(c, d) ==
    /\ pc' = [pc EXCEPT ![c] = "answered"]
    /\ req' = [req EXCEPT ![c].lock = NoLock]
    /\ dataset' = [dataset EXCEPT ![c] = d]
    /\ newest' = IF /\ req[c].kind # "get_data"
                    /\ providers[req[c].id] = d.entry
                    /\ newest[req[c].id] < d.at
                 THEN [newest EXCEPT ![req[c].id] = d.at]
                 ELSE newest

Refuse(c) ==
    /\ pc' = [pc EXCEPT ![c] = "refused"]
    /\ req' = [req EXCEPT ![c] = NotAsked]
    /\ dataset' = [dataset EXCEPT ![c] = NoDataset]
    /\ UNCHANGED newest

(* _cached_snapshot has its result and releases the lock: a full snapshot   *)
(* is the response, an incremental one is sliced out of it by another       *)
(* worker thread.                                                           *)
HandOver(c, d) ==
    /\ LeaveQueue(c)
    /\ \/ /\ req[c].kind = "get_rows"
          /\ pc' = [pc EXCEPT ![c] = "slicing"]
          /\ req' = [req EXCEPT ![c].lock = NoLock]
          /\ dataset' = [dataset EXCEPT ![c] = d]
          /\ UNCHANGED newest
       \/ /\ req[c].kind = "get_snapshot"
          /\ Respond(c, d)

ReusableInAnyEpoch(c, copy) ==
    /\ copy.entry # NoEntry
    /\ now - copy.created < TTL

Reusable(c, copy) ==
    /\ copy.entry # NoEntry
    /\ copy.epoch = req[c].epoch
    /\ now - copy.created < TTL

LookUp(c) ==
    /\ loop = c
    /\ pc[c] = "holding"
    /\ LET copy == cache[req[c].id]
       IN  IF Reusable(c, copy)
           THEN HandOver(c, [entry |-> copy.entry, at |-> copy.at])
           ELSE /\ pc' = [pc EXCEPT ![c] = "building"]
                /\ UNCHANGED <<req, ahead, dataset, newest>>
    /\ loop' = None
    /\ UNCHANGED <<tables, store, now>>

----------------------------------------------------------------------------
(* Worker threads: the callback of the admitted provider is called, for a   *)
(* snapshot or for a get_data, whatever became of its registration.         *)

OpenProvider(c) ==
    /\ pc[c] \in {"building", "fetching"}
    /\ dataset' = [dataset EXCEPT ![c] = [entry |-> req[c].entry, at |-> now]]
    /\ pc' = [pc EXCEPT ![c] = IF pc[c] = "building" THEN "built" ELSE "fetched"]
    /\ UNCHANGED <<tables, store, loop, req, ahead, newest, now>>

(* The callback or the serialization raises.                                *)
BreakProvider(c) ==
    /\ pc[c] \in {"building", "fetching"}
    /\ pc' = [pc EXCEPT ![c] = IF pc[c] = "building" THEN "broken" ELSE "failed"]
    /\ UNCHANGED <<tables, store, loop, req, ahead, dataset, newest, now>>

----------------------------------------------------------------------------
(* Back on the event loop.  FinishBuild runs to the response in one turn:   *)
(* the check and the cache write are under _PROVIDERS_LOCK.                 *)

FinishBuildUnchecked(c) ==
    /\ LoopFree
    /\ change = NoChange
    /\ pc[c] = "built"
    /\ cache' = [cache EXCEPT ![req[c].id] =
                    [entry |-> dataset[c].entry, at |-> dataset[c].at,
                     created |-> now, epoch |-> req[c].epoch]]
    /\ HandOver(c, dataset[c])
    /\ UNCHANGED <<tables, locks, made, loop, now>>

FinishBuild(c) ==
    /\ LoopFree
    /\ change = NoChange
    /\ pc[c] = "built"
    /\ LET m == req[c].id
       IN  cache' = IF epoch = req[c].epoch /\ providers[m] = req[c].entry
                    THEN [cache EXCEPT ![m] =
                             [entry |-> dataset[c].entry, at |-> dataset[c].at,
                              created |-> now, epoch |-> req[c].epoch]]
                    ELSE cache
    /\ HandOver(c, dataset[c])
    /\ UNCHANGED <<tables, locks, made, loop, now>>

FailBuildKeepingLock(c) ==
    /\ LoopFree
    /\ pc[c] = "broken"
    /\ Refuse(c)
    /\ UNCHANGED <<tables, store, loop, ahead, now>>

FailBuild(c) ==
    /\ LoopFree
    /\ pc[c] = "broken"
    /\ Refuse(c)
    /\ LeaveQueue(c)
    /\ UNCHANGED <<tables, store, loop, now>>

FinishFetch(c) ==
    /\ LoopFree
    /\ pc[c] \in {"fetched", "slicing"}
    /\ Respond(c, dataset[c])
    /\ UNCHANGED <<tables, store, loop, ahead, now>>

FailFetch(c) ==
    /\ LoopFree
    /\ pc[c] \in {"failed", "slicing"}
    /\ Refuse(c)
    /\ UNCHANGED <<tables, store, loop, ahead, now>>

(* _handle_client sends the response and reads the next request.            *)
Send(c) ==
    /\ LoopFree
    /\ pc[c] \in {"answered", "refused"}
    /\ pc' = [pc EXCEPT ![c] = "idle"]
    /\ req' = [req EXCEPT ![c] = NotAsked]
    /\ dataset' = [dataset EXCEPT ![c] = NoDataset]
    /\ UNCHANGED <<tables, store, loop, ahead, newest, now>>

Tick ==
    /\ now < MaxClock
    /\ now' = now + 1
    /\ UNCHANGED <<tables, store, loop, requests, newest>>

----------------------------------------------------------------------------
Producer == (\E m \in Ids : Register(m) \/ Unregister(m)) \/ DropCache \/ DropLock

Arrive(c) == \E m \in Ids : NotFound(c, m) \/ \E kind \in Kinds : Admit(c, m, kind)

(* One turn of the request's coroutine: with the loop in hand, or resumed   *)
(* after an await.                                                          *)
Continue(c) == Bind(c) \/ LookUp(c)
Resume(c) ==
    \/ Wake(c) \/ FinishBuild(c) \/ FailBuild(c)
    \/ FinishFetch(c) \/ FailFetch(c) \/ Send(c)
Work(c) == OpenProvider(c) \/ BreakProvider(c)

Next ==
    \/ Producer
    \/ (\E c \in Connections : Arrive(c) \/ Continue(c) \/ Resume(c) \/ Work(c))
    \/ Tick

Spec == Init /\ [][Next]_vars

(* A thread that holds _PROVIDERS_LOCK runs on, a coroutine that has the    *)
(* loop runs to its next await and a callback returns or raises.  A         *)
(* coroutine that can continue is in the loop's first-in first-out ready    *)
(* queue, so other requests cannot overtake it for ever: its steps are      *)
(* strongly fair although the loop is busy in between.                      *)
Fairness ==
    /\ WF_vars(DropCache) /\ WF_vars(DropLock)
    /\ \A c \in Connections :
          /\ WF_vars(Continue(c))
          /\ WF_vars(Work(c))
          /\ SF_vars(Resume(c))

FairSpec == Spec /\ Fairness

----------------------------------------------------------------------------
Places == {"idle", "admitted", "waiting", "holding", "building", "built",
           "broken", "slicing", "fetching", "fetched", "failed", "answered",
           "refused"}
Dataset == [entry : 0..entries, at : 0..now]
Copy == [entry : 0..entries, at : 0..now, created : 0..now, epoch : 0..epoch]
Request == [kind : Kinds \cup {"get_data"}, id : Ids \cup {None},
            entry : 0..entries, epoch : 0..epoch, lock : 0..made, floor : 0..now]

TypeOK ==
    /\ entries \in Nat
    /\ providers \in [Ids -> 0..entries]
    /\ epoch \in Nat
    /\ change \in [id : Ids \cup {None}, stage : {"none", "cache", "locks"}]
    /\ change.id = None <=> change.stage = "none"
    /\ cache \in [Ids -> Copy]
    /\ made \in Nat
    /\ locks \in [Ids -> 0..made]
    /\ loop \in Connections \cup {None}
    /\ pc \in [Connections -> Places]
    /\ req \in [Connections -> Request]
    /\ ahead \in [Connections -> SUBSET Connections]
    /\ dataset \in [Connections -> Dataset]
    /\ newest \in [Ids -> 0..now]
    /\ now \in Nat

(* A cached snapshot describes the provider that is published now, except   *)
(* while the producer thread that changed it is about to drop it; an        *)
(* identifier without a provider has none (server.py:118-121, 448-454).     *)
CacheIsCurrent ==
    \A m \in Ids :
        \/ cache[m] = NotCached
        \/ cache[m].entry = providers[m]
        \/ change = [id |-> m, stage |-> "cache"]

(* A response carries data of the provider the request was admitted with,   *)
(* although providers are replaced and cached under the same identifier     *)
(* while it waits (server.py:370-372, 618-623).                             *)
AnswerIsOwn ==
    \A c \in Connections :
        pc[c] = "answered" => dataset[c].entry = req[c].entry

Builders(m) ==
    {c \in Connections : pc[c] \in {"building", "built", "broken"} /\ req[c].id = m}

(* At most one build at a time of the provider that is published: what is   *)
(* left of "building at most one per measurement at a time"                 *)
(* (server.py:410) once re-registration has replaced the lock.              *)
CurrentBuildIsExclusive ==
    \A m \in Ids : \A c, d \in Builders(m) :
        req[c].entry = providers[m] /\ req[d].entry = providers[m] => c = d

(* Every request is answered in the end: no lock is left taken by a build   *)
(* that failed, and no waiter is overtaken for ever (server.py:436-447).    *)
EveryRequestIsAnswered == \A c \in Connections : pc[c] # "idle" ~> pc[c] = "idle"

(* What a client has asked and is sent: the mapping to SnapshotService.      *)
Asked(c) ==
    IF pc[c] \in {"idle", "answered", "refused"}
    THEN [id |-> None, entry |-> NoEntry, floor |-> 0, tracked |-> FALSE]
    ELSE [id |-> req[c].id, entry |-> req[c].entry, floor |-> req[c].floor,
          tracked |-> req[c].kind # "get_data"]

Reply(c) ==
    [status |-> IF pc[c] = "answered" THEN "data"
                ELSE IF pc[c] = "refused" THEN "error" ELSE "none",
     entry |-> IF pc[c] = "answered" THEN dataset[c].entry ELSE NoEntry,
     at |-> IF pc[c] = "answered" THEN dataset[c].at ELSE 0]

Service == INSTANCE SnapshotService WITH
    current <- providers,
    asked <- [c \in Connections |-> Asked(c)],
    reply <- [c \in Connections |-> Reply(c)]

(* Clients see the promises of SnapshotService: an answer is the admitted   *)
(* provider's, is no older than any snapshot of it that a client already    *)
(* had when the request was admitted, and uncached data is newer than the   *)
(* request (server.py:404-464, 577-671).                                    *)
ImplementsService == Service!ServiceSpec
=============================================================================
