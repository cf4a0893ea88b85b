------------------------- MODULE SnapshotServerProofs -------------------------
(* Proofs about SnapshotServer, for every value of its constants.           *)
EXTENDS SnapshotInvariant, TLAPS

----------------------------------------------------------------------------
(* Type correctness.                                                        *)

LEMMA InitType == Init => TypeOK
  BY NoneAssumption
     DEF Init, TypeOK, NoEntry, NoLock, NotAsked, NoDataset, NotCached, NoChange,
         Places, Dataset, Copy, Request

(* Records stay typed when the counters that bound them grow. *)
LEMMA RecordsGrow ==
  ASSUME TypeOK, entries' \in Nat, entries <= entries', epoch' \in Nat, epoch <= epoch',
         made' \in Nat, made <= made', now' \in Nat, now <= now'
  PROVE  Request \subseteq Request' /\ Dataset \subseteq Dataset' /\ Copy \subseteq Copy'
  <1> USE DEF TypeOK
  <1>1. ASSUME NEW r \in Request PROVE r \in Request'
    <2>1. /\ r.entry \in 0..entries' /\ r.epoch \in 0..epoch'
          /\ r.lock \in 0..made' /\ r.floor \in 0..now'
      BY DEF Request
    <2>2. r = [kind |-> r.kind, id |-> r.id, entry |-> r.entry, epoch |-> r.epoch,
               lock |-> r.lock, floor |-> r.floor]
      BY DEF Request
    <2> QED BY <2>1, <2>2 DEF Request
  <1>2. ASSUME NEW d \in Dataset PROVE d \in Dataset'
    <2>1. /\ d.entry \in 0..entries' /\ d.at \in 0..now'
          /\ d = [entry |-> d.entry, at |-> d.at]
      BY DEF Dataset
    <2> QED BY <2>1 DEF Dataset
  <1>3. ASSUME NEW y \in Copy PROVE y \in Copy'
    <2>1. /\ y.entry \in 0..entries' /\ y.at \in 0..now'
          /\ y.created \in 0..now' /\ y.epoch \in 0..epoch'
      BY DEF Copy
    <2>2. y = [entry |-> y.entry, at |-> y.at, created |-> y.created, epoch |-> y.epoch]
      BY DEF Copy
    <2> QED BY <2>1, <2>2 DEF Copy
  <1> QED BY <1>1, <1>2, <1>3

LEMMA BeginChangeType ==
  ASSUME TypeOK, NEW m \in Ids, NEW e \in Nat, BeginChange(m, e), e <= entries',
         entries' \in Nat, entries <= entries', made' = made, now' = now
  PROVE  /\ providers' \in [Ids -> 0..entries']
         /\ epoch' \in Nat
         /\ change' \in [id : Ids \cup {None}, stage : {"none", "cache", "locks"}]
         /\ change'.id = None <=> change'.stage = "none"
         /\ Request \subseteq Request' /\ Dataset \subseteq Dataset' /\ Copy \subseteq Copy'
  <1>1. epoch' \in Nat /\ epoch <= epoch'
    BY DEF BeginChange, TypeOK
  <1>2. Request \subseteq Request' /\ Dataset \subseteq Dataset' /\ Copy \subseteq Copy'
    BY <1>1, RecordsGrow DEF TypeOK
  <1>3. providers \in [Ids -> 0..entries'] /\ e \in 0..entries'
    BY DEF TypeOK
  <1> QED
    BY <1>1, <1>2, <1>3, NoneAssumption DEF BeginChange, NoChange

LEMMA ProducerType == ASSUME TypeOK, Producer PROVE TypeOK'
  <1>1. ASSUME NEW m \in Ids, Register(m) PROVE TypeOK'
    <2>1. entries' = entries + 1 /\ entries \in Nat /\ made' = made /\ now' = now
      BY <1>1 DEF TypeOK, Register, store
    <2>2. newest' \in [Ids -> 0..now]
      BY <1>1 DEF TypeOK, Register
    <2> QED
      BY <1>1, <2>1, <2>2, BeginChangeType DEF TypeOK, Register, store, requests
  <1>2. ASSUME NEW m \in Ids, Unregister(m) PROVE TypeOK'
    <2>1. entries' = entries /\ entries \in Nat /\ made' = made /\ now' = now
      BY <1>2 DEF TypeOK, Unregister, store
    <2> QED
      BY <1>2, <2>1, BeginChangeType
         DEF TypeOK, Unregister, store, requests, NoEntry
  <1>3. CASE DropCache
    <2>1. cache' \in [Ids -> Copy]
      BY <1>3 DEF TypeOK, DropCache, Copy, NotCached, NoEntry
    <2>2. /\ change' \in [id : Ids \cup {None}, stage : {"none", "cache", "locks"}]
          /\ change'.id = None <=> change'.stage = "none"
      BY <1>3 DEF TypeOK, DropCache
    <2> QED
      BY <1>3, <2>1, <2>2 DEF TypeOK, DropCache, requests, Request, Dataset, Copy
  <1>4. CASE DropLock
    BY <1>4 DEF TypeOK, DropLock, requests, Request, Dataset, Copy, NoLock, NoChange
  <1> QED
    BY <1>1, <1>2, <1>3, <1>4 DEF Producer

LEMMA AdmitType ==
  ASSUME TypeOK, NEW c \in Connections, NEW m \in Ids, NEW kind \in Kinds,
         Admit(c, m, kind)
  PROVE  TypeOK'
  <1> DEFINE r == [kind |-> kind, id |-> m, entry |-> providers[m],
                   epoch |-> epoch, lock |-> NoLock,
                   floor |-> IF kind = "get_data" THEN now ELSE newest[m]]
  <1>1. r \in Request
    BY DEF TypeOK, Request, NoLock
  <1>2. req' = [req EXCEPT ![c] = r]
    BY DEF Admit
  <1>3. req' \in [Connections -> Request]
    BY <1>1, <1>2 DEF TypeOK
  <1>4. pc' \in [Connections -> Places] /\ loop' \in Connections \cup {None}
    BY DEF TypeOK, Admit, Places
  <1> QED
    BY <1>3, <1>4 DEF TypeOK, Admit, tables, store, Request, Dataset, Copy

LEMMA BindType ==
  ASSUME TypeOK, RequestShape, NEW c \in Connections, Bind(c) PROVE TypeOK'
  <1> DEFINE l == IF locks[req[c].id] = NoLock THEN made + 1 ELSE locks[req[c].id]
  <1>1. /\ made' \in Nat /\ made <= made'
        /\ tables' = tables /\ cache' = cache /\ dataset' = dataset
        /\ newest' = newest /\ now' = now
        /\ loop' \in Connections \cup {None}
        /\ pc' \in [Connections -> Places]
        /\ ahead' \in [Connections -> SUBSET Connections]
    BY DEF TypeOK, Bind, Places, Queued
  <1>2. l \in 0..made' /\ locks' \in [Ids -> 0..made']
    <2>1. req[c].id \in Ids
      BY DEF RequestShape, Asking, Bind
    <2>2. made' = IF locks[req[c].id] = NoLock THEN made + 1 ELSE made
      BY DEF Bind
    <2>3. l \in 0..made'
      BY <2>1, <2>2 DEF TypeOK, NoLock
    <2>4. locks' = [locks EXCEPT ![req[c].id] = l]
      BY DEF Bind
    <2>5. locks \in [Ids -> 0..made']
      BY <2>2 DEF TypeOK
    <2> QED BY <2>3, <2>4, <2>5
  <1>3. Request \subseteq Request' /\ Dataset \subseteq Dataset' /\ Copy \subseteq Copy'
    BY <1>1, RecordsGrow DEF TypeOK, tables
  <1>4. req' = [req EXCEPT ![c] = [req[c] EXCEPT !.lock = l]]
    BY DEF Bind
  <1>5. req[c] \in Request' /\ req \in [Connections -> Request']
    BY <1>3 DEF TypeOK
  <1>6. [req[c] EXCEPT !.lock = l] \in Request'
    BY <1>5, <1>2 DEF Request
  <1> QED
    BY <1>1, <1>2, <1>3, <1>4, <1>5, <1>6 DEF TypeOK, tables

(* What the helpers that end a request do to the requests. *)
LEMMA RespondType ==
  ASSUME TypeOK, NEW c \in Connections, NEW d \in Dataset, Respond(c, d)
  PROVE  /\ pc' \in [Connections -> Places]
         /\ req' \in [Connections -> Request]
         /\ dataset' \in [Connections -> Dataset]
         /\ newest' \in [Ids -> 0..now]
  <1>1. req' \in [Connections -> Request]
    <2>1. [req[c] EXCEPT !.lock = NoLock] \in Request
      BY DEF TypeOK, Request, NoLock
    <2>2. req' = [req EXCEPT ![c] = [req[c] EXCEPT !.lock = NoLock]]
      BY DEF Respond
    <2> QED BY <2>1, <2>2 DEF TypeOK
  <1>2. newest' \in [Ids -> 0..now]
    <2>1. d.at \in 0..now
      BY DEF Dataset, TypeOK
    <2>2. newest' \in {newest, [newest EXCEPT ![req[c].id] = d.at]}
      BY DEF Respond
    <2> QED BY <2>1, <2>2 DEF TypeOK
  <1>3. pc' \in [Connections -> Places] /\ dataset' \in [Connections -> Dataset]
    BY DEF TypeOK, Respond, Places
  <1> QED BY <1>1, <1>2, <1>3

LEMMA RefuseType ==
  ASSUME TypeOK, NEW c \in Connections, Refuse(c)
  PROVE  /\ pc' \in [Connections -> Places]
         /\ req' \in [Connections -> Request]
         /\ dataset' \in [Connections -> Dataset]
         /\ newest' \in [Ids -> 0..now]
  <1>1. NotAsked \in Request
    BY DEF TypeOK, Request, NotAsked, NoEntry, NoLock
  <1> QED
    BY <1>1 DEF TypeOK, Refuse, Places, Dataset, NoDataset, NoEntry

LEMMA HandOverType ==
  ASSUME TypeOK, NEW c \in Connections, NEW d \in Dataset, HandOver(c, d)
  PROVE  /\ pc' \in [Connections -> Places]
         /\ req' \in [Connections -> Request]
         /\ ahead' \in [Connections -> SUBSET Connections]
         /\ dataset' \in [Connections -> Dataset]
         /\ newest' \in [Ids -> 0..now]
  <1>1. ahead' \in [Connections -> SUBSET Connections]
    BY DEF TypeOK, HandOver, LeaveQueue
  <1>2. CASE req[c].kind = "get_rows"
    <2>1. [req[c] EXCEPT !.lock = NoLock] \in Request
      BY DEF TypeOK, Request, NoLock
    <2>2. req' = [req EXCEPT ![c] = [req[c] EXCEPT !.lock = NoLock]]
      BY <1>2 DEF HandOver
    <2>3. req' \in [Connections -> Request]
      BY <2>1, <2>2 DEF TypeOK
    <2> QED
      BY <1>1, <1>2, <2>3 DEF TypeOK, HandOver, Places
  <1>3. CASE req[c].kind = "get_snapshot"
    BY <1>1, <1>3, RespondType DEF HandOver
  <1> QED BY <1>2, <1>3 DEF HandOver

LEMMA LookUpType ==
  ASSUME TypeOK, RequestShape, NEW c \in Connections, LookUp(c) PROVE TypeOK'
  <1> DEFINE copy == cache[req[c].id]
  <1>1. req[c].id \in Ids
    BY DEF RequestShape, Asking, LookUp
  <1>2. [entry |-> copy.entry, at |-> copy.at] \in Dataset
    BY <1>1 DEF TypeOK, Copy, Dataset
  <1>3. UNCHANGED <<tables, store, now>> /\ loop' = None
    BY DEF LookUp
  <1>4. CASE Reusable(c, copy)
    BY <1>2, <1>3, <1>4, HandOverType
       DEF LookUp, TypeOK, tables, store, Request, Dataset, Copy
  <1>5. CASE ~Reusable(c, copy)
    BY <1>3, <1>5 DEF LookUp, TypeOK, tables, store, Request, Dataset, Copy, Places
  <1> QED BY <1>4, <1>5

LEMMA WorkType ==
  ASSUME TypeOK, NEW c \in Connections, Work(c) PROVE TypeOK'
  <1>1. [entry |-> req[c].entry, at |-> now] \in Dataset
    BY DEF TypeOK, Request, Dataset
  <1>2. pc' \in [Connections -> Places] /\ dataset' \in [Connections -> Dataset]
    BY <1>1 DEF Work, OpenProvider, BreakProvider, TypeOK, Places
  <1> QED
    BY <1>2 DEF Work, OpenProvider, BreakProvider, TypeOK, tables, store,
                Request, Dataset, Copy

LEMMA FinishBuildType ==
  ASSUME TypeOK, RequestShape, NEW c \in Connections, FinishBuild(c) PROVE TypeOK'
  <1> DEFINE y == [entry |-> dataset[c].entry, at |-> dataset[c].at,
                   created |-> now, epoch |-> req[c].epoch]
  <1>1. dataset[c] \in Dataset
    BY DEF TypeOK
  <1>2. y \in Copy
    BY DEF TypeOK, Copy, Dataset, Request
  <1>3. cache' \in {cache, [cache EXCEPT ![req[c].id] = y]}
    BY DEF FinishBuild
  <1>4. cache' \in [Ids -> Copy]
    BY <1>2, <1>3 DEF TypeOK
  <1>5. HandOver(c, dataset[c]) /\ UNCHANGED <<tables, locks, made, loop, now>>
    BY DEF FinishBuild
  <1> QED
    BY <1>1, <1>4, <1>5, HandOverType DEF TypeOK, tables, Request, Dataset, Copy

LEMMA ResumeType ==
  ASSUME TypeOK, RequestShape, NEW c \in Connections, Resume(c) PROVE TypeOK'
  <1> USE DEF tables, store, Request, Dataset, Copy
  <1>1. CASE Wake(c)
    BY <1>1 DEF TypeOK, Wake, Places
  <1>2. CASE FinishBuild(c)
    BY <1>2, FinishBuildType
  <1>3. CASE FailBuild(c)
    BY <1>3, RefuseType DEF TypeOK, FailBuild, LeaveQueue
  <1>4. CASE FinishFetch(c)
    BY <1>4, RespondType DEF TypeOK, FinishFetch
  <1>5. CASE FailFetch(c)
    BY <1>5, RefuseType DEF TypeOK, FailFetch
  <1>6. CASE Send(c)
    <2>1. NotAsked \in Request
      BY DEF TypeOK, Request, NotAsked, NoEntry, NoLock
    <2> QED
      BY <1>6, <2>1 DEF TypeOK, Send, Places, NoDataset, NoEntry
  <1> QED BY <1>1, <1>2, <1>3, <1>4, <1>5, <1>6 DEF Resume

LEMMA NextType == ASSUME TypeOK, RequestShape, [Next]_vars PROVE TypeOK'
  <1>1. CASE Producer
    BY <1>1, ProducerType
  <1>2. ASSUME NEW c \in Connections, NEW m \in Ids, NotFound(c, m) PROVE TypeOK'
    BY <1>2 DEF TypeOK, NotFound, tables, store, Places, Request, Dataset, Copy
  <1>3. ASSUME NEW c \in Connections, Continue(c) PROVE TypeOK'
    BY <1>3, BindType, LookUpType DEF Continue
  <1>4. CASE Tick
    <2>1. Request \subseteq Request' /\ Dataset \subseteq Dataset' /\ Copy \subseteq Copy'
      BY <1>4, RecordsGrow DEF Tick, TypeOK, tables, store
    <2>2. newest' \in [Ids -> 0..now'] /\ now' \in Nat
      BY <1>4 DEF Tick, TypeOK
    <2> QED
      BY <1>4, <2>1, <2>2 DEF Tick, TypeOK, tables, store, requests
  <1>5. CASE UNCHANGED vars
    BY <1>5 DEF TypeOK, vars, Request, Dataset, Copy
  <1> QED
    BY <1>1, <1>2, <1>3, <1>4, <1>5, AdmitType, ResumeType, WorkType DEF Next, Arrive

----------------------------------------------------------------------------
(* The safety invariant.  Each lemma below takes one action; its first step *)
(* says what the action does, in the terms the invariant needs.             *)

LEMMA InitSafe == Init => SafetyInvariant
  BY InitType, NoneAssumption
     DEF Init, SafetyInvariant, RequestShape, EpochNamesEntry, LockQueue,
         LockOfCurrent, CacheIsCurrent, Asking, Inside, Locked, Current, Cached,
         NoLock, NotCached, NotAsked

Rest == RequestShape /\ EpochNamesEntry /\ LockQueue /\ LockOfCurrent /\ CacheIsCurrent

(* A new epoch is one nobody remembers, and a new provider likewise. *)
LEMMA BeginChangeSafe ==
  ASSUME SafetyInvariant, NEW m \in Ids, NEW e \in Nat, BeginChange(m, e),
         e = NoEntry \/ e = entries + 1, entries' \in Nat, entries <= entries',
         UNCHANGED <<store, loop, requests>>
  PROVE  Rest'
  <1> USE DEF SafetyInvariant, TypeOK, NoEntry
  <1>1. /\ change = NoChange /\ change' = [id |-> m, stage |-> "cache"]
        /\ epoch' = epoch + 1 /\ epoch \in Nat
        /\ providers' = [providers EXCEPT ![m] = e] /\ entries \in Nat
        /\ cache' = cache /\ locks' = locks /\ loop' = loop /\ pc' = pc
        /\ req' = req /\ ahead' = ahead /\ dataset' = dataset
    BY DEF BeginChange, store, requests
  <1>2. RequestShape'
    BY <1>1 DEF RequestShape, Asking, Inside, Locked
  <1>3. ASSUME NEW c \in Connections, Asking(c), req[c].id = m PROVE ~Current(c)'
    BY <1>1, <1>3 DEF RequestShape, Current, Asking
  <1>4. ASSUME NEW c \in Connections, Asking(c), Current(c)'
        PROVE  req[c].id # m /\ Current(c)
    BY <1>1, <1>3, <1>4 DEF RequestShape, Current, Asking
  <1>5. EpochNamesEntry'
    BY <1>1, <1>3 DEF EpochNamesEntry, RequestShape, Asking, Current, Cached, Request, Copy
  <1>6. LockQueue' /\ LockOfCurrent'
    BY <1>1, <1>4 DEF LockQueue, LockOfCurrent, Asking, Inside, Locked, Current
  <1>7. CacheIsCurrent'
    BY <1>1 DEF CacheIsCurrent, NoChange
  <1> QED BY <1>2, <1>5, <1>6, <1>7 DEF Rest

LEMMA ProducerSafe == ASSUME SafetyInvariant, Producer PROVE Rest'
  <1> USE DEF SafetyInvariant
  <1>1. ASSUME NEW m \in Ids, Register(m) PROVE Rest'
    <2>1. entries + 1 \in Nat /\ entries <= entries + 1
      BY DEF TypeOK
    <2> QED BY <1>1, <2>1, BeginChangeSafe DEF Register
  <1>2. ASSUME NEW m \in Ids, Unregister(m) PROVE Rest'
    BY <1>2, BeginChangeSafe DEF Unregister, TypeOK, NoEntry
  <1>3. CASE DropCache
    <2>1. /\ change.id \in Ids /\ change.stage = "cache"
          /\ cache' = [cache EXCEPT ![change.id] = NotCached]
          /\ change' = [id |-> change.id, stage |-> "locks"]
          /\ UNCHANGED <<providers, entries, epoch, locks, made, loop, requests>>
      BY <1>3 DEF DropCache, TypeOK
    <2>2. RequestShape' /\ LockQueue' /\ LockOfCurrent'
      BY <2>1 DEF RequestShape, LockQueue, LockOfCurrent, Asking, Inside, Locked,
                  Current, requests
    <2>3. EpochNamesEntry'
      BY <2>1 DEF EpochNamesEntry, RequestShape, Asking, Current, Cached, requests, TypeOK
    <2>4. CacheIsCurrent'
      BY <2>1 DEF CacheIsCurrent, TypeOK
    <2> QED BY <2>2, <2>3, <2>4 DEF Rest
  <1>4. CASE DropLock
    <2>1. /\ change.id \in Ids /\ change.stage = "locks"
          /\ locks' = [locks EXCEPT ![change.id] = NoLock]
          /\ change' = NoChange
          /\ UNCHANGED <<providers, entries, epoch, cache, made, loop, requests>>
      BY <1>4 DEF DropLock, TypeOK
    <2>2. RequestShape' /\ LockQueue'
      BY <2>1 DEF RequestShape, LockQueue, Asking, Inside, Locked, requests
    <2>3. EpochNamesEntry'
      BY <2>1, NoneAssumption
         DEF EpochNamesEntry, RequestShape, Asking, Current, Cached, requests, NoChange
    <2>4. LockOfCurrent'
      BY <2>1 DEF LockOfCurrent, EpochNamesEntry, RequestShape, Asking, Current, Locked,
                  Inside, requests, TypeOK
    <2>5. CacheIsCurrent'
      BY <2>1 DEF CacheIsCurrent
    <2> QED BY <2>2, <2>3, <2>4, <2>5 DEF Rest
  <1> QED BY <1>1, <1>2, <1>3, <1>4 DEF Producer

LEMMA AdmitSafe ==
  ASSUME SafetyInvariant, NEW c \in Connections, NEW m \in Ids, NEW kind \in Kinds,
         Admit(c, m, kind)
  PROVE  Rest'
  <1> USE DEF SafetyInvariant, TypeOK
  <1>1. /\ loop = None /\ change = NoChange /\ pc[c] = "idle" /\ req[c] = NotAsked
        /\ providers[m] # NoEntry /\ providers[m] \in 1..entries
        /\ pc' = [pc EXCEPT ![c] = IF kind = "get_data" THEN "fetching" ELSE "admitted"]
        /\ loop' = IF kind = "get_data" THEN None ELSE c
        /\ UNCHANGED <<providers, entries, epoch, change, cache, locks, ahead, dataset>>
    BY DEF Admit, LoopFree, tables, store, RequestShape, Asking, NoEntry
  <1>2. /\ req'[c].id = m /\ req'[c].entry = providers[m] /\ req'[c].epoch = epoch
        /\ req'[c].lock = NoLock
        /\ \A d \in Connections : d # c => req'[d] = req[d]
    BY DEF Admit
  <1>3. RequestShape'
    BY <1>1, <1>2, NoneAssumption DEF RequestShape, Asking, Inside, Locked
  <1>4. EpochNamesEntry'
    BY <1>1, <1>2, NoneAssumption
       DEF EpochNamesEntry, Asking, Current, Cached, NoChange, RequestShape
  <1>5. LockQueue'
    BY <1>1, <1>2 DEF LockQueue, Inside, Locked, NotAsked, NoLock, RequestShape, Asking
  <1>6. LockOfCurrent' /\ CacheIsCurrent'
    BY <1>1, <1>2 DEF LockOfCurrent, CacheIsCurrent, Inside, Locked, Current
  <1> QED BY <1>3, <1>4, <1>5, <1>6 DEF Rest

LEMMA BindSafe ==
  ASSUME SafetyInvariant, NEW c \in Connections, Bind(c) PROVE Rest'
  <1> USE DEF SafetyInvariant, TypeOK
  <1> DEFINE m == req[c].id
             l == IF locks[m] = NoLock THEN made + 1 ELSE locks[m]
  <1>1. /\ m \in Ids /\ loop = c /\ pc[c] = "admitted" /\ req[c].lock = NoLock
        /\ \A d \in Connections : d # c => pc[d] # "admitted"
    BY DEF Bind, RequestShape, Asking, Locked, Inside
  <1>2. /\ l # NoLock
        /\ locks' = [locks EXCEPT ![m] = l]
        /\ ahead' = [ahead EXCEPT ![c] = Queued(l)]
        /\ pc' = [pc EXCEPT ![c] = IF Queued(l) = {} THEN "holding" ELSE "waiting"]
        /\ loop' = IF Queued(l) = {} THEN c ELSE None
        /\ UNCHANGED <<providers, entries, epoch, change, cache, dataset>>
    BY <1>1 DEF Bind, tables, NoLock
  <1>3. /\ req'[c].id = m /\ req'[c].entry = req[c].entry /\ req'[c].lock = l
        /\ req'[c].epoch = req[c].epoch
        /\ \A d \in Connections : d # c => req'[d] = req[d]
    BY DEF Bind, Request
  <1>4. \A d \in Connections : d \in Queued(l) <=> d # c /\ req[d].lock = l
    BY <1>1, <1>2 DEF Queued
  <1>5. RequestShape'
    BY <1>1, <1>2, <1>3, NoneAssumption DEF RequestShape, Asking, Inside, Locked
  <1>6. EpochNamesEntry'
    BY <1>1, <1>2, <1>3 DEF EpochNamesEntry, Asking, Current, Cached
  <1>7. LockQueue'
    <2>1. \A d \in Connections : c \notin ahead[d]
      BY <1>1 DEF LockQueue, RequestShape, Asking, Locked, Inside
    <2>2. \A d \in Connections : d # c => ahead'[d] = ahead[d] /\ pc'[d] = pc[d]
      BY <1>2
    <2>3. ahead'[c] = Queued(l) /\ Queued(l) \subseteq Connections
      BY <1>2 DEF Queued
    <2>4. pc'[c] = IF Queued(l) = {} THEN "holding" ELSE "waiting"
      BY <1>2
    <2> QED
      BY <1>1, <1>2, <1>3, <1>4, <2>1, <2>2, <2>3, <2>4 DEF LockQueue, Inside, Locked
  <1>8. LockOfCurrent'
    <2> SUFFICES ASSUME NEW d \in Connections, Locked(d)', Current(d)'
                 PROVE  req'[d].lock = locks'[req'[d].id]
      BY DEF LockOfCurrent
    <2>1. CASE d = c
      BY <2>1, <1>1, <1>2, <1>3
    <2>2. CASE d # c
      <3>1. Locked(d) /\ Current(d) /\ req'[d] = req[d] /\ req[d].lock # NoLock
        BY <2>2, <1>2, <1>3 DEF Locked, Inside, Current, RequestShape
      <3>2. req[d].lock = locks[req[d].id]
        BY <3>1 DEF LockOfCurrent
      <3> QED BY <3>1, <3>2, <1>1, <1>2
    <2> QED BY <2>1, <2>2
  <1>9. CacheIsCurrent'
    BY <1>2 DEF CacheIsCurrent
  <1> QED BY <1>5, <1>6, <1>7, <1>8, <1>9 DEF Rest

(* A request that moves on with its lock and its queue as they are. *)
LEMMA MoveSafe ==
  ASSUME SafetyInvariant, NEW c \in Connections,
         UNCHANGED <<tables, store, req, ahead>>,
         \A d \in Connections : d # c => pc'[d] = pc[d] /\ dataset'[d] = dataset[d],
         Asking(c), Asking(c)', Locked(c)' = Locked(c),
         Inside(c)' => ahead[c] = {},
         loop' = c <=> pc'[c] \in {"admitted", "holding"},
         \A d \in Connections : d # c => (loop' = d <=> loop = d),
         pc'[c] \in {"built", "slicing", "fetched", "answered"}
            => dataset'[c].entry = req[c].entry
  PROVE  Rest'
  <1> USE DEF SafetyInvariant, tables, store
  <1>1. RequestShape'
    BY DEF RequestShape, Asking, Inside, Locked
  <1>2. EpochNamesEntry' 
    BY DEF EpochNamesEntry, Asking, Current, Cached
  <1>3. LockQueue'
    BY DEF LockQueue, Inside, Locked
  <1>4. LockOfCurrent' /\ CacheIsCurrent'
    BY DEF LockOfCurrent, CacheIsCurrent, Current, Locked, Inside
  <1> QED BY <1>1, <1>2, <1>3, <1>4 DEF Rest

(* A request that gives its lock up, or has none, and leaves the tables and *)
(* the cache as they are or writes its own provider's data to the cache.    *)
LEMMA LeaveSafe ==
  ASSUME SafetyInvariant, NEW c \in Connections, Asking(c),
         UNCHANGED <<tables, locks>>,
         \/ cache' = cache
         \/ /\ epoch = req[c].epoch /\ Current(c) /\ change = NoChange
            /\ \E y \in Copy : /\ y.entry = req[c].entry /\ y.epoch = epoch
                               /\ cache' = [cache EXCEPT ![req[c].id] = y],
         \A d \in Connections : d # c => /\ pc'[d] = pc[d] /\ dataset'[d] = dataset[d]
                                         /\ req'[d] = req[d],
         LeaveQueue(c),
         pc'[c] \in {"slicing", "answered", "refused", "idle"},
         Asking(c)' => /\ req'[c].id = req[c].id /\ req'[c].entry = req[c].entry
                       /\ req'[c].epoch = req[c].epoch /\ req'[c].lock = NoLock
                       /\ dataset'[c].entry = req[c].entry,
         ~Asking(c)' => req'[c] = NotAsked,
         loop' = None, loop \in {None, c}
  PROVE  Rest'
  <1> USE DEF SafetyInvariant, tables
  <1>1. RequestShape'
    BY NoneAssumption DEF RequestShape, Asking, Inside, Locked, NotAsked, NoLock
  <1>2. EpochNamesEntry'
    <2>1. CASE cache' = cache
      BY <2>1 DEF EpochNamesEntry, Asking, Current, Cached
    <2>2. ASSUME epoch = req[c].epoch, Current(c), change = NoChange,
                 NEW y \in Copy, y.entry = req[c].entry, y.epoch = epoch,
                 cache' = [cache EXCEPT ![req[c].id] = y]
          PROVE  EpochNamesEntry'
      BY <2>2, NoneAssumption
         DEF EpochNamesEntry, Asking, Current, Cached, RequestShape, TypeOK, NoChange, NotCached
    <2> QED BY <2>1, <2>2
  <1>3. LockQueue'
    <2>1. ahead'[c] = {} /\ \A d \in Connections : d # c => ahead'[d] = ahead[d] \ {c}
      BY DEF LeaveQueue
    <2>2. req'[c].lock = NoLock
      BY DEF NotAsked
    <2> QED BY <2>1, <2>2 DEF LockQueue, Inside, Locked
  <1>4. LockOfCurrent'
    BY DEF LockOfCurrent, Current, Locked, Inside
  <1>5. CacheIsCurrent'
    BY DEF CacheIsCurrent, Current, RequestShape, TypeOK
  <1> QED BY <1>1, <1>2, <1>3, <1>4, <1>5 DEF Rest

LEMMA HandOverSafe ==
  ASSUME SafetyInvariant, NEW c \in Connections, NEW d \in Dataset, HandOver(c, d),
         Inside(c), d.entry = req[c].entry, UNCHANGED <<tables, locks>>,
         \/ cache' = cache
         \/ /\ epoch = req[c].epoch /\ Current(c) /\ change = NoChange
            /\ \E y \in Copy : /\ y.entry = req[c].entry /\ y.epoch = epoch
                               /\ cache' = [cache EXCEPT ![req[c].id] = y],
         loop' = None, loop \in {None, c}
  PROVE  Rest'
  <1> USE DEF SafetyInvariant, TypeOK
  <1>1. LeaveQueue(c)
    BY DEF HandOver
  <1>2. /\ pc'[c] \in {"slicing", "answered"} /\ dataset'[c] = d
        /\ req'[c].id = req[c].id /\ req'[c].entry = req[c].entry
        /\ req'[c].epoch = req[c].epoch /\ req'[c].lock = NoLock
    BY DEF HandOver, Respond, Request
  <1>3. \A e \in Connections : e # c => /\ pc'[e] = pc[e] /\ dataset'[e] = dataset[e]
                                        /\ req'[e] = req[e]
    BY DEF HandOver, Respond
  <1> QED
    BY <1>1, <1>2, <1>3, LeaveSafe DEF Asking, Inside

LEMMA ContinueSafe ==
  ASSUME SafetyInvariant, NEW c \in Connections, Continue(c) PROVE Rest'
  <1>1. CASE LookUp(c)
    <2> DEFINE copy == cache[req[c].id]
    <2>1. /\ loop = c /\ pc[c] = "holding" /\ req[c].id \in Ids /\ loop' = None
          /\ UNCHANGED <<tables, store>>
      BY <1>1 DEF LookUp, SafetyInvariant, RequestShape, Asking
    <2>2. CASE Reusable(c, copy)
      <3>1. copy.entry = req[c].entry
        BY <2>1, <2>2 DEF Reusable, SafetyInvariant, EpochNamesEntry, Asking, Cached, NotCached
      <3>2. [entry |-> copy.entry, at |-> copy.at] \in Dataset
        BY <2>1 DEF SafetyInvariant, TypeOK, Copy, Dataset
      <3>3. HandOver(c, [entry |-> copy.entry, at |-> copy.at])
        BY <1>1, <2>2 DEF LookUp
      <3> QED BY <2>1, <3>1, <3>2, <3>3, HandOverSafe DEF Inside, store
    <2>3. CASE ~Reusable(c, copy)
      <3>1. pc' = [pc EXCEPT ![c] = "building"] /\ UNCHANGED <<req, ahead, dataset>>
        BY <1>1, <2>3 DEF LookUp
      <3>2. ahead[c] = {}
        BY <2>1 DEF SafetyInvariant, LockQueue, Inside
      <3>3. /\ pc'[c] = "building"
            /\ \A d \in Connections : d # c => pc'[d] = pc[d]
        BY <3>1 DEF SafetyInvariant, TypeOK
      <3> QED
        BY <2>1, <3>1, <3>2, <3>3, MoveSafe, NoneAssumption DEF Asking, Locked, Inside
    <2> QED BY <2>2, <2>3
  <1>2. CASE Bind(c)
    BY <1>2, BindSafe
  <1> QED BY <1>1, <1>2 DEF Continue

LEMMA WorkSafe ==
  ASSUME SafetyInvariant, NEW c \in Connections, Work(c) PROVE Rest'
  <1> USE DEF SafetyInvariant, TypeOK
  <1>1. /\ UNCHANGED <<tables, store, req, ahead, loop>>
        /\ \A d \in Connections : d # c => pc'[d] = pc[d] /\ dataset'[d] = dataset[d]
    BY DEF Work, OpenProvider, BreakProvider
  <1>2. \/ pc[c] = "building" /\ pc'[c] \in {"built", "broken"}
        \/ pc[c] = "fetching" /\ pc'[c] \in {"fetched", "failed"}
    BY DEF Work, OpenProvider, BreakProvider
  <1>3. pc'[c] \in {"built", "fetched"} => dataset'[c].entry = req[c].entry
    BY DEF Work, OpenProvider, BreakProvider
  <1>4. pc[c] = "building" => ahead[c] = {}
    BY DEF LockQueue, Inside
  <1>5. loop # c
    BY <1>2 DEF RequestShape
  <1> QED
    BY <1>1, <1>2, <1>3, <1>4, <1>5, MoveSafe DEF Asking, Locked, Inside

LEMMA FinishBuildSafe ==
  ASSUME SafetyInvariant, NEW c \in Connections, FinishBuild(c) PROVE Rest'
  <1> DEFINE y == [entry |-> dataset[c].entry, at |-> dataset[c].at,
                   created |-> now, epoch |-> req[c].epoch]
  <1>1. /\ pc[c] = "built" /\ change = NoChange /\ loop = None /\ loop' = None
        /\ HandOver(c, dataset[c]) /\ UNCHANGED <<tables, locks>>
    BY DEF FinishBuild, LoopFree
  <1>2. dataset[c] \in Dataset /\ dataset[c].entry = req[c].entry
    BY <1>1 DEF SafetyInvariant, TypeOK, RequestShape
  <1>3. y \in Copy /\ y.entry = req[c].entry /\ y.epoch = req[c].epoch
    BY <1>2 DEF SafetyInvariant, TypeOK, Copy, Dataset, Request
  <1>4. \/ cache' = cache
        \/ /\ epoch = req[c].epoch /\ Current(c)
           /\ cache' = [cache EXCEPT ![req[c].id] = y]
    BY DEF FinishBuild, Current
  <1> QED
    BY <1>1, <1>2, <1>3, <1>4, HandOverSafe DEF Inside

LEMMA ResumeSafe ==
  ASSUME SafetyInvariant, NEW c \in Connections, Resume(c) PROVE Rest'
  <1>1. CASE Wake(c)
    <2>1. /\ pc[c] = "waiting" /\ loop = None /\ loop' = c /\ ahead[c] = {}
          /\ UNCHANGED <<tables, store, req, ahead, dataset>>
          /\ pc' = [pc EXCEPT ![c] = "holding"]
      BY <1>1 DEF Wake, LoopFree
    <2>2. pc'[c] = "holding" /\ \A d \in Connections : d # c => pc'[d] = pc[d]
      BY <2>1 DEF SafetyInvariant, TypeOK
    <2> QED
      BY <2>1, <2>2, NoneAssumption, MoveSafe DEF Asking, Locked, Inside
  <1>2. CASE FinishBuild(c)
    BY <1>2, FinishBuildSafe
  <1>3. CASE FailBuild(c)
    <2>1. /\ Asking(c) /\ pc'[c] = "refused" /\ req'[c] = NotAsked
          /\ LeaveQueue(c) /\ loop = None /\ loop' = None
          /\ UNCHANGED <<tables, store>>
          /\ \A d \in Connections : d # c => /\ pc'[d] = pc[d] /\ req'[d] = req[d]
                                             /\ dataset'[d] = dataset[d]
      BY <1>3 DEF FailBuild, Refuse, LoopFree, Asking, SafetyInvariant, TypeOK
    <2> QED BY <2>1, LeaveSafe DEF Asking, store
  <1>4. CASE FinishFetch(c) \/ FailFetch(c) \/ Send(c)
    <2>1. /\ pc[c] \in {"fetched", "failed", "slicing", "answered", "refused"}
          /\ loop = None /\ loop' = None
          /\ ahead' = ahead /\ UNCHANGED <<tables, store>>
          /\ \A d \in Connections : d # c => /\ pc'[d] = pc[d] /\ req'[d] = req[d]
                                             /\ dataset'[d] = dataset[d]
      BY <1>4 DEF FinishFetch, FailFetch, Send, Refuse, Respond, LoopFree,
                  SafetyInvariant, TypeOK
    <2>2. req[c].lock = NoLock
      BY <2>1 DEF SafetyInvariant, RequestShape, Locked, Inside
    <2>3. LeaveQueue(c)
      <3>1. ahead[c] = {}
        BY <2>1 DEF SafetyInvariant, LockQueue, Locked, Inside
      <3>2. \A d \in Connections : d # c => c \notin ahead[d]
        BY <2>2 DEF SafetyInvariant, LockQueue, RequestShape, Locked, Inside
      <3>3. \A d \in Connections : ahead[d] = IF d = c THEN {} ELSE ahead[d] \ {c}
        BY <3>1, <3>2
      <3> QED BY <2>1, <3>3 DEF LeaveQueue, SafetyInvariant, TypeOK
    <2>4. CASE FinishFetch(c)
      <3>1. /\ pc[c] \in {"fetched", "slicing"} /\ pc'[c] = "answered"
            /\ dataset'[c] = dataset[c]
            /\ req'[c].id = req[c].id /\ req'[c].entry = req[c].entry
            /\ req'[c].epoch = req[c].epoch /\ req'[c].lock = NoLock
        BY <2>4 DEF FinishFetch, Respond, SafetyInvariant, TypeOK, Request
      <3>2. dataset[c].entry = req[c].entry
        BY <3>1 DEF SafetyInvariant, RequestShape
      <3> QED BY <2>1, <2>3, <3>1, <3>2, LeaveSafe DEF Asking, store
    <2>5. CASE FailFetch(c) \/ Send(c)
      <3>1. pc'[c] \in {"refused", "idle"} /\ req'[c] = NotAsked
        BY <2>5 DEF FailFetch, Send, Refuse, SafetyInvariant, TypeOK
      <3>2. CASE Asking(c)
        BY <2>1, <2>3, <3>1, <3>2, LeaveSafe DEF Asking, store
      <3>3. CASE ~Asking(c)
        <4>1. /\ pc[c] = "refused" /\ req' = req
          <5>1. req[c] = NotAsked /\ pc[c] = "refused"
            BY <2>1, <3>3 DEF SafetyInvariant, RequestShape, Asking
          <5> QED BY <2>5, <5>1 DEF FailFetch, Send, Refuse, SafetyInvariant, TypeOK
        <4> QED
          BY <2>1, <3>1, <4>1, <2>2, NoneAssumption
             DEF SafetyInvariant, tables, store, Rest, RequestShape, EpochNamesEntry,
                 LockQueue, LockOfCurrent, CacheIsCurrent, Asking, Inside, Locked,
                 Current, Cached
      <3> QED BY <3>2, <3>3
    <2> QED BY <1>4, <2>4, <2>5
  <1> QED BY <1>1, <1>2, <1>3, <1>4 DEF Resume

LEMMA NextSafe == ASSUME SafetyInvariant, [Next]_vars PROVE SafetyInvariant'
  <1>1. TypeOK'
    BY NextType DEF SafetyInvariant
  <1>2. Rest'
    <2>1. ASSUME NEW c \in Connections, NEW m \in Ids, NotFound(c, m) PROVE Rest'
      BY <2>1 DEF NotFound, SafetyInvariant, TypeOK, tables, store, Rest, RequestShape,
                  EpochNamesEntry, LockQueue, LockOfCurrent, CacheIsCurrent, Asking,
                  Inside, Locked, Current, Cached, LoopFree
    <2>2. CASE Tick \/ UNCHANGED vars
      BY <2>2 DEF Tick, vars, SafetyInvariant, tables, store, requests, Rest, RequestShape,
                  EpochNamesEntry, LockQueue, LockOfCurrent, CacheIsCurrent, Asking,
                  Inside, Locked, Current, Cached
    <2> QED
      BY <2>1, <2>2, ProducerSafe, AdmitSafe, ContinueSafe, ResumeSafe, WorkSafe
         DEF Next, Arrive
  <1> QED BY <1>1, <1>2 DEF SafetyInvariant, Rest

(* SafetyInvariant is inductive: it holds initially and every step of the   *)
(* server keeps it (server.py:125-188, 404-464, 577-671).                   *)
THEOREM SafetyInvariantHolds == Spec => []SafetyInvariant
  <1> QED BY InitSafe, NextSafe, PTL DEF Spec

(* The variables keep their types, whatever the producer threads, the       *)
(* connections and the workers do.                                          *)
THEOREM TypeCorrect == Spec => []TypeOK
  <1>1. SafetyInvariant => TypeOK
    BY DEF SafetyInvariant
  <1> QED BY <1>1, SafetyInvariantHolds, PTL

(* A cached snapshot is never that of a provider which has been replaced or *)
(* removed, once the invalidation that goes with it is done                 *)
(* (server.py:125-140, 448-463).                                            *)
THEOREM CacheCorrect == Spec => []CacheIsCurrent
  <1>1. SafetyInvariant => CacheIsCurrent
    BY DEF SafetyInvariant
  <1> QED BY <1>1, SafetyInvariantHolds, PTL

(* A response holds data of the provider its request was admitted with      *)
(* (server.py:404-464, 618-646).                                            *)
THEOREM AnswersCorrect == Spec => []AnswerIsOwn
  <1>1. SafetyInvariant => AnswerIsOwn
    BY DEF SafetyInvariant, RequestShape, AnswerIsOwn
  <1> QED BY <1>1, SafetyInvariantHolds, PTL

(* No two requests build a snapshot of the published provider at the same   *)
(* time (server.py:429-447).                                                *)
THEOREM BuildsExclusive == Spec => []CurrentBuildIsExclusive
  <1>1. ASSUME SafetyInvariant PROVE CurrentBuildIsExclusive
    <2> SUFFICES ASSUME NEW m \in Ids, NEW c \in Builders(m), NEW d \in Builders(m),
                        req[c].entry = providers[m], req[d].entry = providers[m],
                        c # d
                 PROVE  FALSE
      BY DEF CurrentBuildIsExclusive
    <2>1. /\ c \in Connections /\ d \in Connections /\ Inside(c) /\ Inside(d)
          /\ Current(c) /\ Current(d) /\ req[c].id = m /\ req[d].id = m
      BY DEF Builders, Inside, Current
    <2>2. req[c].lock = locks[m] /\ req[d].lock = locks[m] /\ req[c].lock # NoLock
      BY <1>1, <2>1 DEF SafetyInvariant, LockOfCurrent, RequestShape, Locked
    <2>3. ahead[c] = {} /\ ahead[d] = {}
      BY <1>1, <2>1 DEF SafetyInvariant, LockQueue
    <2> QED BY <1>1, <2>1, <2>2, <2>3 DEF SafetyInvariant, LockQueue
  <1> QED BY <1>1, SafetyInvariantHolds, PTL

----------------------------------------------------------------------------
(* SnapshotServer implements SnapshotService.  ServiceInvariant is          *)
(* inductive.                                                               *)

Fresh == KindsArePlaced /\ EpochsAreOrdered /\ NewestIsAtHand /\ FloorIsReached

LEMMA InitFresh == Init => Fresh
  BY NoneAssumption
     DEF Init, Fresh, KindsArePlaced, EpochsAreOrdered, NewestIsAtHand, FloorIsReached,
         Queueing, Locked, Inside, Cached, NotCached

(* What the types say of a request, of a copy and of a dataset. *)
LEMMA Typed ==
  ASSUME TypeOK
  PROVE  /\ epoch \in Nat /\ now \in Nat /\ entries \in Nat
         /\ \A c \in Connections :
               /\ req[c].epoch \in 0..epoch /\ req[c].floor \in 0..now
               /\ req[c].id \in Ids \cup {None}
               /\ dataset[c].at \in 0..now /\ dataset[c].entry \in 0..entries
         /\ \A m \in Ids :
               /\ cache[m].epoch \in 0..epoch /\ cache[m].at \in 0..now
               /\ newest[m] \in 0..now
  BY DEF TypeOK, Request, Dataset, Copy

LEMMA BeginChangeFresh ==
  ASSUME ServiceInvariant, NEW m \in Ids, NEW e \in Nat, BeginChange(m, e),
         e = NoEntry \/ e = entries + 1,
         newest' \in {newest, [newest EXCEPT ![m] = 0]},
         UNCHANGED <<store, requests, now>>
  PROVE  Fresh'
  <1> USE DEF ServiceInvariant, SafetyInvariant
  <1>1. /\ epoch' = epoch + 1 /\ providers' = [providers EXCEPT ![m] = e]
        /\ cache' = cache /\ pc' = pc /\ req' = req /\ ahead' = ahead
        /\ dataset' = dataset
    BY DEF BeginChange, store, requests
  <1>2. ASSUME NEW c \in Connections, Asking(c), Current(c)'
        PROVE  req[c].id # m /\ Current(c)
    BY <1>1, <1>2, Typed DEF RequestShape, Current, TypeOK, NoEntry
  <1>3. \A k \in Ids : k # m => newest'[k] = newest[k]
    BY DEF TypeOK
  <1>4. \A c \in Connections :
           Queueing(c) \/ pc[c] \in {"built", "slicing"} => Asking(c) /\ req[c].id \in Ids
    BY DEF Queueing, Locked, Inside, Asking, RequestShape
  <1>5. KindsArePlaced' /\ EpochsAreOrdered'
    BY <1>1, <1>2, <1>4
       DEF KindsArePlaced, EpochsAreOrdered, Queueing, Locked, Inside, Cached
  <1>6. NewestIsAtHand'
    <2>1. \A k \in Ids : ~(Cached(k)' /\ cache'[k].epoch = epoch')
      BY <1>1, Typed DEF Cached
    <2>2. ASSUME NEW c \in Connections, pc[c] = "built", Current(c)'
          PROVE  NothingNewer(req[c].id, dataset[c].at)'
      <3>1. Current(c) /\ req[c].id \in Ids /\ req[c].id # m
        BY <1>2, <1>4, <2>2
      <3>2. NothingNewer(req[c].id, dataset[c].at)
        BY <3>1, <2>2 DEF NewestIsAtHand
      <3> QED BY <1>1, <1>2, <1>3, <1>4, <3>1, <3>2 DEF NothingNewer
    <2> QED BY <1>1, <2>1, <2>2 DEF NewestIsAtHand
  <1>7. FloorIsReached'
    BY <1>1, <1>2, <1>3, <1>4
       DEF FloorIsReached, Queueing, Locked, Inside, Cached
  <1> QED BY <1>5, <1>6, <1>7 DEF Fresh

LEMMA ProducerFresh == ASSUME ServiceInvariant, Producer PROVE Fresh'
  <1> USE DEF ServiceInvariant, SafetyInvariant
  <1>1. ASSUME NEW m \in Ids, Register(m) PROVE Fresh'
    <2>1. entries + 1 \in Nat
      BY Typed
    <2> QED BY <1>1, <2>1, BeginChangeFresh DEF Register
  <1>2. ASSUME NEW m \in Ids, Unregister(m) PROVE Fresh'
    BY <1>2, BeginChangeFresh DEF Unregister, NoEntry
  <1>3. CASE DropCache
    <2>1. /\ cache' = [cache EXCEPT ![change.id] = NotCached]
          /\ UNCHANGED <<providers, epoch, pc, req, ahead, dataset, newest>>
      BY <1>3 DEF DropCache, requests
    <2>2. \A m \in Ids : Cached(m)' => Cached(m) /\ cache'[m] = cache[m]
      BY <2>1 DEF Cached, TypeOK
    <2>3. \A c \in Connections : Queueing(c) => req[c].id \in Ids
      BY DEF Queueing, Locked, Inside, Asking, RequestShape
    <2>4. KindsArePlaced' /\ EpochsAreOrdered'
      BY <2>1, <2>2, <2>3
         DEF KindsArePlaced, EpochsAreOrdered, Queueing, Locked, Inside, Current
    <2>5. NewestIsAtHand'
      BY <2>1, <2>2 DEF NewestIsAtHand, NothingNewer, Current
    <2>6. FloorIsReached'
      BY <2>1, <2>2, <2>3 DEF FloorIsReached, Queueing, Locked, Inside, Current
    <2> QED BY <2>4, <2>5, <2>6 DEF Fresh
  <1>4. CASE DropLock
    BY <1>4 DEF DropLock, requests, Fresh, KindsArePlaced, EpochsAreOrdered,
                NewestIsAtHand, FloorIsReached, NothingNewer, Queueing, Locked,
                Inside, Cached, Current
  <1> QED BY <1>1, <1>2, <1>3, <1>4 DEF Producer

LEMMA AdmitFresh ==
  ASSUME ServiceInvariant, NEW c \in Connections, NEW m \in Ids, NEW kind \in Kinds,
         Admit(c, m, kind)
  PROVE  Fresh'
  <1> USE DEF ServiceInvariant, SafetyInvariant
  <1>1. /\ pc[c] = "idle" /\ loop = None
        /\ UNCHANGED <<providers, epoch, cache, ahead, dataset, newest>>
    BY DEF Admit, LoopFree, tables, store
  <1>2. /\ req'[c].kind = kind /\ req'[c].id = m /\ req'[c].epoch = epoch
        /\ kind # "get_data" => req'[c].floor = newest[m]
        /\ pc'[c] = IF kind = "get_data" THEN "fetching" ELSE "admitted"
        /\ req'[c].entry = providers[m]
    BY DEF Admit, TypeOK
  <1>3. \A d \in Connections : d # c => pc'[d] = pc[d] /\ req'[d] = req[d]
    BY DEF Admit, TypeOK
  <1>4. \A d \in Connections : pc[d] # "admitted"
    BY <1>1, NoneAssumption DEF RequestShape
  <1>5. ahead[c] = {} /\ \A d \in Connections : c \notin ahead[d]
    BY <1>1 DEF LockQueue, RequestShape, Locked, Inside
  <1>6. KindsArePlaced'
    BY <1>2, <1>3 DEF KindsArePlaced, Queueing, Locked, Inside
  <1>7. EpochsAreOrdered'
    <2>1. \A d \in Connections : req'[d].epoch <= epoch
      BY <1>2, <1>3, Typed
    <2>2. Cached(m) => cache[m].epoch <= epoch
      BY Typed
    <2>3. \A d \in Connections : ahead[d] \subseteq Connections \ {c}
      BY <1>5 DEF TypeOK
    <2> QED
      BY <1>1, <1>2, <1>3, <1>4, <1>5, <2>1, <2>2, <2>3
         DEF EpochsAreOrdered, Queueing, Locked, Inside, Current, Cached
  <1>8. NewestIsAtHand'
    BY <1>1, <1>2, <1>3 DEF NewestIsAtHand, NothingNewer, Current, Cached
  <1>9. FloorIsReached'
    <2>1. Cached(m) /\ cache[m].epoch = epoch => newest[m] <= cache[m].at
      BY DEF NewestIsAtHand, NothingNewer
    <2>2. newest[m] <= newest[m]
      BY Typed
    <2> QED
      BY <1>1, <1>2, <1>3, <2>1, <2>2
         DEF FloorIsReached, Queueing, Locked, Inside, Current, Cached
  <1> QED BY <1>6, <1>7, <1>8, <1>9 DEF Fresh

LEMMA BindFresh ==
  ASSUME ServiceInvariant, NEW c \in Connections, Bind(c) PROVE Fresh'
  <1> USE DEF ServiceInvariant, SafetyInvariant
  <1>1. /\ pc[c] = "admitted" /\ pc'[c] \in {"holding", "waiting"}
        /\ UNCHANGED <<providers, epoch, cache, dataset, newest>>
    BY DEF Bind, TypeOK, tables
  <1>2. /\ req'[c].kind = req[c].kind /\ req'[c].id = req[c].id
        /\ req'[c].epoch = req[c].epoch /\ req'[c].floor = req[c].floor
        /\ req'[c].entry = req[c].entry
    BY DEF Bind, TypeOK, Request
  <1>3. /\ ahead'[c] \subseteq Connections
        /\ \A d \in Connections :
              d # c => pc'[d] = pc[d] /\ req'[d] = req[d] /\ ahead'[d] = ahead[d]
    BY DEF Bind, TypeOK, Queued
  <1>4. KindsArePlaced'
    BY <1>1, <1>2, <1>3 DEF KindsArePlaced, Queueing, Locked, Inside
  <1>5. EpochsAreOrdered'
    <2>1. \A d \in ahead'[c] : req'[d].epoch <= req'[c].epoch
      BY <1>1, <1>2, <1>3 DEF EpochsAreOrdered
    <2>2. \A d \in Connections : req'[d].epoch = req[d].epoch
      BY <1>2, <1>3
    <2>3. \A d \in Connections : ahead[d] \subseteq Connections
      BY DEF TypeOK
    <2> QED
      BY <1>1, <1>2, <1>3, <2>1, <2>2, <2>3
         DEF EpochsAreOrdered, Queueing, Locked, Inside, Current, Cached
  <1>6. NewestIsAtHand'
    BY <1>1, <1>2, <1>3 DEF NewestIsAtHand, NothingNewer, Current, Cached
  <1>7. FloorIsReached'
    BY <1>1, <1>2, <1>3 DEF FloorIsReached, Queueing, Locked, Inside, Current, Cached
  <1> QED BY <1>4, <1>5, <1>6, <1>7 DEF Fresh

(* A request that moves on without answering and without any new data. *)
LEMMA MoveFresh ==
  ASSUME ServiceInvariant, NEW c \in Connections,
         UNCHANGED <<providers, epoch, cache, req, ahead, newest>>,
         \A d \in Connections : d # c => pc'[d] = pc[d] /\ dataset'[d] = dataset[d],
         Queueing(c)' => Queueing(c),
         pc'[c] \in {"fetching", "fetched", "failed"}
            => pc[c] \in {"fetching", "fetched", "failed"},
         pc'[c] \notin {"admitted", "built", "slicing", "fetched"},
         pc'[c] \in {"waiting", "holding"} => pc[c] = "waiting"
  PROVE  Fresh'
  <1> USE DEF ServiceInvariant, SafetyInvariant
  <1>1. \A d \in Connections : Queueing(d)' => Queueing(d)
    BY DEF Queueing, Locked, Inside
  <1>2. KindsArePlaced'
    BY <1>1 DEF KindsArePlaced
  <1>3. EpochsAreOrdered'
    BY <1>1 DEF EpochsAreOrdered, Current, Cached
  <1>4. NewestIsAtHand'
    BY DEF NewestIsAtHand, NothingNewer, Current, Cached
  <1>5. FloorIsReached'
    BY <1>1 DEF FloorIsReached, Current, Cached
  <1> QED BY <1>2, <1>3, <1>4, <1>5 DEF Fresh

LEMMA WorkFresh ==
  ASSUME ServiceInvariant, NEW c \in Connections, Work(c) PROVE Fresh'
  <1> USE DEF ServiceInvariant, SafetyInvariant
  <1>1. UNCHANGED <<providers, epoch, cache, req, ahead, newest, now>>
    BY DEF Work, OpenProvider, BreakProvider, tables, store
  <1>2. \A d \in Connections : d # c => pc'[d] = pc[d] /\ dataset'[d] = dataset[d]
    BY DEF Work, OpenProvider, BreakProvider, TypeOK
  <1>3. CASE BreakProvider(c)
    <2>1. \/ pc[c] = "building" /\ pc'[c] = "broken"
          \/ pc[c] = "fetching" /\ pc'[c] = "failed"
      BY <1>3 DEF BreakProvider, TypeOK
    <2> QED BY <1>1, <1>2, <2>1, MoveFresh DEF Queueing, Locked, Inside
  <1>4. CASE OpenProvider(c)
    <2>1. /\ \/ pc[c] = "building" /\ pc'[c] = "built"
             \/ pc[c] = "fetching" /\ pc'[c] = "fetched"
          /\ dataset'[c].at = now
      BY <1>4 DEF OpenProvider, TypeOK
    <2>2. KindsArePlaced'
      BY <1>1, <1>2, <2>1 DEF KindsArePlaced, Queueing, Locked, Inside
    <2>3. EpochsAreOrdered'
      BY <1>1, <1>2, <2>1 DEF EpochsAreOrdered, Queueing, Locked, Inside, Current, Cached
    <2>4. NewestIsAtHand'
      <3>1. \A m \in Ids : NothingNewer(m, now)
        BY Typed DEF NothingNewer
      <3>2. \A m \in Ids, t \in Nat : NothingNewer(m, t) => NothingNewer(m, t)'
        BY <1>1, <1>2, <2>1 DEF NothingNewer, Current
      <3>3. pc[c] = "building" => req[c].id \in Ids
        BY DEF RequestShape, Asking
      <3>4. \A d \in Connections : pc[d] = "built" => req[d].id \in Ids
        BY DEF RequestShape, Asking
      <3>5. \A d \in Connections : pc'[d] = "built" /\ Current(d)'
               => NothingNewer(req[d].id, dataset[d].at)'
        <4> SUFFICES ASSUME NEW d \in Connections, pc'[d] = "built", Current(d)'
                     PROVE  NothingNewer(req[d].id, dataset[d].at)'
          OBVIOUS
        <4>1. CASE d = c
          BY <4>1, <1>1, <1>2, <2>1, <3>1, <3>3 DEF NothingNewer, Current
        <4>2. CASE d # c
          <5>1. NothingNewer(req[d].id, dataset[d].at)
            BY <4>2, <1>1, <1>2 DEF NewestIsAtHand, Current
          <5> QED BY <5>1, <4>2, <1>1, <1>2, <2>1 DEF NothingNewer, Current
        <4> QED BY <4>1, <4>2
      <3>6. \A m \in Ids : Cached(m)' /\ cache'[m].epoch = epoch'
               => NothingNewer(m, cache[m].at)'
        BY <1>1, <1>2, <2>1 DEF NewestIsAtHand, NothingNewer, Current, Cached
      <3> QED BY <3>5, <3>6 DEF NewestIsAtHand
    <2>5. FloorIsReached'
      <3>1. req[c].floor <= now
        BY Typed
      <3> QED
        BY <1>1, <1>2, <2>1, <3>1
           DEF FloorIsReached, Queueing, Locked, Inside, Current, Cached
    <2> QED BY <2>2, <2>3, <2>4, <2>5 DEF Fresh
  <1> QED BY <1>3, <1>4 DEF Work

(* A request that ends without an answer, or has sent its response. *)
LEMMA DropRequestFresh ==
  ASSUME ServiceInvariant, NEW c \in Connections,
         UNCHANGED <<providers, epoch, cache, newest>>,
         \A d \in Connections : d # c => /\ pc'[d] = pc[d] /\ dataset'[d] = dataset[d]
                                         /\ req'[d] = req[d] /\ ahead'[d] \subseteq ahead[d],
         pc'[c] \in {"refused", "idle"}, ahead'[c] = {}, req'[c] = NotAsked
  PROVE  Fresh'
  <1> USE DEF ServiceInvariant, SafetyInvariant
  <1>1. req'[c].epoch = 0 /\ \A d \in Connections : req'[d].epoch <= req[d].epoch
    BY Typed DEF NotAsked
  <1>2. KindsArePlaced'
    BY DEF KindsArePlaced, Queueing, Locked, Inside
  <1>3. EpochsAreOrdered'
    <2>1. \A d \in Connections : ahead[d] \subseteq Connections
      BY DEF TypeOK
    <2> QED
      BY <1>1, <2>1, Typed DEF EpochsAreOrdered, Queueing, Locked, Inside, Current, Cached
  <1>4. NewestIsAtHand'
    BY DEF NewestIsAtHand, NothingNewer, Current, Cached
  <1>5. FloorIsReached'
    BY DEF FloorIsReached, Queueing, Locked, Inside, Current, Cached
  <1> QED BY <1>2, <1>3, <1>4, <1>5 DEF Fresh

(* A request c that answers with dataset d, or goes on to slice it, having  *)
(* left its queue; the cache is as it was or holds d.                       *)
LEMMA DeliverFresh ==
  ASSUME ServiceInvariant, NEW c \in Connections, NEW d \in Dataset,
         UNCHANGED <<providers, epoch>>,
         \A e \in Connections : e # c => /\ pc'[e] = pc[e] /\ dataset'[e] = dataset[e]
                                         /\ req'[e] = req[e] /\ ahead'[e] \subseteq ahead[e],
         pc'[c] \in {"slicing", "answered"}, ahead'[c] = {}, dataset'[c] = d,
         pc'[c] = "slicing" => req[c].kind # "get_data",
         Asking(c), req[c].floor <= d.at,
         /\ req'[c].kind = req[c].kind /\ req'[c].id = req[c].id
         /\ req'[c].entry = req[c].entry /\ req'[c].epoch = req[c].epoch
         /\ req'[c].floor = req[c].floor,
         newest' = newest \/ /\ Current(c) /\ newest[req[c].id] < d.at
                             /\ req[c].kind # "get_data"
                             /\ newest' = [newest EXCEPT ![req[c].id] = d.at],
         \A e \in Connections :
            e # c /\ pc[e] = "built" /\ Current(e) /\ Current(c) /\ req[e].id = req[c].id
            /\ req[c].kind # "get_data"
               => d.at <= dataset[e].at,
         \A m \in Ids : cache'[m] # cache[m] => m = req[c].id /\ cache'[m].at = d.at,
         \A m \in Ids :
            Cached(m)' /\ cache'[m].epoch = epoch =>
               /\ NothingNewer(m, cache'[m].at)
               /\ m = req[c].id /\ Current(c) /\ req[c].kind # "get_data"
                     => d.at <= cache'[m].at,
         \A e \in Connections : e # c =>
            /\ Queueing(e) /\ Current(e) /\ cache'[req[e].id] # NotCached
                  => cache'[req[e].id].epoch <= req[e].epoch
            /\ /\ pc[e] \in {"admitted", "waiting", "holding"}
               /\ cache'[req[e].id] # NotCached /\ cache'[req[e].id].epoch = req[e].epoch
               => req[e].floor <= cache'[req[e].id].at
  PROVE  Fresh'
  <1> USE DEF ServiceInvariant, SafetyInvariant
  <1>1. KindsArePlaced'
    BY DEF KindsArePlaced, Queueing, Locked, Inside
  <1>2. EpochsAreOrdered'
    <2>1. \A e \in Connections : ahead[e] \subseteq Connections
      BY DEF TypeOK
    <2>2. \A e \in Connections : req'[e].epoch = req[e].epoch
      OBVIOUS
    <2> QED
      BY <2>1, <2>2 DEF EpochsAreOrdered, Queueing, Locked, Inside, Current, Cached
  <1>3. req[c].id \in Ids /\ d.at \in 0..now /\ newest \in [Ids -> 0..now] /\ now \in Nat
    BY DEF RequestShape, TypeOK, Dataset
  <1>4. ASSUME NEW m \in Ids, NEW t \in Nat, NothingNewer(m, t),
               m = req[c].id /\ Current(c) /\ req[c].kind # "get_data" => d.at <= t
        PROVE  /\ newest'[m] <= t
               /\ \A e \in Connections :
                     pc'[e] = "slicing" /\ req'[e].id = m /\ Current(e)' => dataset'[e].at <= t
    <2>1. newest'[m] <= t
      BY <1>3, <1>4 DEF NothingNewer
    <2>2. \A e \in Connections :
             pc'[e] = "slicing" /\ req'[e].id = m /\ Current(e)' => dataset'[e].at <= t
      BY <1>4 DEF NothingNewer, Current
    <2> QED BY <2>1, <2>2
  <1>5. NewestIsAtHand'
    <2>1. ASSUME NEW e \in Connections, pc'[e] = "built", Current(e)'
          PROVE  NothingNewer(req[e].id, dataset[e].at)'
      <3>1. e # c /\ pc[e] = "built" /\ Current(e)
        BY <2>1 DEF Current
      <3>2. NothingNewer(req[e].id, dataset[e].at)
        BY <3>1 DEF NewestIsAtHand
      <3>3. req[e].id \in Ids /\ dataset[e].at \in Nat
        BY <3>1, Typed DEF RequestShape, Asking
      <3>4. /\ newest'[req[e].id] <= dataset[e].at
            /\ \A f \in Connections : pc'[f] = "slicing" /\ req'[f].id = req[e].id /\ Current(f)'
                  => dataset'[f].at <= dataset[e].at
        BY <1>4, <3>1, <3>2, <3>3
      <3> QED BY <3>1, <3>4 DEF NothingNewer
    <2>2. ASSUME NEW m \in Ids, Cached(m)', cache'[m].epoch = epoch
          PROVE  NothingNewer(m, cache[m].at)'
      <3>1. cache'[m].at \in Nat
        BY <1>3, Typed
      <3> QED BY <1>4, <2>2, <3>1 DEF NothingNewer
    <2> QED BY <2>1, <2>2 DEF NewestIsAtHand
  <1>6. FloorIsReached'
    <2>1. \A m \in Ids : newest[m] <= newest'[m] /\ newest[m] \in Nat /\ newest'[m] \in Nat
      BY <1>3
    <2>2. ASSUME NEW e \in Connections, Queueing(e)', Current(e)'
          PROVE  req'[e].floor <= newest'[req'[e].id]
      <3>1. e # c /\ Queueing(e) /\ Current(e) /\ req[e].id \in Ids
        BY <2>2 DEF Queueing, Locked, Inside, Current, RequestShape, Asking
      <3>2. req[e].floor <= newest[req[e].id] /\ req[e].floor \in Nat
        BY <3>1, Typed DEF FloorIsReached
      <3> QED BY <2>1, <3>1, <3>2
    <2>3. ASSUME NEW e \in Connections, pc'[e] \in {"admitted", "waiting", "holding"},
                 Cached(req[e].id)', cache'[req'[e].id].epoch = req'[e].epoch
          PROVE  req'[e].floor <= cache'[req'[e].id].at
      <3>1. e # c /\ pc'[e] = pc[e] /\ req'[e] = req[e]
        BY <2>3
      <3> QED BY <2>3, <3>1 DEF Cached
    <2> QED BY <2>2, <2>3 DEF FloorIsReached
  <1> QED BY <1>1, <1>2, <1>5, <1>6 DEF Fresh

(* Two requests for the published provider are never inside its lock at     *)
(* once.                                                                    *)
LEMMA InsideAlone ==
  ASSUME SafetyInvariant, NEW c \in Connections, NEW d \in Connections,
         Inside(c), Inside(d), Current(c), Current(d), req[c].id = req[d].id
  PROVE  c = d
  <1>1. req[c].lock = req[d].lock /\ req[c].lock # NoLock
    BY DEF SafetyInvariant, LockOfCurrent, RequestShape, Locked
  <1> QED BY <1>1 DEF SafetyInvariant, LockQueue

LEMMA HandOverFacts ==
  ASSUME ServiceInvariant, NEW c \in Connections, NEW d \in Dataset, HandOver(c, d),
         d.entry = req[c].entry, Inside(c)
  PROVE  /\ \A e \in Connections : e # c => /\ pc'[e] = pc[e] /\ dataset'[e] = dataset[e]
                                            /\ req'[e] = req[e] /\ ahead'[e] \subseteq ahead[e]
         /\ pc'[c] \in {"slicing", "answered"} /\ ahead'[c] = {} /\ dataset'[c] = d
         /\ req[c].kind # "get_data" /\ Asking(c)
         /\ req'[c].kind = req[c].kind /\ req'[c].id = req[c].id
         /\ req'[c].entry = req[c].entry /\ req'[c].epoch = req[c].epoch
         /\ req'[c].floor = req[c].floor
         /\ newest' = newest \/ /\ Current(c) /\ newest[req[c].id] < d.at
                                /\ newest' = [newest EXCEPT ![req[c].id] = d.at]
  <1> USE DEF ServiceInvariant, SafetyInvariant, TypeOK
  <1>1. \A e \in Connections : ahead'[e] = IF e = c THEN {} ELSE ahead[e] \ {c}
    BY DEF HandOver, LeaveQueue
  <1>2. \A e \in Connections : e # c => /\ pc'[e] = pc[e] /\ dataset'[e] = dataset[e]
                                        /\ req'[e] = req[e]
    BY DEF HandOver, Respond
  <1>3. /\ pc'[c] \in {"slicing", "answered"} /\ dataset'[c] = d
        /\ req[c].kind # "get_data" /\ Asking(c)
    BY DEF HandOver, Respond, Asking, Inside
  <1>4. /\ req'[c].kind = req[c].kind /\ req'[c].id = req[c].id
        /\ req'[c].entry = req[c].entry /\ req'[c].epoch = req[c].epoch
        /\ req'[c].floor = req[c].floor
    BY DEF HandOver, Respond, Request
  <1>5. newest' = newest \/ /\ Current(c) /\ newest[req[c].id] < d.at
                            /\ newest' = [newest EXCEPT ![req[c].id] = d.at]
    BY DEF HandOver, Respond, Current
  <1> QED BY <1>1, <1>2, <1>3, <1>4, <1>5

LEMMA LookUpFresh ==
  ASSUME ServiceInvariant, NEW c \in Connections, LookUp(c) PROVE Fresh'
  <1> USE DEF ServiceInvariant, SafetyInvariant
  <1> DEFINE copy == cache[req[c].id]
             d == [entry |-> copy.entry, at |-> copy.at]
  <1>1. /\ loop = c /\ pc[c] = "holding" /\ req[c].id \in Ids /\ Inside(c)
        /\ UNCHANGED <<providers, epoch, cache>>
    BY DEF LookUp, tables, store, RequestShape, Asking, Inside
  <1>2. \A e \in Connections : e # c => pc[e] \notin {"admitted", "holding"}
    BY <1>1 DEF RequestShape
  <1>3. CASE Reusable(c, copy)
    <2>1. d \in Dataset /\ d.entry = copy.entry /\ d.at = copy.at
      BY <1>1 DEF TypeOK, Copy, Dataset
    <2>2. copy.epoch = req[c].epoch /\ Cached(req[c].id)
      BY <1>3 DEF Reusable, Cached, NotCached
    <2>3. d.entry = req[c].entry /\ HandOver(c, d)
      BY <1>1, <1>3, <2>1, <2>2 DEF EpochNamesEntry, Asking, LookUp
    <2>4. req[c].floor <= d.at
      BY <1>1, <2>1, <2>2 DEF FloorIsReached
    <2>5. \A e \in Connections :
             ~(e # c /\ pc[e] = "built" /\ Current(e) /\ Current(c) /\ req[e].id = req[c].id)
      BY <1>1, InsideAlone DEF Inside
    <2>6. \A m \in Ids :
             Cached(m)' /\ cache'[m].epoch = epoch =>
               /\ NothingNewer(m, cache'[m].at)
               /\ m = req[c].id => d.at <= cache'[m].at
      BY <1>1, <2>1, Typed DEF NewestIsAtHand, Cached
    <2>7. \A e \in Connections :
            /\ Queueing(e) /\ Current(e) /\ cache'[req[e].id] # NotCached
                  => cache'[req[e].id].epoch <= req[e].epoch
            /\ /\ pc[e] \in {"admitted", "waiting", "holding"}
               /\ cache'[req[e].id] # NotCached /\ cache'[req[e].id].epoch = req[e].epoch
               => req[e].floor <= cache'[req[e].id].at
      BY <1>1 DEF EpochsAreOrdered, FloorIsReached, Cached
    <2> HIDE DEF d
    <2> QED
      BY <1>1, <2>1, <2>3, <2>4, <2>5, <2>6, <2>7, HandOverFacts, DeliverFresh
  <1>4. CASE ~Reusable(c, copy)
    <2>1. pc' = [pc EXCEPT ![c] = "building"] /\ UNCHANGED <<req, ahead, dataset, newest>>
      BY <1>4 DEF LookUp
    <2>2. pc'[c] = "building" /\ \A e \in Connections : e # c => pc'[e] = pc[e]
      BY <2>1 DEF TypeOK
    <2> QED BY <1>1, <2>1, <2>2, MoveFresh DEF Queueing, Locked, Inside
  <1> QED BY <1>3, <1>4

LEMMA FinishBuildFresh ==
  ASSUME ServiceInvariant, NEW c \in Connections, FinishBuild(c) PROVE Fresh'
  <1> USE DEF ServiceInvariant, SafetyInvariant
  <1> DEFINE d == dataset[c]
             y == [entry |-> d.entry, at |-> d.at, created |-> now, epoch |-> req[c].epoch]
  <1>1. /\ pc[c] = "built" /\ Inside(c) /\ Asking(c) /\ req[c].id \in Ids /\ loop = None
        /\ HandOver(c, d) /\ UNCHANGED <<providers, epoch>>
    BY DEF FinishBuild, LoopFree, tables, RequestShape, Asking, Inside
  <1>2. d \in Dataset /\ d.entry = req[c].entry /\ d.at \in Nat /\ req[c].floor <= d.at
    BY <1>1, Typed DEF TypeOK, RequestShape, FloorIsReached
  <1>3. \A e \in Connections :
           ~(e # c /\ pc[e] = "built" /\ Current(e) /\ Current(c) /\ req[e].id = req[c].id)
    BY <1>1, InsideAlone DEF Inside
  <1>4. \A e \in Connections :
           pc[e] # "admitted" /\ (Queueing(e) => req[e].id \in Ids /\ Asking(e))
    BY <1>1, NoneAssumption DEF RequestShape, Queueing, Locked, Inside, Asking
  <1>5. CASE epoch = req[c].epoch /\ providers[req[c].id] = req[c].entry
    <2>1. Current(c) /\ NothingNewer(req[c].id, d.at)
      BY <1>1, <1>5 DEF Current, NewestIsAtHand
    <2>2. cache' = [cache EXCEPT ![req[c].id] = y]
      BY <1>5 DEF FinishBuild
    <2>3. /\ cache'[req[c].id].at = d.at /\ cache'[req[c].id].epoch = epoch
          /\ \A m \in Ids : m # req[c].id => cache'[m] = cache[m]
      BY <1>1, <1>5, <2>2 DEF TypeOK
    <2>4. \A m \in Ids :
             Cached(m)' /\ cache'[m].epoch = epoch =>
               /\ NothingNewer(m, cache'[m].at)
               /\ m = req[c].id => d.at <= cache'[m].at
      BY <1>2, <2>1, <2>3 DEF NewestIsAtHand, Cached
    <2>5. \A e \in Connections : e # c =>
            /\ Queueing(e) /\ Current(e) /\ cache'[req[e].id] # NotCached
                  => cache'[req[e].id].epoch <= req[e].epoch
            /\ /\ pc[e] \in {"admitted", "waiting", "holding"}
               /\ cache'[req[e].id] # NotCached /\ cache'[req[e].id].epoch = req[e].epoch
               => req[e].floor <= cache'[req[e].id].at
      <3> SUFFICES ASSUME NEW e \in Connections, e # c, Queueing(e)
                   PROVE  /\ Current(e) /\ cache'[req[e].id] # NotCached
                                => cache'[req[e].id].epoch <= req[e].epoch
                          /\ /\ pc[e] \in {"admitted", "waiting", "holding"}
                             /\ cache'[req[e].id] # NotCached
                             /\ cache'[req[e].id].epoch = req[e].epoch
                             => req[e].floor <= cache'[req[e].id].at
        BY DEF Queueing, Locked, Inside
      <3>1. CASE req[e].id # req[c].id
        BY <3>1, <1>4, <2>3 DEF EpochsAreOrdered, FloorIsReached, Cached, Queueing, Locked, Inside
      <3>2. CASE req[e].id = req[c].id
        <4>1. ASSUME Current(e)
              PROVE  epoch <= req[e].epoch /\ req[e].floor <= d.at
          <5>1. Locked(e) /\ Locked(c)
            BY <1>1, <1>4 DEF Queueing, Locked
          <5>2. req[e].lock = req[c].lock /\ req[c].lock # NoLock
            BY <2>1, <3>2, <4>1, <5>1 DEF LockOfCurrent, RequestShape
          <5>3. c \in ahead[e]
            BY <1>1, <5>2 DEF LockQueue
          <5>4. epoch <= req[e].epoch
            BY <1>5, <5>3 DEF EpochsAreOrdered
          <5>5. req[e].floor <= newest[req[e].id] /\ newest[req[e].id] <= d.at
            BY <2>1, <3>2, <4>1 DEF FloorIsReached, NothingNewer
          <5> QED BY <1>1, <1>2, <3>2, <5>4, <5>5, Typed
        <4>2. req[e].epoch = epoch => Current(e)
          BY <1>4 DEF EpochNamesEntry
        <4> QED BY <2>3, <3>2, <4>1, <4>2
      <3> QED BY <3>1, <3>2
    <2>6. \A m \in Ids : cache'[m] # cache[m] => m = req[c].id /\ cache'[m].at = d.at
      BY <2>3
    <2> HIDE DEF d, y
    <2> QED
      BY <1>1, <1>2, <1>3, <2>4, <2>5, <2>6, HandOverFacts, DeliverFresh
  <1>6. CASE ~(epoch = req[c].epoch /\ providers[req[c].id] = req[c].entry)
    <2>1. cache' = cache
      BY <1>6 DEF FinishBuild
    <2>2. \A m \in Ids :
             Cached(m) /\ cache[m].epoch = epoch => ~(m = req[c].id /\ Current(c))
      <3>1. Current(c) /\ Cached(req[c].id) => cache[req[c].id].epoch <= req[c].epoch
        BY <1>1 DEF EpochsAreOrdered, Queueing, Locked
      <3>2. Current(c) => req[c].epoch # epoch /\ req[c].epoch <= epoch
        BY <1>6, Typed DEF Current
      <3> QED BY <1>1, <3>1, <3>2, Typed
    <2>3. \A m \in Ids :
             Cached(m)' /\ cache'[m].epoch = epoch =>
               /\ NothingNewer(m, cache'[m].at)
               /\ m = req[c].id /\ Current(c) => d.at <= cache'[m].at
      BY <2>1, <2>2 DEF NewestIsAtHand, Cached
    <2>4. \A e \in Connections :
            /\ Queueing(e) /\ Current(e) /\ cache'[req[e].id] # NotCached
                  => cache'[req[e].id].epoch <= req[e].epoch
            /\ /\ pc[e] \in {"admitted", "waiting", "holding"}
               /\ cache'[req[e].id] # NotCached /\ cache'[req[e].id].epoch = req[e].epoch
               => req[e].floor <= cache'[req[e].id].at
      BY <2>1 DEF EpochsAreOrdered, FloorIsReached, Cached
    <2>5. \A m \in Ids : cache'[m] = cache[m]
      BY <2>1
    <2> HIDE DEF d, y
    <2> QED
      BY <1>1, <1>2, <1>3, <2>3, <2>4, <2>5, HandOverFacts, DeliverFresh
  <1> QED BY <1>5, <1>6

LEMMA ResumeFresh ==
  ASSUME ServiceInvariant, NEW c \in Connections, Resume(c) PROVE Fresh'
  <1> USE DEF ServiceInvariant, SafetyInvariant
  <1>1. CASE Wake(c)
    <2>1. /\ UNCHANGED <<providers, epoch, cache, req, ahead, dataset, newest>>
          /\ pc[c] = "waiting" /\ pc'[c] = "holding"
          /\ \A d \in Connections : d # c => pc'[d] = pc[d]
      BY <1>1 DEF Wake, tables, store, TypeOK
    <2> QED BY <2>1, MoveFresh DEF Queueing, Locked, Inside
  <1>2. CASE FinishBuild(c)
    BY <1>2, FinishBuildFresh
  <1>3. CASE FinishFetch(c)
    <2> DEFINE d == dataset[c]
    <2>1. /\ pc[c] \in {"fetched", "slicing"} /\ Asking(c) /\ loop = None
          /\ UNCHANGED <<providers, epoch, cache, ahead>>
          /\ req[c].id \in Ids
      BY <1>3 DEF FinishFetch, LoopFree, tables, store, RequestShape, Asking
    <2>2. /\ \A e \in Connections : e # c => /\ pc'[e] = pc[e] /\ dataset'[e] = dataset[e]
                                             /\ req'[e] = req[e]
          /\ pc'[c] = "answered" /\ dataset'[c] = d
      BY <1>3 DEF FinishFetch, Respond, TypeOK
    <2>3. /\ req'[c].kind = req[c].kind /\ req'[c].id = req[c].id
          /\ req'[c].entry = req[c].entry /\ req'[c].epoch = req[c].epoch
          /\ req'[c].floor = req[c].floor
      BY <1>3 DEF FinishFetch, Respond, TypeOK, Request
    <2>4. d \in Dataset /\ d.entry = req[c].entry /\ req[c].floor <= d.at
      BY <2>1 DEF TypeOK, RequestShape, FloorIsReached
    <2>5. newest' = newest \/ /\ Current(c) /\ newest[req[c].id] < d.at
                              /\ req[c].kind # "get_data"
                              /\ newest' = [newest EXCEPT ![req[c].id] = d.at]
      BY <1>3, <2>4 DEF FinishFetch, Respond, Current
    <2>6. ahead[c] = {}
      BY <2>1 DEF LockQueue, Locked, Inside
    <2>7. req[c].kind # "get_data" => pc[c] = "slicing"
      BY <2>1 DEF KindsArePlaced
    <2>8. \A e \in Connections :
            e # c /\ pc[e] = "built" /\ Current(e) /\ Current(c) /\ req[e].id = req[c].id
            /\ req[c].kind # "get_data"
               => d.at <= dataset[e].at
      BY <2>7 DEF NewestIsAtHand, NothingNewer
    <2>9. \A m \in Ids :
             Cached(m)' /\ cache'[m].epoch = epoch =>
               /\ NothingNewer(m, cache'[m].at)
               /\ m = req[c].id /\ Current(c) /\ req[c].kind # "get_data"
                     => d.at <= cache'[m].at
      BY <2>1, <2>7 DEF NewestIsAtHand, NothingNewer, Cached
    <2>10. \A e \in Connections :
            /\ Queueing(e) /\ Current(e) /\ cache'[req[e].id] # NotCached
                  => cache'[req[e].id].epoch <= req[e].epoch
            /\ /\ pc[e] \in {"admitted", "waiting", "holding"}
               /\ cache'[req[e].id] # NotCached /\ cache'[req[e].id].epoch = req[e].epoch
               => req[e].floor <= cache'[req[e].id].at
      BY <2>1 DEF EpochsAreOrdered, FloorIsReached, Cached
    <2> HIDE DEF d
    <2> QED
      BY <2>1, <2>2, <2>3, <2>4, <2>5, <2>6, <2>8, <2>9, <2>10, DeliverFresh
  <1>4. CASE FailBuild(c)
    <2>1. /\ UNCHANGED <<providers, epoch, cache, newest>>
          /\ \A d \in Connections :
                d # c => pc'[d] = pc[d] /\ req'[d] = req[d] /\ dataset'[d] = dataset[d]
          /\ pc'[c] = "refused" /\ req'[c] = NotAsked
      BY <1>4 DEF FailBuild, Refuse, tables, store, TypeOK
    <2>2. \A d \in Connections : ahead'[d] = IF d = c THEN {} ELSE ahead[d] \ {c}
      BY <1>4 DEF FailBuild, LeaveQueue
    <2> QED BY <2>1, <2>2, DropRequestFresh
  <1>5. CASE FailFetch(c) \/ Send(c)
    <2>1. /\ UNCHANGED <<providers, epoch, cache, newest, ahead>>
          /\ \A d \in Connections :
                d # c => pc'[d] = pc[d] /\ req'[d] = req[d] /\ dataset'[d] = dataset[d]
          /\ pc[c] \in {"failed", "slicing", "answered", "refused"}
          /\ pc'[c] \in {"refused", "idle"} /\ req'[c] = NotAsked
      BY <1>5 DEF FailFetch, Send, Refuse, tables, store, TypeOK
    <2>2. ahead[c] = {}
      BY <2>1 DEF LockQueue, Locked, Inside
    <2> QED BY <2>1, <2>2, DropRequestFresh
  <1> QED BY <1>1, <1>2, <1>3, <1>4, <1>5 DEF Resume

LEMMA NextFresh ==
  ASSUME ServiceInvariant, [Next]_vars PROVE ServiceInvariant'
  <1>1. SafetyInvariant'
    BY NextSafe DEF ServiceInvariant
  <1>2. ASSUME NEW c \in Connections, NEW m \in Ids, NotFound(c, m) PROVE Fresh'
    <2>1. /\ UNCHANGED <<providers, epoch, cache, req, ahead, dataset, newest>>
          /\ pc'[c] = "refused"
          /\ \A d \in Connections : d # c => pc'[d] = pc[d]
      BY <1>2 DEF NotFound, tables, store, ServiceInvariant, SafetyInvariant, TypeOK
    <2> QED BY <2>1, MoveFresh DEF Queueing, Locked, Inside
  <1>3. ASSUME Tick \/ UNCHANGED vars PROVE Fresh'
    <2>1. UNCHANGED <<providers, epoch, cache, pc, req, ahead, dataset, newest>>
      BY <1>3 DEF Tick, vars, tables, store, requests
    <2>2. KindsArePlaced' /\ EpochsAreOrdered'
      BY <2>1 DEF ServiceInvariant, KindsArePlaced, EpochsAreOrdered, Queueing, Locked,
                  Inside, Cached, Current
    <2>3. NewestIsAtHand' /\ FloorIsReached'
      BY <2>1 DEF ServiceInvariant, NewestIsAtHand, FloorIsReached, NothingNewer,
                  Queueing, Locked, Inside, Cached, Current
    <2> QED BY <2>2, <2>3 DEF Fresh
  <1>4. ASSUME NEW c \in Connections, Arrive(c) \/ Continue(c) \/ Resume(c) \/ Work(c)
        PROVE  Fresh'
    BY <1>2, <1>4, AdmitFresh, BindFresh, LookUpFresh, WorkFresh, ResumeFresh
       DEF Arrive, Continue
  <1>5. Fresh'
    BY <1>3, <1>4, ProducerFresh DEF Next
  <1> QED BY <1>1, <1>5 DEF ServiceInvariant, Fresh

(* Requests stand in their queue in the order of their epochs, and what is  *)
(* cached or being built for them is as new as any answer given             *)
(* (server.py:404-464, 618-646).                                            *)
THEOREM ServiceInvariantHolds == Spec => []ServiceInvariant
  <1>1. Init => ServiceInvariant
    BY InitSafe, InitFresh DEF ServiceInvariant, Fresh
  <1> QED BY <1>1, NextFresh, PTL DEF Spec

----------------------------------------------------------------------------
(* The refinement, step by step.                                            *)

AllAsked == [c \in Connections |-> Asked(c)]
AllReplies == [c \in Connections |-> Reply(c)]
AskedUnchanged == AllAsked' = AllAsked /\ AllReplies' = AllReplies

(* Only the request that takes the step is asked or answered anew. *)
LEMMA OthersStay ==
  ASSUME NEW c \in Connections,
         \A d \in Connections : d # c => /\ pc'[d] = pc[d] /\ req'[d] = req[d]
                                         /\ dataset'[d] = dataset[d]
  PROVE  /\ AllAsked' = [AllAsked EXCEPT ![c] = Asked(c)']
         /\ AllReplies' = [AllReplies EXCEPT ![c] = Reply(c)']
  BY DEF AllAsked, AllReplies, Asked, Reply

(* Where a step leaves what is asked and what is replied alone. *)
LEMMA OnlyThis ==
  ASSUME NEW c \in Connections, Asked(c)' = Asked(c), Reply(c)' = Reply(c),
         \A d \in Connections : d # c => /\ pc'[d] = pc[d] /\ req'[d] = req[d]
                                         /\ dataset'[d] = dataset[d]
  PROVE  AskedUnchanged
  BY DEF AskedUnchanged, AllAsked, AllReplies, Asked, Reply

LEMMA Abbreviated ==
  /\ Service!serviceVars = <<providers, entries, AllAsked, AllReplies, newest, now>>
  /\ Service!NotAsked = [id |-> None, entry |-> 0, floor |-> 0, tracked |-> FALSE]
  /\ Service!NoReply = [status |-> "none", entry |-> 0, at |-> 0]
  /\ Service!ErrorReply = [status |-> "error", entry |-> 0, at |-> 0]
  /\ Service!NoEntry = 0 /\ NoEntry = 0
  BY DEF Service!serviceVars, AllAsked, AllReplies, Service!NotAsked, Service!NoReply,
         Service!ErrorReply, Service!NoEntry, NoEntry

LEMMA InitService == Init => Service!ServiceInit
  BY DEF Init, Service!ServiceInit, Service!NotAsked, Service!NoReply, Service!NoEntry,
         NoEntry, Asked, Reply

Stutter == UNCHANGED <<providers, entries, newest, now>> /\ AskedUnchanged

LEMMA StutterService == Stutter => UNCHANGED Service!serviceVars
  BY DEF Stutter, AskedUnchanged, AllAsked, AllReplies, Service!serviceVars

LEMMA ProducerService ==
  ASSUME ServiceInvariant, Producer
  PROVE  (\E m \in Ids : Service!Publish(m) \/ Service!Withdraw(m)) \/ Stutter
  <1>1. UNCHANGED requests => AskedUnchanged
    BY DEF requests, AskedUnchanged, AllAsked, AllReplies, Asked, Reply
  <1>2. ASSUME NEW m \in Ids, Register(m) PROVE Service!Publish(m)
    BY <1>1, <1>2 DEF Register, BeginChange, Service!Publish, AskedUnchanged, AllAsked,
                      AllReplies
  <1>3. ASSUME NEW m \in Ids, Unregister(m) PROVE Service!Withdraw(m)
    BY <1>1, <1>3 DEF Unregister, BeginChange, Service!Withdraw, AskedUnchanged, AllAsked,
                      AllReplies, NoEntry, Service!NoEntry
  <1>4. CASE DropCache \/ DropLock
    BY <1>1, <1>4 DEF DropCache, DropLock, Stutter
  <1> QED BY <1>2, <1>3, <1>4 DEF Producer

LEMMA ArriveService ==
  ASSUME ServiceInvariant, NEW c \in Connections, NEW m \in Ids
  PROVE  /\ NotFound(c, m) => Service!NotFound(c, m)
         /\ \A kind \in Kinds :
               Admit(c, m, kind) => \E tracked \in BOOLEAN : Service!Ask(c, m, tracked)
  <1> USE DEF ServiceInvariant, SafetyInvariant, TypeOK
  <1>1. pc[c] = "idle" => Asked(c) = Service!NotAsked /\ Reply(c) = Service!NoReply
    BY Abbreviated DEF Asked, Reply
  <1>2. ASSUME NotFound(c, m) PROVE Service!NotFound(c, m)
    <2>1. /\ pc[c] = "idle" /\ pc'[c] = "refused" /\ providers[m] = 0
          /\ UNCHANGED <<providers, entries, req, dataset, newest, now>>
          /\ \A d \in Connections : d # c => pc'[d] = pc[d]
      BY <1>2, Abbreviated DEF NotFound, tables
    <2>2. Asked(c)' = Asked(c) /\ Reply(c)' = Service!ErrorReply
      BY <2>1, Abbreviated DEF Asked, Reply
    <2>3. AllAsked' = AllAsked /\ AllReplies' = [AllReplies EXCEPT ![c] = Service!ErrorReply]
      BY <2>1, <2>2, OthersStay DEF AllAsked
    <2> QED
      BY <1>1, <2>1, <2>3, Abbreviated DEF Service!NotFound, AllAsked, AllReplies
  <1>3. ASSUME NEW kind \in Kinds, Admit(c, m, kind)
        PROVE  Service!Ask(c, m, kind # "get_data")
    <2> DEFINE a == [id |-> m, entry |-> providers[m],
                     floor |-> IF kind # "get_data" THEN newest[m] ELSE now,
                     tracked |-> kind # "get_data"]
    <2>1. /\ pc[c] = "idle" /\ pc'[c] \in {"admitted", "fetching"} /\ providers[m] # 0
          /\ UNCHANGED <<providers, entries, dataset, newest, now>>
          /\ \A d \in Connections : d # c => pc'[d] = pc[d] /\ req'[d] = req[d]
      BY <1>3, Abbreviated DEF Admit, tables
    <2>2. /\ req'[c].id = m /\ req'[c].entry = providers[m] /\ req'[c].kind = kind
          /\ req'[c].floor = IF kind # "get_data" THEN newest[m] ELSE now
      BY <1>3 DEF Admit
    <2>3. Asked(c)' = a /\ Reply(c)' = Reply(c)
      BY <2>1, <2>2 DEF Asked, Reply
    <2>4. AllAsked' = [AllAsked EXCEPT ![c] = a] /\ AllReplies' = AllReplies
      BY <2>1, <2>3, OthersStay DEF AllReplies
    <2> QED
      BY <1>1, <2>1, <2>4, Abbreviated DEF Service!Ask, AllAsked, AllReplies
  <1> QED BY <1>2, <1>3

(* The request answers with dataset d, or goes on with it to be sliced. *)
LEMMA DeliverService ==
  ASSUME ServiceInvariant, NEW c \in Connections, NEW d \in Dataset,
         UNCHANGED <<providers, entries, now>>,
         \A e \in Connections : e # c => /\ pc'[e] = pc[e] /\ dataset'[e] = dataset[e]
                                         /\ req'[e] = req[e],
         Asking(c), pc[c] # "answered", dataset'[c] = d,
         d.entry = req[c].entry, req[c].floor <= d.at,
         \/ /\ pc'[c] = "slicing" /\ newest' = newest
            /\ req'[c].kind = req[c].kind /\ req'[c].id = req[c].id
            /\ req'[c].entry = req[c].entry /\ req'[c].floor = req[c].floor
         \/ /\ pc'[c] = "answered"
            /\ newest' = IF /\ req[c].kind # "get_data"
                            /\ providers[req[c].id] = d.entry
                            /\ newest[req[c].id] < d.at
                         THEN [newest EXCEPT ![req[c].id] = d.at]
                         ELSE newest
  PROVE  Service!Answer(c, d.at) \/ Stutter
  <1> USE DEF ServiceInvariant, SafetyInvariant
  <1>1. /\ Asked(c) = [id |-> req[c].id, entry |-> req[c].entry, floor |-> req[c].floor,
                       tracked |-> req[c].kind # "get_data"]
        /\ req[c].id \in Ids
    BY DEF Asked, Asking, RequestShape
  <1>2. Asked(c) # Service!NotAsked
    BY <1>1, Abbreviated, NoneAssumption
  <1>3. CASE pc'[c] = "slicing"
    <2>1. Asked(c)' = Asked(c) /\ Reply(c)' = Reply(c)
      BY <1>1, <1>3 DEF Asked, Reply, Asking
    <2> QED BY <1>3, <2>1, OnlyThis DEF Stutter
  <1>4. CASE pc'[c] = "answered"
    <2> DEFINE r == [status |-> "data", entry |-> req[c].entry, at |-> d.at]
    <2>1. Asked(c)' = Service!NotAsked /\ Reply(c)' = r
      BY <1>4, Abbreviated DEF Asked, Reply
    <2>2. /\ AllAsked' = [AllAsked EXCEPT ![c] = Service!NotAsked]
          /\ AllReplies' = [AllReplies EXCEPT ![c] = r]
      BY <2>1, OthersStay
    <2>3. AllAsked[c] = Asked(c)
      BY DEF AllAsked
    <2>4. newest' = IF /\ AllAsked[c].tracked
                       /\ providers[AllAsked[c].id] = AllAsked[c].entry
                       /\ newest[AllAsked[c].id] < d.at
                    THEN [newest EXCEPT ![AllAsked[c].id] = d.at]
                    ELSE newest
      <3>1. /\ AllAsked[c].id = req[c].id /\ AllAsked[c].entry = d.entry
            /\ AllAsked[c].tracked = (req[c].kind # "get_data")
        BY <1>1, <2>3
      <3>2. newest' = IF /\ req[c].kind # "get_data"
                         /\ providers[req[c].id] = d.entry
                         /\ newest[req[c].id] < d.at
                      THEN [newest EXCEPT ![req[c].id] = d.at]
                      ELSE newest
        BY <1>4
      <3> QED BY <3>1, <3>2
    <2>5. AllAsked[c] # Service!NotAsked /\ AllAsked[c].floor <= d.at
          /\ AllAsked[c].entry = req[c].entry
      BY <1>1, <1>2, <2>3
    <2> QED BY <2>2, <2>4, <2>5 DEF Service!Answer, AllAsked, AllReplies
  <1> QED BY <1>3, <1>4

LEMMA HandOverService ==
  ASSUME ServiceInvariant, NEW c \in Connections, NEW d \in Dataset, HandOver(c, d),
         UNCHANGED <<providers, entries, now>>, Inside(c),
         d.entry = req[c].entry, req[c].floor <= d.at
  PROVE  Service!Answer(c, d.at) \/ Stutter
  <1> USE DEF ServiceInvariant, SafetyInvariant, TypeOK
  <1>1. Asking(c) /\ pc[c] # "answered"
    BY DEF Asking, Inside
  <1>2. /\ \A e \in Connections : e # c => /\ pc'[e] = pc[e] /\ dataset'[e] = dataset[e]
                                           /\ req'[e] = req[e]
        /\ dataset'[c] = d
    BY DEF HandOver, Respond
  <1>3. CASE req[c].kind = "get_rows"
    <2>1. /\ pc'[c] = "slicing" /\ newest' = newest
          /\ req'[c].kind = req[c].kind /\ req'[c].id = req[c].id
          /\ req'[c].entry = req[c].entry /\ req'[c].floor = req[c].floor
      BY <1>3 DEF HandOver, Request
    <2> QED BY <1>1, <1>2, <2>1, DeliverService
  <1>4. CASE req[c].kind = "get_snapshot"
    <2>1. /\ pc'[c] = "answered"
          /\ newest' = IF /\ req[c].kind # "get_data"
                          /\ providers[req[c].id] = d.entry
                          /\ newest[req[c].id] < d.at
                       THEN [newest EXCEPT ![req[c].id] = d.at]
                       ELSE newest
      BY <1>4 DEF HandOver, Respond
    <2> QED BY <1>1, <1>2, <2>1, DeliverService
  <1> QED BY <1>3, <1>4 DEF HandOver

(* A request that is refused. *)
LEMMA RefuseService ==
  ASSUME ServiceInvariant, NEW c \in Connections, Refuse(c), Asking(c), pc[c] # "answered",
         UNCHANGED <<providers, entries, now>>
  PROVE  Service!Fail(c)
  <1> USE DEF ServiceInvariant, SafetyInvariant
  <1>1. /\ pc'[c] = "refused" /\ newest' = newest
        /\ \A e \in Connections : e # c => /\ pc'[e] = pc[e] /\ dataset'[e] = dataset[e]
                                           /\ req'[e] = req[e]
    BY DEF Refuse, TypeOK
  <1>2. AllAsked[c] # Service!NotAsked
    <2>1. AllAsked[c].id = req[c].id /\ req[c].id \in Ids
      BY DEF AllAsked, Asked, Asking, RequestShape
    <2> QED BY <2>1, Abbreviated, NoneAssumption
  <1>3. Asked(c)' = Service!NotAsked /\ Reply(c)' = Service!ErrorReply
    BY <1>1, Abbreviated DEF Asked, Reply
  <1>4. /\ AllAsked' = [AllAsked EXCEPT ![c] = Service!NotAsked]
        /\ AllReplies' = [AllReplies EXCEPT ![c] = Service!ErrorReply]
    BY <1>1, <1>3, OthersStay
  <1> QED BY <1>1, <1>2, <1>4 DEF Service!Fail, AllAsked, AllReplies

LEMMA ContinueService ==
  ASSUME ServiceInvariant, NEW c \in Connections, Continue(c)
  PROVE  (\E at \in 0..now : Service!Answer(c, at)) \/ Stutter
  <1> USE DEF ServiceInvariant, SafetyInvariant
  <1>1. CASE Bind(c)
    <2>1. /\ UNCHANGED <<providers, entries, dataset, newest, now>>
          /\ pc[c] = "admitted" /\ pc'[c] \in {"holding", "waiting"}
          /\ \A e \in Connections : e # c => pc'[e] = pc[e] /\ req'[e] = req[e]
      BY <1>1 DEF Bind, tables, TypeOK
    <2>2. /\ req'[c].kind = req[c].kind /\ req'[c].id = req[c].id
          /\ req'[c].entry = req[c].entry /\ req'[c].floor = req[c].floor
      BY <1>1 DEF Bind, TypeOK, Request
    <2>3. Asked(c)' = Asked(c) /\ Reply(c)' = Reply(c)
      BY <2>1, <2>2 DEF Asked, Reply
    <2> QED BY <2>1, <2>3, OnlyThis DEF Stutter
  <1>2. CASE LookUp(c)
    <2> DEFINE copy == cache[req[c].id]
               d == [entry |-> copy.entry, at |-> copy.at]
    <2>1. /\ pc[c] = "holding" /\ Inside(c) /\ req[c].id \in Ids
          /\ UNCHANGED <<providers, entries, now>>
      BY <1>2 DEF LookUp, tables, RequestShape, Asking, Inside
    <2>2. CASE Reusable(c, copy)
      <3>1. d \in Dataset /\ d.entry = copy.entry /\ d.at = copy.at /\ d.at \in 0..now
        BY <2>1 DEF TypeOK, Copy, Dataset
      <3>2. copy.epoch = req[c].epoch /\ Cached(req[c].id)
        BY <2>2 DEF Reusable, Cached, NotCached
      <3>3. d.entry = req[c].entry /\ HandOver(c, d)
        BY <1>2, <2>1, <2>2, <3>1, <3>2 DEF EpochNamesEntry, Asking, LookUp
      <3>4. req[c].floor <= d.at
        BY <2>1, <3>1, <3>2 DEF FloorIsReached
      <3> HIDE DEF d
      <3> QED BY <2>1, <3>1, <3>3, <3>4, HandOverService
    <2>3. CASE ~Reusable(c, copy)
      <3>1. pc' = [pc EXCEPT ![c] = "building"] /\ UNCHANGED <<req, dataset, newest>>
        BY <1>2, <2>3 DEF LookUp
      <3>2. pc'[c] = "building" /\ \A e \in Connections : e # c => pc'[e] = pc[e]
        BY <3>1 DEF TypeOK
      <3>3. Asked(c)' = Asked(c) /\ Reply(c)' = Reply(c)
        BY <2>1, <3>1, <3>2 DEF Asked, Reply
      <3> QED BY <2>1, <3>1, <3>2, <3>3, OnlyThis DEF Stutter
    <2> QED BY <2>2, <2>3
  <1> QED BY <1>1, <1>2 DEF Continue

LEMMA WorkService == ASSUME ServiceInvariant, NEW c \in Connections, Work(c) PROVE Stutter
  <1> USE DEF ServiceInvariant, SafetyInvariant, TypeOK
  <1>1. /\ UNCHANGED <<providers, entries, req, newest, now>>
        /\ pc[c] \in {"building", "fetching"}
        /\ pc'[c] \in {"built", "fetched", "broken", "failed"}
        /\ \A e \in Connections : e # c => pc'[e] = pc[e] /\ dataset'[e] = dataset[e]
    BY DEF Work, OpenProvider, BreakProvider, tables
  <1>2. Asked(c)' = Asked(c) /\ Reply(c)' = Reply(c)
    BY <1>1 DEF Asked, Reply
  <1> QED BY <1>1, <1>2, OnlyThis DEF Stutter

LEMMA ResumeService ==
  ASSUME ServiceInvariant, NEW c \in Connections, Resume(c)
  PROVE  \/ \E at \in 0..now : Service!Answer(c, at)
         \/ Service!Fail(c) \/ Service!Send(c) \/ Stutter
  <1> USE DEF ServiceInvariant, SafetyInvariant
  <1>1. CASE Wake(c)
    <2>1. /\ UNCHANGED <<providers, entries, req, dataset, newest, now>>
          /\ pc[c] = "waiting" /\ pc'[c] = "holding"
          /\ \A e \in Connections : e # c => pc'[e] = pc[e]
      BY <1>1 DEF Wake, tables, TypeOK
    <2>2. Asked(c)' = Asked(c) /\ Reply(c)' = Reply(c)
      BY <2>1 DEF Asked, Reply
    <2> QED BY <2>1, <2>2, OnlyThis DEF Stutter
  <1>2. CASE FinishBuild(c)
    <2>1. /\ pc[c] = "built" /\ Inside(c) /\ HandOver(c, dataset[c])
          /\ UNCHANGED <<providers, entries, now>>
      BY <1>2 DEF FinishBuild, tables, Inside
    <2>2. /\ dataset[c] \in Dataset /\ dataset[c].at \in 0..now
          /\ dataset[c].entry = req[c].entry /\ req[c].floor <= dataset[c].at
      BY <2>1, Typed DEF TypeOK, RequestShape, FloorIsReached
    <2> QED BY <2>1, <2>2, HandOverService
  <1>3. CASE FinishFetch(c)
    <2>1. /\ pc[c] \in {"fetched", "slicing"} /\ Asking(c)
          /\ UNCHANGED <<providers, entries, now>> /\ Respond(c, dataset[c])
      BY <1>3 DEF FinishFetch, tables, Asking
    <2>2. /\ dataset[c] \in Dataset /\ dataset[c].at \in 0..now
          /\ dataset[c].entry = req[c].entry /\ req[c].floor <= dataset[c].at
      BY <2>1, Typed DEF TypeOK, RequestShape, FloorIsReached
    <2>3. /\ \A e \in Connections : e # c => /\ pc'[e] = pc[e] /\ dataset'[e] = dataset[e]
                                             /\ req'[e] = req[e]
          /\ pc'[c] = "answered" /\ dataset'[c] = dataset[c]
          /\ newest' = IF /\ req[c].kind # "get_data"
                          /\ providers[req[c].id] = dataset[c].entry
                          /\ newest[req[c].id] < dataset[c].at
                       THEN [newest EXCEPT ![req[c].id] = dataset[c].at]
                       ELSE newest
      BY <2>1 DEF Respond, TypeOK
    <2> QED BY <2>1, <2>2, <2>3, DeliverService
  <1>4. CASE FailBuild(c) \/ FailFetch(c)
    <2>1. /\ Refuse(c) /\ Asking(c) /\ pc[c] # "answered"
          /\ UNCHANGED <<providers, entries, now>>
      BY <1>4 DEF FailBuild, FailFetch, tables, Asking
    <2> QED BY <2>1, RefuseService
  <1>5. CASE Send(c)
    <2>1. /\ pc[c] \in {"answered", "refused"} /\ pc'[c] = "idle"
          /\ UNCHANGED <<providers, entries, newest, now>>
          /\ \A e \in Connections : e # c => /\ pc'[e] = pc[e] /\ dataset'[e] = dataset[e]
                                             /\ req'[e] = req[e]
      BY <1>5 DEF Send, tables, TypeOK
    <2>2. Asked(c)' = Asked(c) /\ Reply(c)' = Service!NoReply
      BY <2>1, Abbreviated DEF Asked, Reply
    <2>3. AllReplies[c] # Service!NoReply
      <3>1. AllReplies[c].status # "none"
        BY <2>1 DEF AllReplies, Reply
      <3> QED BY <3>1, Abbreviated
    <2>4. /\ AllAsked' = AllAsked
          /\ AllReplies' = [AllReplies EXCEPT ![c] = Service!NoReply]
      BY <2>1, <2>2, OthersStay DEF AllAsked
    <2> QED BY <2>1, <2>3, <2>4 DEF Service!Send, AllAsked, AllReplies
  <1> QED BY <1>1, <1>2, <1>3, <1>4, <1>5 DEF Resume

LEMMA NextService ==
  ASSUME ServiceInvariant, [Next]_vars
  PROVE  [Service!ServiceNext]_(Service!serviceVars)
  <1>1. CASE Producer
    BY <1>1, ProducerService, StutterService DEF Service!ServiceNext
  <1>2. ASSUME NEW c \in Connections, Arrive(c) PROVE Service!ServiceNext
    BY <1>2, ArriveService DEF Arrive, Service!ServiceNext
  <1>3. ASSUME NEW c \in Connections, Continue(c) \/ Resume(c) \/ Work(c)
        PROVE  [Service!ServiceNext]_(Service!serviceVars)
    BY <1>3, ContinueService, ResumeService, WorkService, StutterService
       DEF Service!ServiceNext
  <1>4. CASE Tick
    BY <1>4 DEF Tick, tables, requests, Service!ServiceNext, Service!Advance, Asked, Reply
  <1>5. CASE UNCHANGED vars
    BY <1>5 DEF vars, Service!serviceVars, Asked, Reply
  <1> QED BY <1>1, <1>2, <1>3, <1>4, <1>5 DEF Next

(* Whatever registrations, requests, worker threads and expiring copies do, *)
(* the server keeps the promises of SnapshotService: each answer is of the  *)
(* provider it was asked for, and of data no older than what any client had *)
(* when it was asked (server.py:404-464, 577-671).                          *)
THEOREM ServiceImplemented == Spec => ImplementsService
  <1> QED
    BY ServiceInvariantHolds, InitService, NextService, PTL
       DEF Spec, ImplementsService, Service!ServiceSpec
=============================================================================
