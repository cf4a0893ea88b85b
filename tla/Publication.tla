----------------------------- MODULE Publication -----------------------------
(****************************************************************************)
(* Publishing measurements from one producer process:                       *)
(* src/qimchi_connect/producer.py, with the provider table and the registry *)
(* row it keeps in step.  Application threads register, close and update    *)
(* measurements; heartbeat threads stamp the rows of the open ones.         *)
(*                                                                          *)
(* `owner` is _REGISTRATION_LOCK.  A step taken under it is split only      *)
(* where somebody who does not take the lock can see or change the state:   *)
(* the heartbeat's event and thread variable, and the clients of the        *)
(* provider table.  The lock is reentrant: registering an identifier again  *)
(* closes the old handle while the lock is held.                            *)
(****************************************************************************)
EXTENDS Naturals

CONSTANTS
    Threads,        \* application threads
    Ids,            \* measurement identifiers
    None,           \* no thread, no identifier
    MaxHandles,     \* bound on the registrations of a behaviour
    MaxBeats,       \* bound on the heartbeat threads started
    MaxFailures     \* bound on the registry writes and server starts that fail

ASSUME NoneAssumption == None \notin Threads /\ None \notin Ids
ASSUME BoundsAssumption ==
    MaxHandles \in Nat /\ MaxBeats \in Nat /\ MaxFailures \in Nat

NoHandle == 0
NoBeat == 0
Handles == 1..MaxHandles
Beats == 1..MaxBeats
NoCall == [op |-> "none", id |-> None, handle |-> NoHandle, beat |-> FALSE,
           joined |-> NoBeat]

VARIABLES
    owner,          \* who has _REGISTRATION_LOCK between two steps
    registrations,  \* _REGISTRATIONS: the open handle of each identifier
    handles,        \* LiveMeasurementRegistration objects made, numbered from 1
    measurement,    \* measurement_id of each handle
    closed,         \* _closed of each handle
    beaten,         \* whether the handle was published with a heartbeat
    provider,       \* identifiers in the server's provider table
    row,            \* live_status of each registry row
    stamped,        \* whether last_seen of the row is set
    path,           \* the handle whose disk path the row advertises
    thread,         \* _HEARTBEAT_THREAD
    stop,           \* _HEARTBEAT_STOP
    beats,          \* heartbeat threads made, numbered from 1
    beat,           \* where each heartbeat thread is
    todo,           \* the identifiers it has yet to stamp in this round
    pc,             \* where each application thread is
    call,           \* the local variables of its call
    failures        \* failed writes so far

objects == <<handles, measurement, beaten>>
rows == <<row, stamped, path>>
heart == <<thread, stop, beats, beat, todo>>
vars == <<owner, registrations, handles, measurement, closed, beaten, provider,
          row, stamped, path, thread, stop, beats, beat, todo, pc, call, failures>>

Init ==
    /\ owner = None
    /\ registrations = [m \in Ids |-> NoHandle]
    /\ handles = 0
    /\ measurement = [h \in Handles |-> None]
    /\ closed = [h \in Handles |-> FALSE]
    /\ beaten = [h \in Handles |-> FALSE]
    /\ provider = {}
    /\ row = [m \in Ids |-> "absent"]
    /\ stamped = [m \in Ids |-> FALSE]
    /\ path = [m \in Ids |-> NoHandle]
    /\ thread = NoBeat
    /\ stop = FALSE
    /\ beats = 0
    /\ beat = [b \in Beats |-> "unborn"]
    /\ todo = [b \in Beats |-> {}]
    /\ pc = [t \in Threads |-> "idle"]
    /\ call = [t \in Threads |-> NoCall]
    /\ failures = 0

Open == {m \in Ids : registrations[m] # NoHandle}
Alive(b) == b # NoBeat /\ beat[b] \notin {"made", "dead"}

Goto(t, place) == pc' = [pc EXCEPT ![t] = place]
Return(t) == Goto(t, "idle") /\ call' = [call EXCEPT ![t] = NoCall]

(* The operation raises: a bounded number of times in a behaviour.          *)
Fails == failures < MaxFailures /\ failures' = failures + 1

(* A definition below whose name ends in a fault's description is a faulty  *)
(* variant of the one that follows it; no specification uses it.            *)

----------------------------------------------------------------------------
(* LiveMeasurementRegistration.close, from the lock on.  The handle takes   *)
(* its publication down only if it is still the registered one.             *)

Unlink(h) ==
    LET m == measurement[h]
    IN  /\ registrations' = [registrations EXCEPT ![m] = NoHandle]
        /\ provider' = provider \ {m}

EndRow(m) == row' = [row EXCEPT ![m] = IF @ = "absent" THEN @ ELSE "ended"]

IsOpen(h) == registrations[measurement[h]] = h

CloseAnyOpen(h) ==
    /\ Unlink(h)
    /\ EndRow(measurement[h])
    /\ closed' = [closed EXCEPT ![h] = TRUE]
    /\ UNCHANGED failures

CloseHandle(h) ==
    /\ \/ IsOpen(h) /\ Unlink(h) /\ EndRow(measurement[h])
       \/ ~IsOpen(h) /\ UNCHANGED <<registrations, provider, row>>
    /\ closed' = [closed EXCEPT ![h] = TRUE]
    /\ UNCHANGED failures

(* end_measurement raises: the publication is gone, the row is not ended    *)
(* and the handle does not count as closed.                                 *)
FailToClose(h) ==
    /\ IsOpen(h)
    /\ Unlink(h)
    /\ Fails
    /\ UNCHANGED <<row, closed>>

NoneRemain == \A m \in Ids : registrations'[m] = NoHandle

BeginClose(t, h) ==
    /\ pc[t] = "idle"
    /\ h <= handles
    /\ ~closed[h]
    /\ Goto(t, "closing")
    /\ call' = [call EXCEPT ![t] = [NoCall EXCEPT !.op = "close", !.handle = h]]
    /\ UNCHANGED <<owner, registrations, objects, closed, provider, rows, heart, failures>>

Close(t) ==
    /\ pc[t] = "closing"
    /\ owner = None
    /\ CloseHandle(call[t].handle)
    /\ IF NoneRemain THEN Goto(t, "stopping") /\ UNCHANGED call ELSE Return(t)
    /\ UNCHANGED <<owner, objects, stamped, path, heart>>

CloseRaises(t) ==
    /\ pc[t] = "closing"
    /\ owner = None
    /\ FailToClose(call[t].handle)
    /\ Return(t)
    /\ UNCHANGED <<owner, objects, stamped, path, heart>>

----------------------------------------------------------------------------
(* stop_heartbeat: by a close after it gave the lock back, or by the close  *)
(* inside a registration, which has it.                                     *)

ReadThread(t) ==
    /\ pc[t] = "stopping"
    /\ call' = [call EXCEPT ![t].joined = thread]
    /\ Goto(t, "setting")
    /\ UNCHANGED <<owner, registrations, objects, closed, provider, rows, heart, failures>>

(* Event.set wakes the threads that are waiting, even if the event is       *)
(* cleared before they run.                                                 *)
SetStop(t) ==
    /\ pc[t] = "setting"
    /\ stop' = TRUE
    /\ beat' = [b \in Beats |-> IF beat[b] = "waiting" THEN "woken" ELSE beat[b]]
    /\ Goto(t, "joining")
    /\ UNCHANGED <<owner, registrations, objects, closed, provider, rows, thread,
                   beats, todo, call, failures>>

(* join(timeout=2.0) ends when the thread has ended, or gives up on one     *)
(* that is held up by the lock or by the registry.  A thread that has not   *)
(* been started yet cannot be joined: the call raises, and forgets nothing. *)
JoinForever(t) ==
    /\ pc[t] = "joining"
    /\ call[t].joined # NoBeat => beat[call[t].joined] = "dead"
    /\ Goto(t, "forgetting")
    /\ UNCHANGED <<owner, registrations, objects, closed, provider, rows, heart,
                   call, failures>>

Join(t) ==
    /\ pc[t] = "joining"
    /\ call[t].joined # NoBeat => beat[call[t].joined] \in {"copying", "stamping", "dead"}
    /\ Goto(t, "forgetting")
    /\ UNCHANGED <<owner, registrations, objects, closed, provider, rows, heart,
                   call, failures>>

JoinRaises(t) ==
    /\ pc[t] = "joining"
    /\ call[t].joined # NoBeat /\ beat[call[t].joined] = "made"
    /\ owner' = IF owner = t THEN None ELSE owner
    /\ Return(t)
    /\ UNCHANGED <<registrations, objects, closed, provider, rows, heart, failures>>

ForgetThread(t) ==
    /\ pc[t] = "forgetting"
    /\ thread' = NoBeat
    /\ IF call[t].op = "register"
       THEN Goto(t, "publishing") /\ UNCHANGED call
       ELSE Return(t)
    /\ UNCHANGED <<owner, registrations, objects, closed, provider, rows, stop,
                   beats, beat, todo, failures>>

----------------------------------------------------------------------------
(* register_live_measurement.  What its maintenance does to the rows of     *)
(* other runs is not part of this module.                                   *)

BeginRegister(t, m, beating) ==
    /\ pc[t] = "idle"
    /\ owner = None
    /\ handles < MaxHandles /\ beats < MaxBeats
    /\ owner' = t
    /\ Goto(t, "superseding")
    /\ call' = [call EXCEPT ![t] = [op |-> "register", id |-> m, beat |-> beating,
                                    handle |-> registrations[m], joined |-> NoBeat]]
    /\ UNCHANGED <<registrations, objects, closed, provider, rows, heart, failures>>

(* existing.close(), with the lock held: the heartbeat is stopped when this *)
(* was the only publication, to be started again below.                     *)
Supersede(t) ==
    /\ pc[t] = "superseding"
    /\ LET h == call[t].handle
       IN  \/ /\ h = NoHandle
              /\ Goto(t, "publishing")
              /\ UNCHANGED <<registrations, provider, row, closed, failures>>
           \/ /\ h # NoHandle
              /\ CloseHandle(h)
              /\ Goto(t, IF NoneRemain THEN "stopping" ELSE "publishing")
    /\ UNCHANGED <<owner, objects, stamped, path, heart, call>>

SupersedeRaises(t) ==
    /\ pc[t] = "superseding"
    /\ call[t].handle # NoHandle
    /\ FailToClose(call[t].handle)
    /\ owner' = None
    /\ Return(t)
    /\ UNCHANGED <<objects, stamped, path, heart>>

PublishProvider(t) ==
    /\ pc[t] = "publishing"
    /\ provider' = provider \cup {call[t].id}
    /\ Goto(t, "recording")
    /\ UNCHANGED <<owner, registrations, objects, closed, rows, heart, call, failures>>

(* The server does not start, or register_measurement raises.               *)
RecordRaisesAndLeavesProvider(t) ==
    /\ pc[t] = "recording"
    /\ Fails
    /\ owner' = None
    /\ Return(t)
    /\ UNCHANGED <<registrations, objects, closed, provider, rows, heart>>

RecordRaises(t) ==
    /\ pc[t] = "recording"
    /\ Fails
    /\ provider' = provider \ {call[t].id}
    /\ owner' = None
    /\ Return(t)
    /\ UNCHANGED <<registrations, objects, closed, rows, heart>>

(* The row is replaced as a whole, so it has no stamp, and the handle is    *)
(* entered in _REGISTRATIONS.                                               *)
Record(t) ==
    /\ pc[t] = "recording"
    /\ LET m == call[t].id
           h == handles + 1
       IN  /\ handles' = h
           /\ measurement' = [measurement EXCEPT ![h] = m]
           /\ beaten' = [beaten EXCEPT ![h] = call[t].beat]
           /\ registrations' = [registrations EXCEPT ![m] = h]
           /\ row' = [row EXCEPT ![m] = "running"]
           /\ stamped' = [stamped EXCEPT ![m] = FALSE]
           /\ path' = [path EXCEPT ![m] = h]
    /\ IF call[t].beat
       THEN Goto(t, "beating") /\ UNCHANGED <<owner, call>>
       ELSE Return(t) /\ owner' = None
    /\ UNCHANGED <<closed, provider, heart, failures>>

FirstBeat(t) ==
    /\ pc[t] = "beating"
    /\ stamped' = [stamped EXCEPT ![call[t].id] = TRUE]
    /\ Goto(t, "ensuring")
    /\ UNCHANGED <<owner, registrations, objects, closed, provider, row, path, heart,
                   call, failures>>

(* The first stamp is outside every try: the call raises, and everything it *)
(* has published stays.                                                     *)
FirstBeatRaises(t) ==
    /\ pc[t] = "beating"
    /\ Fails
    /\ owner' = None
    /\ Return(t)
    /\ UNCHANGED <<registrations, objects, closed, provider, rows, heart>>

(* _ensure_heartbeat, which reads the thread variable again and again: a    *)
(* close that stops the heartbeat without the lock may have forgotten the   *)
(* thread before it is looked at or started, and the call raises.           *)
FindThread(t) ==
    /\ pc[t] = "ensuring"
    /\ thread # NoBeat
    /\ Goto(t, "checking")
    /\ UNCHANGED <<owner, registrations, objects, closed, provider, rows, heart,
                   call, failures>>

ThreadForgotten(t) ==
    /\ pc[t] \in {"checking", "starting"}
    /\ thread = NoBeat
    /\ owner' = None
    /\ Return(t)
    /\ UNCHANGED <<registrations, objects, closed, provider, rows, heart, failures>>

KeepThread(t) ==
    /\ pc[t] = "checking"
    /\ Alive(thread)
    /\ owner' = None
    /\ Return(t)
    /\ UNCHANGED <<registrations, objects, closed, provider, rows, heart, failures>>

NeedsThread(t) ==
    \/ pc[t] = "ensuring" /\ thread = NoBeat
    \/ pc[t] = "checking" /\ thread # NoBeat /\ ~Alive(thread)

SpawnWithoutClear(t) ==
    /\ NeedsThread(t)
    /\ Goto(t, "spawning")
    /\ UNCHANGED <<owner, registrations, objects, closed, provider, rows, heart,
                   call, failures>>

ClearStop(t) ==
    /\ NeedsThread(t)
    /\ stop' = FALSE
    /\ Goto(t, "spawning")
    /\ UNCHANGED <<owner, registrations, objects, closed, provider, rows, thread,
                   beats, beat, todo, call, failures>>

MakeThreadUncounted(t) ==
    /\ pc[t] = "spawning"
    /\ thread' = beats + 1
    /\ beat' = [beat EXCEPT ![beats + 1] = "made"]
    /\ Goto(t, "starting")
    /\ UNCHANGED <<owner, registrations, objects, closed, provider, rows, stop, beats, todo,
                   call, failures>>

MakeThread(t) ==
    /\ pc[t] = "spawning"
    /\ beats' = beats + 1
    /\ thread' = beats + 1
    /\ beat' = [beat EXCEPT ![beats + 1] = "made"]
    /\ Goto(t, "starting")
    /\ UNCHANGED <<owner, registrations, objects, closed, provider, rows, stop, todo,
                   call, failures>>

StartThread(t) ==
    /\ pc[t] = "starting"
    /\ thread # NoBeat
    /\ beat' = [beat EXCEPT ![thread] = "looping"]
    /\ owner' = None
    /\ Return(t)
    /\ UNCHANGED <<registrations, objects, closed, provider, rows, thread, stop, beats,
                   todo, failures>>

----------------------------------------------------------------------------
(* update_disk_path: checked and written without the lock.  A closed handle *)
(* raises and changes nothing.                                              *)

BeginUpdateOfAny(t, h) ==
    /\ pc[t] = "idle"
    /\ h <= handles
    /\ Goto(t, "updating")
    /\ call' = [call EXCEPT ![t] = [NoCall EXCEPT !.op = "update", !.handle = h]]
    /\ UNCHANGED <<owner, registrations, objects, closed, provider, rows, heart, failures>>

BeginUpdate(t, h) ==
    /\ pc[t] = "idle"
    /\ h <= handles
    /\ ~closed[h]
    /\ Goto(t, "updating")
    /\ call' = [call EXCEPT ![t] = [NoCall EXCEPT !.op = "update", !.handle = h]]
    /\ UNCHANGED <<owner, registrations, objects, closed, provider, rows, heart, failures>>

UpdatePath(t) ==
    /\ pc[t] = "updating"
    /\ path' = [path EXCEPT ![measurement[call[t].handle]] = call[t].handle]
    /\ Return(t)
    /\ UNCHANGED <<owner, registrations, objects, closed, provider, row, stamped, heart,
                   failures>>

(* The write to the registry raises.                                        *)
UpdatePathRaises(t) ==
    /\ pc[t] = "updating"
    /\ Fails
    /\ Return(t)
    /\ UNCHANGED <<owner, registrations, objects, closed, provider, rows, heart>>

----------------------------------------------------------------------------
(* _heartbeat_loop.                                                         *)

Wait(b) ==
    /\ beat[b] = "looping"
    /\ beat' = [beat EXCEPT ![b] = IF stop THEN "dead" ELSE "waiting"]
    /\ UNCHANGED <<owner, registrations, objects, closed, provider, rows, thread, stop,
                   beats, todo, pc, call, failures>>

Stopped(b) ==
    /\ beat[b] = "woken"
    /\ beat' = [beat EXCEPT ![b] = "dead"]
    /\ UNCHANGED <<owner, registrations, objects, closed, provider, rows, thread, stop,
                   beats, todo, pc, call, failures>>

IntervalOver(b) ==
    /\ beat[b] = "waiting"
    /\ beat' = [beat EXCEPT ![b] = "copying"]
    /\ UNCHANGED <<owner, registrations, objects, closed, provider, rows, thread, stop,
                   beats, todo, pc, call, failures>>

CopyIds(b) ==
    /\ beat[b] = "copying"
    /\ owner = None
    /\ todo' = [todo EXCEPT ![b] = Open]
    /\ beat' = [beat EXCEPT ![b] = "stamping"]
    /\ UNCHANGED <<owner, registrations, objects, closed, provider, rows, thread, stop,
                   beats, pc, call, failures>>

(* The UPDATE of a row that is not there does nothing; one that raises is   *)
(* logged, so that a round goes on.                                         *)
Stamp(b, m) ==
    /\ beat[b] = "stamping"
    /\ m \in todo[b]
    /\ todo' = [todo EXCEPT ![b] = @ \ {m}]
    /\ \/ stamped' = [stamped EXCEPT ![m] = row[m] # "absent"] /\ UNCHANGED failures
       \/ UNCHANGED stamped /\ Fails
    /\ UNCHANGED <<owner, registrations, objects, closed, provider, row, path, thread,
                   stop, beats, beat, pc, call>>

RoundOver(b) ==
    /\ beat[b] = "stamping"
    /\ todo[b] = {}
    /\ beat' = [beat EXCEPT ![b] = "looping"]
    /\ UNCHANGED <<owner, registrations, objects, closed, provider, rows, thread, stop,
                   beats, todo, pc, call, failures>>

----------------------------------------------------------------------------
Call(t) ==
    \/ \E m \in Ids, beating \in BOOLEAN : BeginRegister(t, m, beating)
    \/ \E h \in Handles : BeginClose(t, h) \/ BeginUpdate(t, h)

Stopping(t) ==
    \/ ReadThread(t) \/ SetStop(t) \/ Join(t) \/ JoinRaises(t) \/ ForgetThread(t)

Registering(t) ==
    \/ Supersede(t) \/ SupersedeRaises(t) \/ PublishProvider(t)
    \/ Record(t) \/ RecordRaises(t) \/ FirstBeat(t) \/ FirstBeatRaises(t)
    \/ FindThread(t) \/ ThreadForgotten(t) \/ KeepThread(t)
    \/ ClearStop(t) \/ MakeThread(t) \/ StartThread(t)

Closing(t) == Close(t) \/ CloseRaises(t)

Updating(t) == UpdatePath(t) \/ UpdatePathRaises(t)

Proceed(t) == Closing(t) \/ Stopping(t) \/ Registering(t) \/ Updating(t)

Beat(b) ==
    \/ Wait(b) \/ Stopped(b) \/ IntervalOver(b) \/ CopyIds(b) \/ RoundOver(b)
    \/ \E m \in Ids : Stamp(b, m)

Next ==
    \/ \E t \in Threads : Call(t) \/ Proceed(t)
    \/ \E b \in Beats : Beat(b)

Spec == Init /\ [][Next]_vars

(* Threads run.  Taking the lock is strongly fair: its holders give it back *)
(* and the interpreter does not pass over a waiting thread for ever.        *)
Fairness ==
    /\ \A t \in Threads : SF_vars(Proceed(t))
    /\ \A b \in Beats : SF_vars(Beat(b))

FairSpec == Spec /\ Fairness

----------------------------------------------------------------------------
Places == {"idle", "closing", "stopping", "setting", "joining", "forgetting",
           "superseding", "publishing", "recording", "beating", "ensuring",
           "checking", "spawning", "starting", "updating"}
Locals == [op : {"none", "close", "register", "update"}, id : Ids \cup {None},
           handle : 0..handles, beat : BOOLEAN, joined : 0..beats]

TypeOK ==
    /\ owner \in Threads \cup {None}
    /\ handles \in 0..MaxHandles
    /\ registrations \in [Ids -> 0..handles]
    /\ measurement \in [Handles -> Ids \cup {None}]
    /\ closed \in [Handles -> BOOLEAN]
    /\ beaten \in [Handles -> BOOLEAN]
    /\ provider \subseteq Ids
    /\ row \in [Ids -> {"absent", "running", "ended"}]
    /\ stamped \in [Ids -> BOOLEAN]
    /\ path \in [Ids -> 0..handles]
    /\ beats \in 0..MaxBeats
    /\ thread \in 0..beats
    /\ stop \in BOOLEAN
    /\ beat \in [Beats -> {"unborn", "made", "looping", "waiting", "woken",
                           "copying", "stamping", "dead"}]
    /\ todo \in [Beats -> SUBSET Ids]
    /\ pc \in [Threads -> Places]
    /\ call \in [Threads -> Locals]
    /\ failures \in 0..MaxFailures

(* Between two calls the three places that say a measurement is published   *)
(* agree: what has an open registration is served and has a running row,    *)
(* nothing else is served, and without a failed write nothing else has a    *)
(* running row (producer.py:421-425, 513-554).                              *)
PublicationIsConsistent ==
    owner = None =>
        /\ provider = Open
        /\ \A m \in Open : row[m] = "running"
        /\ failures = 0 => \A m \in Ids : row[m] = "running" => m \in Open

(* A registration is taken down by its own handle's close or by a           *)
(* registration of the same identifier, never by the late close of a handle *)
(* that it superseded (producer.py:421, 514-516).                           *)
TakenDownByItsOwn ==
    [][\A m \in Open :
          registrations'[m] # registrations[m] =>
              \E t \in Threads : /\ pc[t] \in {"closing", "superseding"}
                                 /\ call[t].handle = registrations[m]]_vars

(* The row of an open registration advertises that registration's path.     *)
(* Checked for one application thread and without a failed write:           *)
(* update_disk_path takes no lock, and a handle whose close raised can      *)
(* still update the path (producer.py:405-408, 419-423).                    *)
PathIsOwn ==
    failures = 0 /\ owner = None => \A m \in Open : path[m] = registrations[m]

(* While a registration that asked for a heartbeat is open, a heartbeat     *)
(* thread runs that nobody has asked to stop.  Checked for one application  *)
(* thread; a failed first stamp leaves a registration without one           *)
(* (producer.py:59-84, 426-428, 570-574).                                   *)
Steady(b) == beat[b] \in {"looping", "waiting", "copying", "stamping"} /\ ~stop
OpenIsBeaten ==
    failures = 0 /\ (\A t \in Threads : pc[t] = "idle") =>
        \A m \in Open : beaten[registrations[m]] => \E b \in Beats : Steady(b)

(* Every call returns: the join under the lock gives up on a heartbeat      *)
(* thread that waits for the lock (producer.py:87-100, 514-516).            *)
EveryCallReturns == \A t \in Threads : pc[t] # "idle" ~> pc[t] = "idle"

----------------------------------------------------------------------------
(* The properties as an inductive invariant.                                *)

Publishing == {"stopping", "setting", "joining", "forgetting", "publishing", "recording"}
Recorded == {"beating", "ensuring", "checking", "spawning", "starting"}

(* A registration has the lock from its beginning to its end.               *)
CallsAreShaped ==
    \A t \in Threads :
        /\ owner = t <=> call[t].op = "register"
        /\ pc[t] = "idle" => call[t] = NoCall
        /\ pc[t] = "closing" => call[t].op = "close" /\ call[t].handle # NoHandle
        /\ pc[t] = "updating" => call[t].op = "update" /\ call[t].handle # NoHandle
        /\ pc[t] \in {"superseding", "publishing", "recording"} \cup Recorded
              => call[t].op = "register"
        /\ call[t].op = "register" =>
              /\ call[t].id \in Ids
              /\ pc[t] # "starting" => beats < MaxBeats
              /\ pc[t] \notin Recorded => handles < MaxHandles

(* What is registered is served and running; a provider is ahead of its     *)
(* registration, and only while that one has the lock.                      *)
TablesAgree ==
    /\ \A h \in 1..handles : measurement[h] \in Ids
    /\ \A m \in Open : measurement[registrations[m]] = m /\ row[m] = "running"
    /\ \A m \in Ids :
          m \in provider <=> \/ m \in Open
                             \/ \E t \in Threads : pc[t] = "recording" /\ call[t].id = m
    /\ failures = 0 => \A m \in Ids : row[m] = "running" => m \in Open
    /\ \A t \in Threads : call[t].op = "register" =>
          /\ pc[t] = "superseding" => registrations[call[t].id] = call[t].handle
          /\ pc[t] \in Publishing => registrations[call[t].id] = NoHandle

PublicationInvariant == TypeOK /\ CallsAreShaped /\ TablesAgree

(* With one application thread, and as long as no write has failed: the     *)
(* handle that does not count as closed is the registered one, and its path *)
(* is the row's.                                                            *)
HandlesAreOpen ==
    failures = 0 =>
        /\ \A h \in 1..handles : ~closed[h] => registrations[measurement[h]] = h
        /\ \A m \in Open : path[m] = registrations[m]
        /\ \A t \in Threads : pc[t] = "updating" => ~closed[call[t].handle]

(* With one application thread: the heartbeat thread that is remembered has *)
(* not been asked to stop, except by a call that is about to forget it, and *)
(* is the one that is being started, if one is.                             *)
HeartIsSteady ==
    /\ thread # NoBeat /\ (\A t \in Threads : pc[t] \notin {"joining", "forgetting", "starting"})
          => Steady(thread)
    /\ \A t \in Threads :
          /\ pc[t] \in {"stopping", "setting", "joining", "forgetting"} => Open = {}
          /\ pc[t] = "checking" => thread # NoBeat
          /\ pc[t] = "spawning" => thread = NoBeat /\ ~stop
          /\ pc[t] = "starting" => thread # NoBeat /\ ~stop
    /\ \A b \in Beats :
          beat[b] = "made" => thread = b /\ \E t \in Threads : pc[t] = "starting"
    /\ failures = 0 => \A m \in Open :
          beaten[registrations[m]] =>
              thread # NoBeat \/ \E t \in Threads : pc[t] \in Recorded

SequentialInvariant == PublicationInvariant /\ HandlesAreOpen /\ HeartIsSteady
=============================================================================
