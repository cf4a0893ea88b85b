--------------------------- MODULE PublicationProofs ---------------------------
(* Proofs about Publication, for every value of its constants.              *)
EXTENDS Publication, TLAPS

----------------------------------------------------------------------------
(* The invariant that holds whatever threads there are.                     *)

LEMMA InitPublication == Init => PublicationInvariant
  <1> SUFFICES ASSUME Init PROVE PublicationInvariant
    OBVIOUS
  <1> USE NoneAssumption, BoundsAssumption DEF Init, NoHandle, NoBeat, NoCall, Handles, Beats
  <1>1. TypeOK
    <2>1. NoCall \in Locals
      BY DEF Locals
    <2>2. handles \in 0..MaxHandles /\ beats \in 0..MaxBeats /\ failures \in 0..MaxFailures
      OBVIOUS
    <2>3. /\ registrations \in [Ids -> 0..handles] /\ path \in [Ids -> 0..handles]
          /\ measurement \in [Handles -> Ids \cup {None}] /\ thread \in 0..beats
      OBVIOUS
    <2>4. pc \in [Threads -> Places]
      BY DEF Places
    <2>5. call \in [Threads -> Locals]
      BY <2>1
    <2> QED BY <2>2, <2>3, <2>4, <2>5 DEF TypeOK
  <1>2. CallsAreShaped
    BY DEF CallsAreShaped, Recorded
  <1>3. TablesAgree
    BY DEF TablesAgree, Open
  <1> QED BY <1>1, <1>2, <1>3 DEF PublicationInvariant

LEMMA Bounded ==
  ASSUME TypeOK
  PROVE  /\ handles \in Nat /\ handles <= MaxHandles /\ beats \in Nat /\ beats <= MaxBeats
         /\ failures \in Nat /\ failures <= MaxFailures
         /\ MaxHandles \in Nat /\ MaxBeats \in Nat /\ MaxFailures \in Nat
  BY BoundsAssumption DEF TypeOK

(* Going to another place leaves the other threads where they are. *)
LEMMA GotoType ==
  ASSUME TypeOK, NEW t \in Threads, NEW place, Goto(t, place),
         place \in Places
  PROVE  /\ pc' \in [Threads -> Places]
         /\ pc'[t] = place
         /\ \A u \in Threads : u # t => pc'[u] = pc[u]
  BY DEF TypeOK, Goto

----------------------------------------------------------------------------
(* Calls begin.                                                             *)

LEMMA NoCallType == ASSUME TypeOK PROVE NoCall \in Locals
  BY Bounded DEF NoCall, Locals, NoHandle, NoBeat

(* A call on handle h, with local variables r. *)
LEMMA BeginOnHandle ==
  ASSUME PublicationInvariant, NEW t \in Threads, pc[t] = "idle",
         NEW r \in Locals, r.handle # NoHandle,
         \/ r.op = "close" /\ Goto(t, "closing")
         \/ r.op = "update" /\ Goto(t, "updating"),
         call' = [call EXCEPT ![t] = r],
         UNCHANGED <<owner, registrations, objects, closed, provider, rows, heart, failures>>
  PROVE  PublicationInvariant'
  <1> USE NoneAssumption DEF PublicationInvariant, objects, rows, heart, Handles
  <1>1. /\ pc' \in [Threads -> Places] /\ pc'[t] \in {"closing", "updating"}
        /\ r.op = IF pc'[t] = "closing" THEN "close" ELSE "update"
        /\ \A u \in Threads : u # t => pc'[u] = pc[u]
    BY GotoType DEF Places
  <1>2. call'[t] = r /\ \A u \in Threads : u # t => call'[u] = call[u]
    BY DEF TypeOK
  <1>3. call[t].op = "none" /\ owner # t
    BY DEF CallsAreShaped, NoCall
  <1>4. TypeOK'
    <2>1. Locals' = Locals
      BY DEF Locals
    <2> QED BY <1>1, <2>1 DEF TypeOK
  <1>5. CallsAreShaped'
    BY <1>1, <1>2, <1>3 DEF CallsAreShaped, Recorded
  <1>6. TablesAgree'
    BY <1>1, <1>2, <1>3 DEF TablesAgree, Open, Publishing
  <1> QED BY <1>4, <1>5, <1>6

LEMMA CallPublication ==
  ASSUME PublicationInvariant, NEW t \in Threads, Call(t) PROVE PublicationInvariant'
  <1> USE NoneAssumption DEF PublicationInvariant, objects, rows, heart, Handles, NoHandle,
                             NoBeat
  <1>1. ASSUME NEW m \in Ids, NEW beating \in BOOLEAN, BeginRegister(t, m, beating)
        PROVE  PublicationInvariant'
    <2> DEFINE r == [op |-> "register", id |-> m, beat |-> beating,
                     handle |-> registrations[m], joined |-> NoBeat]
    <2>1. /\ UNCHANGED <<registrations, objects, closed, provider, rows, heart, failures>>
          /\ owner = None /\ owner' = t /\ pc[t] = "idle"
          /\ handles < MaxHandles /\ beats < MaxBeats
          /\ call' = [call EXCEPT ![t] = r] /\ Goto(t, "superseding")
      BY <1>1 DEF BeginRegister
    <2>2. /\ pc'[t] = "superseding" /\ call'[t] = r
          /\ \A u \in Threads : u # t => pc'[u] = pc[u] /\ call'[u] = call[u]
      BY <2>1, GotoType DEF TypeOK, Places
    <2>3. TypeOK'
      <3>1. r \in Locals /\ Locals' = Locals
        BY <2>1, Bounded DEF TypeOK, Locals
      <3>2. pc' \in [Threads -> Places]
        BY <2>1, GotoType DEF Places
      <3> HIDE DEF r
      <3> QED BY <2>1, <3>1, <3>2 DEF TypeOK
    <2>4. CallsAreShaped'
      BY <2>1, <2>2 DEF CallsAreShaped, Recorded
    <2>5. TablesAgree'
      BY <2>1, <2>2 DEF TablesAgree, Open, Publishing, CallsAreShaped
    <2> QED BY <2>3, <2>4, <2>5
  <1>2. ASSUME NEW h \in Handles, BeginClose(t, h) PROVE PublicationInvariant'
    <2>1. h \in 0..handles /\ h # 0
      BY <1>2, Bounded DEF BeginClose
    <2> DEFINE r == [NoCall EXCEPT !.op = "close", !.handle = h]
    <2>2. r \in Locals /\ r.op = "close" /\ r.handle = h
      <3>1. NoCall \in Locals
        BY NoCallType
      <3>2. r \in Locals
        BY <2>1, <3>1 DEF Locals
      <3> QED BY <3>1, <3>2 DEF Locals
    <2>3. call' = [call EXCEPT ![t] = r]
      BY <1>2 DEF BeginClose
    <2> HIDE DEF r
    <2> QED BY <1>2, <2>1, <2>2, <2>3, BeginOnHandle DEF BeginClose
  <1>3. ASSUME NEW h \in Handles, BeginUpdate(t, h) PROVE PublicationInvariant'
    <2>1. h \in 0..handles /\ h # 0
      BY <1>3, Bounded DEF BeginUpdate
    <2> DEFINE r == [NoCall EXCEPT !.op = "update", !.handle = h]
    <2>2. r \in Locals /\ r.op = "update" /\ r.handle = h
      <3>1. NoCall \in Locals
        BY NoCallType
      <3>2. r \in Locals
        BY <2>1, <3>1 DEF Locals
      <3> QED BY <3>1, <3>2 DEF Locals
    <2>3. call' = [call EXCEPT ![t] = r]
      BY <1>3 DEF BeginUpdate
    <2> HIDE DEF r
    <2> QED BY <1>3, <2>1, <2>2, <2>3, BeginOnHandle DEF BeginUpdate
  <1> QED BY <1>1, <1>2, <1>3 DEF Call

----------------------------------------------------------------------------
(* close.                                                                   *)

LEMMA ReturnType ==
  ASSUME TypeOK, NEW t \in Threads, Return(t)
  PROVE  /\ pc' \in [Threads -> Places] /\ call' \in [Threads -> Locals]
         /\ pc'[t] = "idle" /\ call'[t] = NoCall
         /\ \A u \in Threads : u # t => pc'[u] = pc[u] /\ call'[u] = call[u]
  <1>1. Goto(t, "idle") /\ call' = [call EXCEPT ![t] = NoCall]
    BY DEF Return
  <1>2. NoCall \in Locals /\ "idle" \in Places
    BY NoCallType DEF Places
  <1> QED BY <1>1, <1>2, GotoType DEF TypeOK

(* What taking a publication down does, whoever does it: the measurement of *)
(* h is neither registered nor served any more, and nothing else changes.   *)
LEMMA UnlinkFacts ==
  ASSUME PublicationInvariant, NEW h \in 1..handles, IsOpen(h), Unlink(h),
         row' \in {row, [row EXCEPT ![measurement[h]] = "ended"]}
  PROVE  /\ registrations' \in [Ids -> 0..handles] /\ provider' \subseteq Ids
         /\ row' \in [Ids -> {"absent", "running", "ended"}]
         /\ measurement[h] \in Ids /\ measurement[h] \in Open
         /\ \A m \in Ids : m # measurement[h] =>
               /\ registrations'[m] = registrations[m]
               /\ row'[m] = row[m]
               /\ m \in provider' <=> m \in provider
         /\ registrations'[measurement[h]] = NoHandle /\ measurement[h] \notin provider'
  <1> USE DEF PublicationInvariant
  <1>1. measurement[h] \in Ids
    BY DEF TablesAgree
  <1>2. /\ registrations' = [registrations EXCEPT ![measurement[h]] = NoHandle]
        /\ provider' = provider \ {measurement[h]}
    BY DEF Unlink
  <1>3. 0 \in 0..handles /\ h # 0
    BY Bounded
  <1> QED BY <1>1, <1>2, <1>3 DEF TypeOK, IsOpen, NoHandle, Open

LEMMA CloseFacts ==
  ASSUME PublicationInvariant, NEW h \in 1..handles, CloseHandle(h)
  PROVE  /\ failures' = failures
         /\ closed' = [closed EXCEPT ![h] = TRUE] /\ closed' \in [Handles -> BOOLEAN]
         /\ \/ /\ IsOpen(h) /\ Unlink(h)
               /\ row' = [row EXCEPT ![measurement[h]] = "ended"]
            \/ ~IsOpen(h) /\ UNCHANGED <<registrations, provider, row>>
  <1> USE DEF PublicationInvariant
  <1>1. /\ failures' = failures /\ closed' = [closed EXCEPT ![h] = TRUE]
        /\ \/ IsOpen(h) /\ Unlink(h) /\ EndRow(measurement[h])
           \/ ~IsOpen(h) /\ UNCHANGED <<registrations, provider, row>>
    BY DEF CloseHandle
  <1>2. closed' \in [Handles -> BOOLEAN]
    BY <1>1 DEF TypeOK
  <1>3. IsOpen(h) => row[measurement[h]] = "running"
    <2>1. measurement[h] \in Ids /\ h # 0
      BY Bounded DEF TablesAgree
    <2> QED BY <2>1 DEF TablesAgree, IsOpen, Open, NoHandle
  <1>4. EndRow(measurement[h]) /\ row[measurement[h]] = "running"
           => row' = [row EXCEPT ![measurement[h]] = "ended"]
    BY DEF EndRow
  <1> QED BY <1>1, <1>2, <1>3, <1>4

LEMMA ClosingPublication ==
  ASSUME PublicationInvariant, NEW t \in Threads, Closing(t) PROVE PublicationInvariant'
  <1> USE NoneAssumption DEF PublicationInvariant
  <1> DEFINE h == call[t].handle
  <1>1. /\ pc[t] = "closing" /\ owner = None
        /\ UNCHANGED <<owner, objects, stamped, path, heart>>
    BY DEF Closing, Close, CloseRaises
  <1>2. h \in 1..handles
    <2>1. h \in 0..handles /\ h # 0
      BY <1>1 DEF CallsAreShaped, TypeOK, Locals, NoHandle
    <2> QED BY <2>1, Bounded
  <1>3. \A u \in Threads : call[u].op # "register" /\ pc[u] # "recording"
    BY <1>1 DEF CallsAreShaped
  <1>4. /\ pc' \in [Threads -> Places] /\ call' \in [Threads -> Locals]
        /\ \/ pc'[t] = "stopping" /\ call'[t] = call[t]
           \/ pc'[t] = "idle" /\ call'[t] = NoCall
        /\ \A u \in Threads : u # t => pc'[u] = pc[u] /\ call'[u] = call[u]
    <2>1. CASE Goto(t, "stopping") /\ UNCHANGED call
      <3>1. "stopping" \in Places
        BY DEF Places
      <3> QED BY <2>1, <3>1, GotoType DEF TypeOK
    <2>2. CASE Return(t)
      BY <2>2, ReturnType
    <2> QED BY <2>1, <2>2 DEF Closing, Close, CloseRaises
  <1>5. /\ closed' \in [Handles -> BOOLEAN] /\ failures' \in 0..MaxFailures
        /\ failures' = 0 => failures = 0
        /\ \/ /\ IsOpen(h) /\ Unlink(h)
              /\ \/ row' = [row EXCEPT ![measurement[h]] = "ended"]
                 \/ failures' # 0 /\ row' = row
           \/ ~IsOpen(h) /\ UNCHANGED <<registrations, provider, row>>
    <2>1. CASE Close(t)
      <3>1. CloseHandle(h)
        BY <2>1 DEF Close
      <3> HIDE DEF h
      <3> QED BY <1>2, <3>1, CloseFacts DEF TypeOK
    <2>2. CASE CloseRaises(t)
      <3>1. IsOpen(h) /\ Unlink(h) /\ UNCHANGED <<row, closed>> /\ Fails
        BY <2>2 DEF CloseRaises, FailToClose
      <3>2. failures' \in 0..MaxFailures /\ failures' # 0
        BY <3>1, Bounded DEF Fails
      <3> QED BY <3>1, <3>2 DEF TypeOK
    <2> QED BY <2>1, <2>2 DEF Closing
  <1> HIDE DEF h
  <1>6. /\ registrations' \in [Ids -> 0..handles] /\ provider' \subseteq Ids
        /\ row' \in [Ids -> {"absent", "running", "ended"}]
    BY <1>2, <1>5, UnlinkFacts DEF TypeOK
  <1>7. TypeOK'
    <2>1. Locals' = Locals
      BY <1>1 DEF Locals, objects, heart
    <2> QED BY <1>1, <1>4, <1>5, <1>6, <2>1 DEF TypeOK, objects, heart
  <1>8. CallsAreShaped'
    BY <1>1, <1>3, <1>4 DEF CallsAreShaped, objects, heart, Recorded, NoCall
  <1>9. TablesAgree'
    <2>1. \A u \in Threads : call'[u].op # "register" /\ pc'[u] # "recording"
      BY <1>3, <1>4 DEF NoCall
    <2>2. CASE IsOpen(h) /\ Unlink(h)
      BY <1>1, <1>2, <1>3, <1>5, <2>1, <2>2, UnlinkFacts DEF TablesAgree, Open, objects
    <2>3. CASE ~IsOpen(h) /\ UNCHANGED <<registrations, provider, row>>
      BY <1>1, <1>3, <1>5, <2>1, <2>3 DEF TablesAgree, Open, objects
    <2> QED BY <1>5, <2>2, <2>3
  <1> QED BY <1>7, <1>8, <1>9

----------------------------------------------------------------------------
(* Steps that leave the tables alone.                                       *)

HeartType ==
  /\ beats \in 0..MaxBeats /\ thread \in 0..beats /\ stop \in BOOLEAN
  /\ beat \in [Beats -> {"unborn", "made", "looping", "waiting", "woken", "copying",
                         "stamping", "dead"}]
  /\ todo \in [Beats -> SUBSET Ids]

(* A call goes on from place to place, its identifier and handle unchanged. *)
LEMMA MovePublication ==
  ASSUME PublicationInvariant, NEW t \in Threads, NEW place, Goto(t, place),
         UNCHANGED <<owner, registrations, objects, closed, provider, row, path, beats, failures>>,
         stamped' \in [Ids -> BOOLEAN], HeartType',
         call' \in [Threads -> Locals],
         \A u \in Threads : u # t => call'[u] = call[u],
         /\ call'[t].op = call[t].op /\ call'[t].id = call[t].id
         /\ call'[t].handle = call[t].handle,
         \/ /\ pc[t] \in Publishing \ {"recording"}
            /\ place \in Publishing \ {"recording"}
            /\ place = "publishing" => call[t].op = "register"
         \/ pc[t] \in Recorded \ {"starting"} /\ place \in Recorded \ {"starting"}
  PROVE  PublicationInvariant'
  <1> USE DEF PublicationInvariant, objects
  <1>1. place \in Places /\ place \notin {"idle", "closing", "updating", "superseding"}
    BY DEF Publishing, Recorded, Places
  <1>2. /\ pc' \in [Threads -> Places] /\ pc'[t] = place
        /\ \A u \in Threads : u # t => pc'[u] = pc[u]
    BY <1>1, GotoType
  <1>3. TypeOK'
    <2>1. Locals' = Locals
      BY DEF Locals
    <2> QED BY <1>2, <2>1 DEF TypeOK, HeartType
  <1>4. CallsAreShaped'
    BY <1>1, <1>2 DEF CallsAreShaped, Publishing, Recorded
  <1>5. TablesAgree'
    <2>1. \A u \in Threads : call'[u].op = call[u].op /\ call'[u].id = call[u].id
                             /\ call'[u].handle = call[u].handle
      OBVIOUS
    <2>2. \A u \in Threads : pc'[u] = "recording" <=> pc[u] = "recording"
      BY <1>2 DEF Publishing, Recorded
    <2>3. \A u \in Threads : call[u].op = "register" =>
             /\ pc'[u] = "superseding" => pc[u] = "superseding"
             /\ pc'[u] \in Publishing => pc[u] \in Publishing
      BY <1>1, <1>2 DEF Publishing, Recorded
    <2> QED BY <2>1, <2>2, <2>3 DEF TablesAgree, Open
  <1> QED BY <1>3, <1>4, <1>5

(* A call returns, or raises; one with the lock gives it back. *)
LEMMA ReturnPublication ==
  ASSUME PublicationInvariant, NEW t \in Threads, Return(t), pc[t] # "recording",
         UNCHANGED <<registrations, objects, closed, provider, row, stamped>>,
         \/ owner' = owner /\ call[t].op # "register"
         \/ owner = t /\ owner' = None,
         beats' = beats, path' \in [Ids -> 0..handles], HeartType',
         failures' \in 0..MaxFailures, failures' = 0 => failures = 0
  PROVE  PublicationInvariant'
  <1> USE NoneAssumption DEF PublicationInvariant, objects
  <1>1. /\ pc' \in [Threads -> Places] /\ call' \in [Threads -> Locals]
        /\ pc'[t] = "idle" /\ call'[t] = NoCall
        /\ \A u \in Threads : u # t => pc'[u] = pc[u] /\ call'[u] = call[u]
    BY ReturnType
  <1>2. TypeOK'
    <2>1. Locals' = Locals
      BY DEF Locals
    <2> QED BY <1>1, <2>1 DEF TypeOK, HeartType
  <1>3. CallsAreShaped'
    <2>1. ASSUME NEW u \in Threads, u # t
          PROVE  owner' = u <=> call[u].op = "register"
      BY <2>1 DEF CallsAreShaped
    <2>2. owner' # t /\ call'[t].op # "register"
      BY <1>1 DEF CallsAreShaped, NoCall
    <2> QED BY <1>1, <2>1, <2>2 DEF CallsAreShaped, Recorded
  <1>4. TablesAgree'
    <2>1. \A u \in Threads :
             /\ pc'[u] = "recording" <=> pc[u] = "recording"
             /\ pc[u] = "recording" => call'[u] = call[u]
      BY <1>1
    <2>2. \A u \in Threads : call'[u].op = "register" => call'[u] = call[u] /\ pc'[u] = pc[u]
      BY <1>1 DEF NoCall
    <2> QED BY <2>1, <2>2 DEF TablesAgree, Open
  <1> QED BY <1>2, <1>3, <1>4

LEMMA HeartTyped == TypeOK => HeartType
  BY DEF TypeOK, HeartType

LEMMA StoppingPublication ==
  ASSUME PublicationInvariant, NEW t \in Threads, Stopping(t) PROVE PublicationInvariant'
  <1> USE DEF PublicationInvariant, rows, heart
  <1>1. CASE ReadThread(t)
    <2> DEFINE r == [call[t] EXCEPT !.joined = thread]
    <2>1. /\ r \in Locals /\ r.op = call[t].op /\ r.id = call[t].id
          /\ r.handle = call[t].handle
      BY DEF TypeOK, Locals
    <2>2. call' = [call EXCEPT ![t] = r]
      BY <1>1 DEF ReadThread
    <2> HIDE DEF r
    <2>3. /\ call' \in [Threads -> Locals] /\ call'[t] = r
          /\ \A u \in Threads : u # t => call'[u] = call[u]
      BY <2>1, <2>2 DEF TypeOK
    <2>4. HeartType' /\ stamped' \in [Ids -> BOOLEAN]
      BY <1>1, HeartTyped DEF ReadThread, HeartType, TypeOK
    <2> QED
      BY <1>1, <2>1, <2>3, <2>4, MovePublication DEF ReadThread, Publishing
  <1>2. CASE SetStop(t)
    <2>1. HeartType'
      BY <1>2, HeartTyped DEF SetStop, HeartType
    <2>2. call' = call /\ stamped' \in [Ids -> BOOLEAN] /\ call \in [Threads -> Locals]
      BY <1>2 DEF SetStop, TypeOK
    <2> QED BY <1>2, <2>1, <2>2, MovePublication DEF SetStop, Publishing
  <1>3. CASE Join(t)
    <2>1. HeartType'
      BY <1>3, HeartTyped DEF Join, HeartType
    <2>2. call' = call /\ stamped' \in [Ids -> BOOLEAN] /\ call \in [Threads -> Locals]
      BY <1>3 DEF Join, TypeOK
    <2> QED BY <1>3, <2>1, <2>2, MovePublication DEF Join, Publishing
  <1>4. CASE ForgetThread(t)
    <2>1. HeartType'
      BY <1>4, HeartTyped, Bounded DEF ForgetThread, HeartType, NoBeat
    <2>2. stamped' \in [Ids -> BOOLEAN] /\ path' \in [Ids -> 0..handles]
          /\ failures' \in 0..MaxFailures /\ failures' = failures
      BY <1>4 DEF ForgetThread, TypeOK
    <2>3. CASE call[t].op = "register"
      <3>1. call' = call /\ call \in [Threads -> Locals]
        BY <1>4, <2>3 DEF ForgetThread, TypeOK
      <3> QED BY <1>4, <2>1, <2>2, <2>3, <3>1, MovePublication DEF ForgetThread, Publishing
    <2>4. CASE call[t].op # "register"
      BY <1>4, <2>1, <2>2, <2>4, ReturnPublication DEF ForgetThread
    <2> QED BY <2>3, <2>4
  <1>5. CASE JoinRaises(t)
    <2>1. /\ HeartType' /\ path' \in [Ids -> 0..handles]
          /\ failures' \in 0..MaxFailures /\ failures' = failures /\ pc[t] # "recording"
      BY <1>5, HeartTyped DEF JoinRaises, HeartType, TypeOK
    <2>2. \/ owner' = owner /\ call[t].op # "register"
          \/ owner = t /\ owner' = None
      BY <1>5 DEF JoinRaises, CallsAreShaped
    <2> QED BY <1>5, <2>1, <2>2, ReturnPublication DEF JoinRaises
  <1> QED BY <1>1, <1>2, <1>3, <1>4, <1>5 DEF Stopping

LEMMA UpdatePublication ==
  ASSUME PublicationInvariant, NEW t \in Threads, Updating(t) PROVE PublicationInvariant'
  <1> USE DEF PublicationInvariant
  <1>1. HeartType' /\ path' \in [Ids -> 0..handles]
    BY HeartTyped DEF Updating, UpdatePath, UpdatePathRaises, HeartType, heart, rows, TypeOK,
                      Locals
  <1>2. pc[t] = "updating" /\ call[t].op # "register"
    BY DEF Updating, UpdatePath, UpdatePathRaises, CallsAreShaped
  <1>3. failures' \in 0..MaxFailures /\ (failures' = 0 => failures = 0)
    BY Bounded DEF Updating, UpdatePath, UpdatePathRaises, Fails, TypeOK
  <1>4. Return(t) /\ UNCHANGED <<owner, registrations, objects, closed, provider, row, stamped,
                                beats>>
    BY DEF Updating, UpdatePath, UpdatePathRaises, heart, rows
  <1> QED BY <1>1, <1>2, <1>3, <1>4, ReturnPublication

(* Heartbeat threads only stamp. *)
LEMMA BeatPublication ==
  ASSUME PublicationInvariant, NEW b \in Beats, Beat(b) PROVE PublicationInvariant'
  <1> USE DEF PublicationInvariant
  <1>1. UNCHANGED <<owner, registrations, objects, closed, provider, row, path, thread, stop,
                    beats, pc, call>>
    BY DEF Beat, Wait, Stopped, IntervalOver, CopyIds, RoundOver, Stamp, rows
  <1>2. beat' \in [Beats -> {"unborn", "made", "looping", "waiting", "woken", "copying",
                             "stamping", "dead"}]
    BY DEF Beat, Wait, Stopped, IntervalOver, CopyIds, RoundOver, Stamp, TypeOK
  <1>3. todo' \in [Beats -> SUBSET Ids] /\ stamped' \in [Ids -> BOOLEAN]
    BY DEF Beat, Wait, Stopped, IntervalOver, CopyIds, RoundOver, Stamp, TypeOK, Open, rows
  <1>4. failures' \in 0..MaxFailures /\ (failures' = 0 => failures = 0)
    BY Bounded DEF Beat, Wait, Stopped, IntervalOver, CopyIds, RoundOver, Stamp, Fails
  <1>5. TypeOK'
    BY <1>1, <1>2, <1>3, <1>4 DEF TypeOK, Locals, objects
  <1>6. CallsAreShaped'
    BY <1>1 DEF CallsAreShaped, objects
  <1>7. TablesAgree'
    BY <1>1, <1>4 DEF TablesAgree, Open, objects
  <1> QED BY <1>5, <1>6, <1>7

----------------------------------------------------------------------------
(* register_live_measurement.                                               *)

(* The old handle is closed: the identifier is free for the new one. *)
LEMMA SupersedePublication ==
  ASSUME PublicationInvariant, NEW t \in Threads, Supersede(t) PROVE PublicationInvariant'
  <1> USE DEF PublicationInvariant
  <1> DEFINE m == call[t].id
             h == call[t].handle
  <1>1. /\ pc[t] = "superseding" /\ call[t].op = "register" /\ m \in Ids
        /\ registrations[m] = h /\ h \in 0..handles
        /\ UNCHANGED <<owner, objects, stamped, path, heart, call>>
    BY DEF Supersede, CallsAreShaped, TablesAgree, TypeOK, Locals
  <1>2. \A u \in Threads : call[u].op = "register" <=> u = t
    BY <1>1 DEF CallsAreShaped
  <1>3. /\ pc' \in [Threads -> Places] /\ pc'[t] \in {"stopping", "publishing"}
        /\ \A u \in Threads : u # t => pc'[u] = pc[u]
    <2>1. Goto(t, "stopping") \/ Goto(t, "publishing")
      BY DEF Supersede
    <2>2. "stopping" \in Places /\ "publishing" \in Places
      BY DEF Places
    <2> QED BY <2>1, <2>2, GotoType
  <1>4. \/ /\ h \in 1..handles /\ measurement[h] = m /\ IsOpen(h) /\ Unlink(h)
           /\ row' = [row EXCEPT ![m] = "ended"]
           /\ closed' \in [Handles -> BOOLEAN] /\ failures' = failures
        \/ h = NoHandle /\ UNCHANGED <<registrations, provider, row, closed, failures>>
    <2>1. CASE h # NoHandle
      <3>1. h \in 1..handles /\ CloseHandle(h)
        BY <1>1, <2>1, Bounded DEF Supersede, NoHandle
      <3>2. measurement[h] = m /\ IsOpen(h)
        BY <1>1, <2>1 DEF TablesAgree, Open, IsOpen
      <3> HIDE DEF h, m
      <3> QED BY <3>1, <3>2, CloseFacts
    <2>2. CASE h = NoHandle
      BY <2>2 DEF Supersede
    <2> QED BY <2>1, <2>2
  <1> HIDE DEF m, h
  <1>5. /\ registrations' \in [Ids -> 0..handles] /\ provider' \subseteq Ids
        /\ row' \in [Ids -> {"absent", "running", "ended"}]
        /\ closed' \in [Handles -> BOOLEAN] /\ failures' = failures
        /\ registrations'[m] = NoHandle
        /\ \A n \in Ids : n # m => /\ registrations'[n] = registrations[n]
                                   /\ row'[n] = row[n]
                                   /\ n \in provider' <=> n \in provider
        /\ m \notin provider' /\ (failures = 0 => row'[m] # "running")
    <2>1. \A u \in Threads : pc[u] # "recording"
      BY <1>1, <1>2 DEF CallsAreShaped
    <2>2. CASE h = NoHandle
      BY <1>1, <1>4, <2>1, <2>2, Bounded DEF TypeOK, TablesAgree, Open, NoHandle
    <2>3. CASE h # NoHandle
      BY <1>1, <1>4, <2>3, UnlinkFacts DEF TypeOK
    <2> QED BY <2>2, <2>3
  <1>6. TypeOK'
    <2>1. Locals' = Locals
      BY <1>1 DEF Locals, objects, heart
    <2> QED BY <1>1, <1>3, <1>5, <2>1 DEF TypeOK, objects, heart
  <1>7. CallsAreShaped'
    BY <1>1, <1>3 DEF CallsAreShaped, Recorded, objects, heart
  <1>8. TablesAgree'
    <2>1. \A u \in Threads : pc'[u] # "recording" /\ pc[u] # "recording"
      BY <1>1, <1>2, <1>3 DEF CallsAreShaped
    <2>2. \A n \in Ids : registrations'[n] # NoHandle => n # m
      BY <1>5
    <2>3. \A u \in Threads : call'[u].op = "register" => u = t /\ call'[u].id = m
      BY <1>1, <1>2 DEF m
    <2>4. pc'[t] # "superseding"
      BY <1>3
    <2> QED BY <1>1, <1>5, <2>1, <2>2, <2>3, <2>4 DEF TablesAgree, Open, objects
  <1> QED BY <1>6, <1>7, <1>8

LEMMA SupersedeRaisesPublication ==
  ASSUME PublicationInvariant, NEW t \in Threads, SupersedeRaises(t)
  PROVE  PublicationInvariant'
  <1> USE NoneAssumption DEF PublicationInvariant
  <1> DEFINE h == call[t].handle
  <1>1. /\ pc[t] = "superseding" /\ call[t].op = "register" /\ owner' = None /\ owner = t
        /\ UNCHANGED <<objects, stamped, path, heart, row, closed>>
        /\ IsOpen(h) /\ Unlink(h) /\ Fails
    BY DEF SupersedeRaises, FailToClose, CallsAreShaped
  <1>2. h \in 1..handles
    <2>1. h \in 0..handles /\ h # 0
      BY DEF SupersedeRaises, TypeOK, Locals, NoHandle
    <2> QED BY <2>1, Bounded
  <1>3. /\ pc' \in [Threads -> Places] /\ call' \in [Threads -> Locals]
        /\ pc'[t] = "idle" /\ call'[t] = NoCall
        /\ \A u \in Threads : u # t => pc'[u] = pc[u] /\ call'[u] = call[u]
    BY ReturnType DEF SupersedeRaises
  <1>4. failures' \in 0..MaxFailures /\ failures' # 0
    BY <1>1, Bounded DEF Fails
  <1>5. \A u \in Threads : u # t => call[u].op # "register" /\ pc[u] # "recording"
    BY <1>1 DEF CallsAreShaped
  <1> HIDE DEF h
  <1>6. /\ registrations' \in [Ids -> 0..handles] /\ provider' \subseteq Ids
        /\ measurement[h] \in Ids
        /\ \A m \in Ids : m # measurement[h] =>
              /\ registrations'[m] = registrations[m]
              /\ m \in provider' <=> m \in provider
        /\ registrations'[measurement[h]] = NoHandle /\ measurement[h] \notin provider'
    BY <1>1, <1>2, UnlinkFacts
  <1>7. TypeOK'
    <2>1. Locals' = Locals
      BY <1>1 DEF Locals, objects, heart
    <2> QED BY <1>1, <1>3, <1>4, <1>6, <2>1 DEF TypeOK, objects, heart
  <1>8. CallsAreShaped'
    BY <1>1, <1>3, <1>5 DEF CallsAreShaped, Recorded, objects, heart, NoCall
  <1>9. TablesAgree'
    <2>1. \A u \in Threads : call'[u].op # "register" /\ pc'[u] # "recording"
      BY <1>3, <1>5 DEF NoCall
    <2>2. \A u \in Threads : pc[u] # "recording"
      BY <1>1, <1>5
    <2> QED BY <1>1, <1>4, <1>6, <2>1, <2>2 DEF TablesAgree, Open, objects
  <1> QED BY <1>7, <1>8, <1>9

(* While a registration has the lock, it is the only one. *)
LEMMA Registering1 ==
  ASSUME PublicationInvariant, NEW t \in Threads, call[t].op = "register"
  PROVE  /\ owner = t /\ call[t].id \in Ids
         /\ \A u \in Threads : u # t => call[u].op # "register" /\ pc[u] # "recording"
  BY DEF PublicationInvariant, CallsAreShaped

(* Clients can see the provider before there is a registration. *)
LEMMA ProviderPublication ==
  ASSUME PublicationInvariant, NEW t \in Threads, PublishProvider(t)
  PROVE  PublicationInvariant'
  <1> USE DEF PublicationInvariant
  <1> DEFINE m == call[t].id
  <1>1. /\ pc[t] = "publishing" /\ call[t].op = "register" /\ m \in Ids
        /\ UNCHANGED <<owner, registrations, objects, closed, rows, heart, call, failures>>
        /\ provider' = provider \cup {m}
        /\ \A u \in Threads : u # t => call[u].op # "register" /\ pc[u] # "recording"
    BY Registering1 DEF PublishProvider, CallsAreShaped
  <1>2. /\ pc' \in [Threads -> Places] /\ pc'[t] = "recording"
        /\ \A u \in Threads : u # t => pc'[u] = pc[u]
    BY GotoType DEF PublishProvider, Places
  <1>3. TypeOK'
    BY <1>1, <1>2 DEF TypeOK, Locals, objects, rows, heart
  <1>4. CallsAreShaped'
    BY <1>1, <1>2 DEF CallsAreShaped, Recorded, objects, heart
  <1>5. TablesAgree'
    <2>1. \A n \in Ids : n \in provider' <=> \/ n \in Open'
                            \/ \E u \in Threads : pc'[u] = "recording" /\ call'[u].id = n
      <3>1. \A n \in Ids : n \in provider <=> n \in Open
        BY <1>1 DEF TablesAgree
      <3>2. Open' = Open /\ call' = call
        BY <1>1 DEF Open
      <3>3. \A u \in Threads : pc'[u] = "recording" <=> u = t
        BY <1>1, <1>2
      <3> QED BY <1>1, <3>1, <3>2, <3>3
    <2>2. \A u \in Threads : call'[u].op = "register" =>
          /\ pc'[u] = "superseding" => registrations'[call'[u].id] = call'[u].handle
          /\ pc'[u] \in Publishing => registrations'[call'[u].id] = NoHandle
      BY <1>1, <1>2 DEF TablesAgree, Publishing
    <2> HIDE DEF m
    <2> QED BY <1>1, <2>1, <2>2 DEF TablesAgree, Open, objects, rows
  <1> QED BY <1>3, <1>4, <1>5

LEMMA RecordRaisesPublication ==
  ASSUME PublicationInvariant, NEW t \in Threads, RecordRaises(t)
  PROVE  PublicationInvariant'
  <1> USE NoneAssumption DEF PublicationInvariant
  <1> DEFINE m == call[t].id
  <1>1. /\ pc[t] = "recording" /\ call[t].op = "register" /\ m \in Ids /\ owner = t
        /\ owner' = None /\ UNCHANGED <<registrations, objects, closed, rows, heart>>
        /\ provider' = provider \ {m} /\ Fails
        /\ \A u \in Threads : u # t => call[u].op # "register" /\ pc[u] # "recording"
    BY Registering1 DEF RecordRaises, CallsAreShaped
  <1>2. /\ pc' \in [Threads -> Places] /\ call' \in [Threads -> Locals]
        /\ pc'[t] = "idle" /\ call'[t] = NoCall
        /\ \A u \in Threads : u # t => pc'[u] = pc[u] /\ call'[u] = call[u]
    BY ReturnType DEF RecordRaises
  <1>3. failures' \in 0..MaxFailures /\ failures' # 0
    BY <1>1, Bounded DEF Fails
  <1>4. registrations[m] = NoHandle
    BY <1>1 DEF TablesAgree, Publishing
  <1> HIDE DEF m
  <1>5. TypeOK'
    <2>1. Locals' = Locals
      BY <1>1 DEF Locals, objects, heart
    <2> QED BY <1>1, <1>2, <1>3, <2>1 DEF TypeOK, objects, rows, heart
  <1>6. CallsAreShaped'
    BY <1>1, <1>2 DEF CallsAreShaped, Recorded, objects, heart, NoCall
  <1>7. TablesAgree'
    <2>1. \A u \in Threads : call'[u].op # "register" /\ pc'[u] # "recording"
      BY <1>1, <1>2 DEF NoCall
    <2>2. \A n \in Ids : n \in provider' <=> n \in Open'
      <3>1. \A n \in Ids : n # m => (n \in provider <=> n \in Open)
        BY <1>1 DEF TablesAgree, m
      <3>2. Open' = Open /\ m \notin Open
        BY <1>1, <1>4 DEF Open
      <3> QED BY <1>1, <3>1, <3>2
    <2> QED BY <1>1, <1>3, <2>1, <2>2 DEF TablesAgree, Open, objects, rows
  <1> QED BY <1>5, <1>6, <1>7

(* A new handle: its registration, its row and its provider agree. *)
LEMMA RecordPublication ==
  ASSUME PublicationInvariant, NEW t \in Threads, Record(t) PROVE PublicationInvariant'
  <1> USE NoneAssumption DEF PublicationInvariant
  <1> DEFINE m == call[t].id
             h == handles + 1
  <1>1. /\ pc[t] = "recording" /\ call[t].op = "register" /\ m \in Ids /\ owner = t
        /\ \A u \in Threads : u # t => call[u].op # "register" /\ pc[u] # "recording"
        /\ UNCHANGED <<closed, provider, heart, failures>>
    BY Registering1 DEF Record, CallsAreShaped
  <1>2. /\ handles' = h /\ measurement' = [measurement EXCEPT ![h] = m]
        /\ beaten' = [beaten EXCEPT ![h] = call[t].beat]
        /\ registrations' = [registrations EXCEPT ![m] = h]
        /\ row' = [row EXCEPT ![m] = "running"]
        /\ stamped' = [stamped EXCEPT ![m] = FALSE]
        /\ path' = [path EXCEPT ![m] = h]
    BY DEF Record
  <1>3. /\ h \in Handles /\ h \in 1..MaxHandles /\ handles \in Nat /\ h # NoHandle
        /\ 0..handles \subseteq 0..h /\ h \in 0..h
        /\ \A g \in 1..h : g = h \/ (g \in 1..handles /\ g \in Handles)
    <2>1. handles < MaxHandles
      BY <1>1 DEF CallsAreShaped, Recorded
    <2> QED BY <2>1, Bounded DEF Handles, NoHandle
  <1>4. /\ pc' \in [Threads -> Places] /\ call' \in [Threads -> Locals]
        /\ \/ pc'[t] = "beating" /\ call'[t] = call[t] /\ owner' = owner
           \/ pc'[t] = "idle" /\ call'[t] = NoCall /\ owner' = None
        /\ \A u \in Threads : u # t => pc'[u] = pc[u] /\ call'[u] = call[u]
    <2>1. CASE call[t].beat
      <3>1. "beating" \in Places
        BY DEF Places
      <3> QED BY <2>1, <3>1, GotoType DEF Record, TypeOK
    <2>2. CASE ~call[t].beat
      BY <2>2, ReturnType DEF Record
    <2> QED BY <2>1, <2>2
  <1>5. call[t].beat \in BOOLEAN
    BY DEF TypeOK, Locals
  <1> HIDE DEF m, h
  <1>6. TypeOK'
    <2>1. Locals \subseteq Locals'
      BY <1>1, <1>2, <1>3 DEF Locals, heart
    <2>2. call' \in [Threads -> Locals']
      BY <1>4, <2>1
    <2>3. /\ registrations' \in [Ids -> 0..handles'] /\ path' \in [Ids -> 0..handles']
          /\ handles' \in 0..MaxHandles
      <3>1. registrations \in [Ids -> 0..h] /\ path \in [Ids -> 0..h]
        BY <1>3 DEF TypeOK
      <3>2. /\ [registrations EXCEPT ![m] = h] \in [Ids -> 0..h]
            /\ [path EXCEPT ![m] = h] \in [Ids -> 0..h]
        BY <1>3, <3>1
      <3>3. h \in 0..MaxHandles
        BY <1>3, Bounded
      <3> QED BY <1>2, <3>2, <3>3
    <2>4. /\ measurement' \in [Handles -> Ids \cup {None}] /\ beaten' \in [Handles -> BOOLEAN]
          /\ row' \in [Ids -> {"absent", "running", "ended"}]
          /\ stamped' \in [Ids -> BOOLEAN]
      BY <1>1, <1>2, <1>3, <1>5 DEF TypeOK
    <2> QED BY <1>1, <1>4, <2>2, <2>3, <2>4 DEF TypeOK, heart
  <1>7. CallsAreShaped'
    BY <1>1, <1>4 DEF CallsAreShaped, Recorded, heart, NoCall
  <1>8. TablesAgree'
    <2>1. /\ Open' = Open \cup {m} /\ registrations'[m] = h
          /\ \A n \in Ids : n # m => registrations'[n] = registrations[n] /\ row'[n] = row[n]
          /\ row'[m] = "running" /\ measurement'[h] = m
          /\ \A g \in 1..handles : measurement'[g] = measurement[g]
      <3>1. \A g \in 1..handles : g \in Handles /\ g # h
        BY <1>3, Bounded DEF Handles, h
      <3>2. /\ measurement'[h] = m
            /\ \A g \in 1..handles : measurement'[g] = measurement[g]
        BY <1>2, <1>3, <3>1 DEF TypeOK
      <3>3. /\ registrations'[m] = h /\ row'[m] = "running"
            /\ \A n \in Ids : n # m => registrations'[n] = registrations[n] /\ row'[n] = row[n]
        BY <1>1, <1>2 DEF TypeOK
      <3> QED BY <1>1, <1>3, <3>2, <3>3 DEF Open
    <2>2. \A n \in Open : registrations[n] \in 1..handles
      BY <1>3 DEF TypeOK, Open, NoHandle
    <2>3. \A n \in Open' : measurement'[registrations'[n]] = n /\ row'[n] = "running"
      <3> TAKE n \in Open'
      <3>1. CASE n = m
        BY <2>1, <3>1
      <3>2. CASE n # m
        <4>1. n \in Open /\ n \in Ids
          BY <2>1, <3>2 DEF Open
        <4> QED BY <2>1, <2>2, <3>2, <4>1 DEF TablesAgree
      <3> QED BY <3>1, <3>2
    <2>4. \A g \in 1..handles' : measurement'[g] \in Ids
      BY <1>1, <1>2, <1>3, <2>1 DEF TablesAgree
    <2>5. \A u \in Threads : pc'[u] # "recording"
      BY <1>1, <1>4
    <2>6. \A n \in Ids : n \in provider' <=> n \in Open'
      <3>1. \A n \in Ids : n \in provider <=> n \in Open \/ n = m
        BY <1>1 DEF TablesAgree, m
      <3> QED BY <1>1, <2>1, <3>1
    <2>7. \A u \in Threads : call'[u].op = "register" =>
                                u = t /\ pc'[t] = "beating"
      BY <1>1, <1>4 DEF NoCall
    <2>8. failures' = 0 => \A n \in Ids : row'[n] = "running" => n \in Open'
      BY <1>1, <2>1 DEF TablesAgree
    <2> QED BY <2>3, <2>4, <2>5, <2>6, <2>7, <2>8 DEF TablesAgree, Publishing
  <1> QED BY <1>6, <1>7, <1>8

(* One more heartbeat thread, made and not started yet. *)
LEMMA MakePublication ==
  ASSUME PublicationInvariant, NEW t \in Threads, MakeThread(t) PROVE PublicationInvariant'
  <1> USE DEF PublicationInvariant
  <1>1. /\ pc[t] = "spawning" /\ call[t].op = "register" /\ beats < MaxBeats
        /\ UNCHANGED <<owner, registrations, objects, closed, provider, rows, stop, todo, call,
                       failures>>
        /\ beats' = beats + 1 /\ thread' = beats + 1
        /\ beat' = [beat EXCEPT ![beats + 1] = "made"]
        /\ \A u \in Threads : u # t => call[u].op # "register" /\ pc[u] # "recording"
    BY Registering1 DEF MakeThread, CallsAreShaped, Recorded
  <1>2. /\ pc' \in [Threads -> Places] /\ pc'[t] = "starting"
        /\ \A u \in Threads : u # t => pc'[u] = pc[u]
    BY GotoType DEF MakeThread, Places
  <1>3. TypeOK'
    <2>1. beats' \in 0..MaxBeats /\ thread' \in 0..beats' /\ 0..beats \subseteq 0..beats'
      BY <1>1, Bounded
    <2>2. Locals \subseteq Locals'
      BY <1>1, <2>1 DEF Locals, objects
    <2>3. call' \in [Threads -> Locals']
      BY <1>1, <2>2 DEF TypeOK
    <2>4. beat' \in [Beats -> {"unborn", "made", "looping", "waiting", "woken", "copying",
                               "stamping", "dead"}]
      BY <1>1 DEF TypeOK
    <2> QED BY <1>1, <1>2, <2>1, <2>3, <2>4 DEF TypeOK, objects, rows
  <1>4. CallsAreShaped'
    BY <1>1, <1>2 DEF CallsAreShaped, Recorded, objects
  <1>5. TablesAgree'
    <2>1. \A u \in Threads : pc'[u] = "recording" <=> pc[u] = "recording"
      BY <1>1, <1>2
    <2>2. \A u \in Threads : call[u].op = "register" => u = t
      BY <1>1
    <2>3. pc'[t] \notin Publishing /\ pc'[t] # "superseding"
      BY <1>2 DEF Publishing
    <2> QED BY <1>1, <2>1, <2>2, <2>3 DEF TablesAgree, Open, objects, rows
  <1> QED BY <1>3, <1>4, <1>5

LEMMA RegisteringPublication ==
  ASSUME PublicationInvariant, NEW t \in Threads, Registering(t) PROVE PublicationInvariant'
  <1> USE DEF PublicationInvariant, rows, heart
  <1>1. CASE FirstBeat(t) \/ FindThread(t) \/ ClearStop(t)
    <2>1. HeartType' /\ stamped' \in [Ids -> BOOLEAN]
      BY <1>1, HeartTyped DEF FirstBeat, FindThread, ClearStop, HeartType, TypeOK
    <2>2. call' = call /\ call \in [Threads -> Locals]
      BY <1>1 DEF FirstBeat, FindThread, ClearStop, TypeOK
    <2>3. pc[t] \in Recorded \ {"starting"}
      BY <1>1 DEF FirstBeat, FindThread, ClearStop, NeedsThread, Recorded
    <2>4. UNCHANGED <<owner, registrations, objects, closed, provider, row, path, beats,
                      failures>>
      BY <1>1 DEF FirstBeat, FindThread, ClearStop
    <2>5. PICK place \in Recorded \ {"starting"} : Goto(t, place)
      BY <1>1 DEF FirstBeat, FindThread, ClearStop, Recorded
    <2> QED BY <2>1, <2>2, <2>3, <2>4, <2>5, MovePublication
  <1>2. CASE FirstBeatRaises(t) \/ ThreadForgotten(t) \/ KeepThread(t) \/ StartThread(t)
    <2>1. /\ pc[t] \in Recorded /\ Return(t) /\ owner' = None
          /\ UNCHANGED <<registrations, objects, closed, provider, row, stamped, path, thread,
                         stop, beats, todo>>
      BY <1>2 DEF FirstBeatRaises, ThreadForgotten, KeepThread, StartThread, Recorded
    <2>2. owner = t /\ call[t].op = "register"
      BY <2>1 DEF CallsAreShaped
    <2>3. HeartType'
      BY <1>2, <2>1, HeartTyped DEF FirstBeatRaises, ThreadForgotten, KeepThread, StartThread,
                                    HeartType
    <2>4. failures' \in 0..MaxFailures /\ (failures' = 0 => failures = 0)
      BY <1>2, Bounded DEF FirstBeatRaises, ThreadForgotten, KeepThread, StartThread, Fails,
                           TypeOK
    <2>5. path' \in [Ids -> 0..handles] /\ pc[t] # "recording"
      BY <2>1 DEF TypeOK, Recorded
    <2> QED BY <2>1, <2>2, <2>3, <2>4, <2>5, ReturnPublication
  <1> QED
    BY <1>1, <1>2, SupersedePublication, SupersedeRaisesPublication, ProviderPublication,
       RecordPublication, RecordRaisesPublication, MakePublication DEF Registering

LEMMA NextPublication == PublicationInvariant /\ [Next]_vars => PublicationInvariant'
  <1> SUFFICES ASSUME PublicationInvariant, [Next]_vars PROVE PublicationInvariant'
    OBVIOUS
  <1>1. ASSUME NEW t \in Threads, Call(t) \/ Proceed(t) PROVE PublicationInvariant'
    BY <1>1, CallPublication, ClosingPublication, StoppingPublication, RegisteringPublication,
       UpdatePublication DEF Proceed
  <1>2. ASSUME NEW b \in Beats, Beat(b) PROVE PublicationInvariant'
    BY <1>2, BeatPublication
  <1>3. CASE UNCHANGED vars
    BY <1>3 DEF vars, PublicationInvariant, TypeOK, Locals, CallsAreShaped, TablesAgree, Open
  <1> QED BY <1>1, <1>2, <1>3 DEF Next

LEMMA PublicationInvariantHolds == Spec => []PublicationInvariant
  BY InitPublication, NextPublication, PTL DEF Spec

----------------------------------------------------------------------------
(* The state of producer.py and of its registry rows is always of its type. *)
THEOREM TypeCorrect == Spec => []TypeOK
  BY PublicationInvariantHolds, PTL DEF PublicationInvariant

(* Whatever fails and however many threads publish, close and update: when  *)
(* nobody has the lock, exactly the open registrations are served and their *)
(* rows are running, and no other row is unless a write failed              *)
(* (producer.py:421-425, 513-554).                                          *)
THEOREM PublicationConsistent == Spec => []PublicationIsConsistent
  <1>1. PublicationInvariant => PublicationIsConsistent
    <2> SUFFICES ASSUME PublicationInvariant, owner = None
                 PROVE  /\ provider = Open
                        /\ \A m \in Open : row[m] = "running"
                        /\ failures = 0 => \A m \in Ids : row[m] = "running" => m \in Open
      BY DEF PublicationIsConsistent
    <2>1. \A t \in Threads : pc[t] # "recording"
      BY NoneAssumption DEF PublicationInvariant, CallsAreShaped
    <2> QED BY <2>1 DEF PublicationInvariant, TablesAgree, TypeOK, Open
  <1> QED BY <1>1, PublicationInvariantHolds, PTL

(* Only a handle's own close, or a registration of its identifier, takes    *)
(* its publication down (producer.py:421, 514-516).                         *)
THEOREM TakenDown == Spec => TakenDownByItsOwn
  <1> DEFINE Own == \A m \in Open : registrations'[m] # registrations[m] =>
                       \E t \in Threads : /\ pc[t] \in {"closing", "superseding"}
                                          /\ call[t].handle = registrations[m]
  <1>1. PublicationInvariant /\ [Next]_vars => [Own]_vars
    <2> SUFFICES ASSUME PublicationInvariant, Next,
                        NEW m \in Open, registrations'[m] # registrations[m]
                 PROVE  \E t \in Threads : /\ pc[t] \in {"closing", "superseding"}
                                           /\ call[t].handle = registrations[m]
      OBVIOUS
    <2> USE DEF PublicationInvariant
    <2>0. m \in Ids /\ registrations[m] # NoHandle
      BY DEF Open
    <2>1. ~\E b \in Beats : Beat(b)
      BY DEF Beat, Wait, Stopped, IntervalOver, CopyIds, RoundOver, Stamp
    <2>2. PICK t \in Threads : Call(t) \/ Proceed(t)
      BY <2>1 DEF Next
    <2>3. ~Call(t) /\ ~Stopping(t) /\ ~Updating(t)
      BY DEF Call, BeginRegister, BeginClose, BeginUpdate, Stopping, ReadThread, SetStop, Join,
             JoinRaises, ForgetThread, Updating, UpdatePath, UpdatePathRaises
    <2>4. CASE Closing(t)
      <3>1. pc[t] = "closing" /\ IsOpen(call[t].handle) /\ Unlink(call[t].handle)
        BY <2>4 DEF Closing, Close, CloseRaises, CloseHandle, FailToClose
      <3>2. m = measurement[call[t].handle]
        BY <2>0, <3>1 DEF Unlink, TypeOK
      <3> QED BY <3>1, <3>2 DEF IsOpen
    <2>5. CASE Supersede(t) \/ SupersedeRaises(t)
      <3>1. /\ pc[t] = "superseding" /\ IsOpen(call[t].handle)
            /\ Unlink(call[t].handle)
        BY <2>5 DEF Supersede, SupersedeRaises, CloseHandle, FailToClose
      <3>2. m = measurement[call[t].handle]
        BY <2>0, <3>1 DEF Unlink, TypeOK
      <3> QED BY <3>1, <3>2 DEF IsOpen
    <2>6. CASE Record(t)
      <3>1. m = call[t].id /\ pc[t] = "recording"
        BY <2>0, <2>6 DEF Record, TypeOK
      <3>2. call[t].op = "register"
        BY <3>1 DEF CallsAreShaped
      <3>3. registrations[m] = NoHandle
        BY <3>1, <3>2 DEF TablesAgree, Publishing
      <3> QED BY <2>0, <3>3
    <2>7. ~PublishProvider(t) /\ ~RecordRaises(t) /\ ~FirstBeat(t) /\ ~FirstBeatRaises(t)
          /\ ~FindThread(t) /\ ~ThreadForgotten(t) /\ ~KeepThread(t) /\ ~ClearStop(t)
          /\ ~MakeThread(t) /\ ~StartThread(t)
      BY DEF PublishProvider, RecordRaises, FirstBeat, FirstBeatRaises, FindThread,
             ThreadForgotten, KeepThread, ClearStop, MakeThread, StartThread
    <2> QED BY <2>2, <2>3, <2>4, <2>5, <2>6, <2>7 DEF Proceed, Registering
  <1>2. Spec => [][Own]_vars
    BY <1>1, PublicationInvariantHolds, PTL DEF Spec
  <1> QED BY <1>2 DEF TakenDownByItsOwn

----------------------------------------------------------------------------
(* What holds for a program that publishes from one thread.                 *)
OneThread == \A t, u \in Threads : t = u

LEMMA InitSequential == Init => SequentialInvariant
  <1> SUFFICES ASSUME Init PROVE SequentialInvariant
    OBVIOUS
  <1>1. HandlesAreOpen
    BY DEF Init, HandlesAreOpen, Open, NoHandle
  <1>2. HeartIsSteady
    BY DEF Init, HeartIsSteady, Open, NoHandle, NoBeat
  <1> QED BY <1>1, <1>2, InitPublication DEF SequentialInvariant

(* Steps that leave the handles and their paths alone. *)
LEMMA HandlesStay ==
  ASSUME HandlesAreOpen, UNCHANGED <<registrations, handles, measurement, closed, path>>,
         failures' = 0 => failures = 0,
         \A u \in Threads : pc'[u] = "updating" =>
            \/ pc[u] = "updating" /\ call'[u].handle = call[u].handle
            \/ ~closed[call'[u].handle]
  PROVE  HandlesAreOpen'
  BY DEF HandlesAreOpen, Open

(* Closing a handle: another one with the same identifier that was not      *)
(* closed would have been the registered one.                               *)
LEMMA HandlesClose ==
  ASSUME PublicationInvariant, HandlesAreOpen, NEW h \in 1..handles, CloseHandle(h),
         UNCHANGED <<handles, measurement, path>>,
         \A u \in Threads : pc'[u] # "updating"
  PROVE  HandlesAreOpen'
  <1>1. /\ failures' = failures /\ closed' = [closed EXCEPT ![h] = TRUE]
        /\ \/ IsOpen(h) /\ Unlink(h) /\ row' = [row EXCEPT ![measurement[h]] = "ended"]
           \/ ~IsOpen(h) /\ registrations' = registrations
    BY CloseFacts
  <1>2. \A g \in 1..handles : ~closed'[g] => ~closed[g] /\ g # h /\ measurement[g] \in Ids
    <2>1. \A g \in 1..handles : g \in Handles /\ measurement[g] \in Ids
      <3>1. TypeOK /\ \A g \in 1..handles : measurement[g] \in Ids
        BY DEF PublicationInvariant, TablesAgree
      <3> QED BY <3>1, Bounded DEF Handles
    <2>2. closed \in [Handles -> BOOLEAN]
      BY DEF PublicationInvariant, TypeOK
    <2>3. \A g \in Handles : closed'[g] <=> (g = h \/ closed[g])
      BY <1>1, <2>1, <2>2
    <2> QED BY <2>1, <2>3
  <1>3. CASE ~IsOpen(h) /\ registrations' = registrations
    BY <1>1, <1>2, <1>3 DEF HandlesAreOpen, Open
  <1>4. CASE IsOpen(h) /\ Unlink(h) /\ row' = [row EXCEPT ![measurement[h]] = "ended"]
    <2>1. /\ registrations'[measurement[h]] = NoHandle
          /\ \A m \in Ids : m # measurement[h] => registrations'[m] = registrations[m]
      BY <1>4, UnlinkFacts
    <2>2. failures = 0 => \A g \in 1..handles : ~closed'[g] => measurement[g] # measurement[h]
      BY <1>2, <1>4 DEF HandlesAreOpen, IsOpen
    <2>3. \A m \in Ids : registrations'[m] # NoHandle => registrations'[m] = registrations[m]
      BY <2>1
    <2> QED BY <1>1, <1>2, <2>1, <2>2, <2>3 DEF HandlesAreOpen, Open
  <1> QED BY <1>1, <1>3, <1>4

LEMMA HandlesRecord ==
  ASSUME PublicationInvariant, HandlesAreOpen, NEW t \in Threads, Record(t), OneThread
  PROVE  HandlesAreOpen'
  <1> DEFINE m == call[t].id
             h == handles + 1
  <1>1. /\ handles' = h /\ measurement' = [measurement EXCEPT ![h] = m]
        /\ registrations' = [registrations EXCEPT ![m] = h]
        /\ path' = [path EXCEPT ![m] = h]
        /\ closed' = closed /\ failures' = failures
    BY DEF Record
  <1>2. call[t].op = "register" /\ m \in Ids /\ registrations[m] = NoHandle
        /\ handles < MaxHandles
    BY DEF Record, PublicationInvariant, CallsAreShaped, TablesAgree, Publishing, Recorded
  <1>3. /\ h \in Handles /\ \A g \in 1..h : g = h \/ g \in 1..handles
        /\ \A g \in 1..handles : g \in Handles /\ g # h /\ g # NoHandle
    BY <1>2, Bounded DEF PublicationInvariant, Handles, NoHandle
  <1> HIDE DEF m, h
  <1>4. /\ registrations'[m] = h /\ path'[m] = h /\ measurement'[h] = m
        /\ \A n \in Ids : n # m => registrations'[n] = registrations[n] /\ path'[n] = path[n]
        /\ \A g \in 1..handles : measurement'[g] = measurement[g] /\ measurement[g] \in Ids
    BY <1>1, <1>2, <1>3 DEF PublicationInvariant, TypeOK, TablesAgree
  <1>5. \A u \in Threads : pc'[u] # "updating"
    <2>1. pc'[t] # "updating"
      BY DEF Record, Goto, Return, PublicationInvariant, TypeOK
    <2> QED BY <2>1 DEF OneThread
  <1> QED BY <1>1, <1>2, <1>3, <1>4, <1>5 DEF HandlesAreOpen, Open

LEMMA HandlesUpdate ==
  ASSUME PublicationInvariant, HandlesAreOpen, NEW t \in Threads, UpdatePath(t), OneThread
  PROVE  HandlesAreOpen'
  <1> DEFINE h == call[t].handle
  <1>1. /\ UNCHANGED <<registrations, handles, measurement, closed, failures>>
        /\ path' = [path EXCEPT ![measurement[h]] = h] /\ pc[t] = "updating" /\ Return(t)
    BY DEF UpdatePath, objects
  <1>2. h \in 1..handles /\ measurement[h] \in Ids
    <2>1. h \in 0..handles /\ h # 0
      BY <1>1 DEF PublicationInvariant, CallsAreShaped, TypeOK, Locals, NoHandle
    <2> QED BY <2>1, Bounded DEF PublicationInvariant, TablesAgree
  <1>3. \A u \in Threads : pc'[u] # "updating"
    BY <1>1, ReturnType DEF OneThread, PublicationInvariant
  <1>4. failures = 0 => registrations[measurement[h]] = h
    BY <1>1, <1>2 DEF HandlesAreOpen
  <1> HIDE DEF h
  <1>5. \A m \in Ids : path'[m] = IF m = measurement[h] THEN h ELSE path[m]
    BY <1>1, <1>2 DEF PublicationInvariant, TypeOK
  <1> QED BY <1>1, <1>3, <1>4, <1>5 DEF HandlesAreOpen, Open

LEMMA NextHandles ==
  ASSUME PublicationInvariant, HandlesAreOpen, OneThread, [Next]_vars
  PROVE  HandlesAreOpen'
  <1> USE DEF PublicationInvariant
  <1>0. failures \in Nat
    BY Bounded
  <1>1. ASSUME NEW t \in Threads, Call(t) PROVE HandlesAreOpen'
    <2>1. /\ UNCHANGED <<registrations, handles, measurement, closed, path, failures>>
          /\ pc'[t] = "updating" => ~closed[call'[t].handle]
      <3>1. CASE \E m \in Ids, beating \in BOOLEAN : BeginRegister(t, m, beating)
        BY <3>1 DEF BeginRegister, objects, rows, Goto, TypeOK
      <3>2. CASE \E h \in Handles : BeginClose(t, h)
        BY <3>2 DEF BeginClose, objects, rows, Goto, TypeOK
      <3>3. ASSUME NEW h \in Handles, BeginUpdate(t, h)
            PROVE  /\ UNCHANGED <<registrations, handles, measurement, closed, path, failures>>
                   /\ ~closed[call'[t].handle]
        <4>1. NoCall \in Locals /\ call'[t] = [NoCall EXCEPT !.op = "update", !.handle = h]
          BY <3>3, NoCallType DEF BeginUpdate, TypeOK
        <4>2. call'[t].handle = h
          BY <4>1 DEF Locals
        <4> QED BY <3>3, <4>2 DEF BeginUpdate, objects, rows
      <3> QED BY <1>1, <3>1, <3>2, <3>3 DEF Call
    <2> QED BY <2>1, HandlesStay DEF OneThread
  <1>2. ASSUME NEW t \in Threads, Closing(t) PROVE HandlesAreOpen'
    <2>1. pc'[t] # "updating" /\ UNCHANGED <<handles, measurement, path>>
      BY <1>2 DEF Closing, Close, CloseRaises, Goto, Return, TypeOK, objects
    <2>2. CASE Close(t)
      <3>1. call[t].handle \in 0..handles /\ call[t].handle # 0
        BY <2>2 DEF Close, CallsAreShaped, TypeOK, Locals, NoHandle
      <3>2. call[t].handle \in 1..handles /\ CloseHandle(call[t].handle)
        BY <2>2, <3>1, Bounded DEF Close
      <3> QED BY <2>1, <3>2, HandlesClose DEF OneThread
    <2>3. CASE CloseRaises(t)
      BY <1>0, <2>3 DEF CloseRaises, FailToClose, Fails, HandlesAreOpen
    <2> QED BY <1>2, <2>2, <2>3 DEF Closing
  <1>3. ASSUME NEW t \in Threads, Stopping(t) PROVE HandlesAreOpen'
    <2>1. pc'[t] # "updating" /\ UNCHANGED <<registrations, handles, measurement, closed, path,
                                             failures>>
      BY <1>3 DEF Stopping, ReadThread, SetStop, Join, JoinRaises, ForgetThread, Goto, Return,
                  TypeOK, objects, rows
    <2> QED BY <2>1, HandlesStay DEF OneThread
  <1>4. ASSUME NEW t \in Threads, Registering(t) PROVE HandlesAreOpen'
    <2>1. CASE Supersede(t)
      <3>1. pc'[t] # "updating" /\ UNCHANGED <<handles, measurement, path>>
        BY <2>1 DEF Supersede, Goto, TypeOK, objects
      <3>2. CASE call[t].handle = NoHandle
        <4>1. UNCHANGED <<registrations, closed, failures>>
          BY <2>1, <3>2 DEF Supersede
        <4> QED BY <3>1, <4>1, HandlesStay DEF OneThread
      <3>3. CASE call[t].handle # NoHandle
        <4>1. call[t].handle \in 0..handles
          BY DEF TypeOK, Locals
        <4>2. call[t].handle \in 1..handles /\ CloseHandle(call[t].handle)
          BY <2>1, <3>3, <4>1, Bounded DEF Supersede, NoHandle
        <4> QED BY <3>1, <4>2, HandlesClose DEF OneThread
      <3> QED BY <3>2, <3>3
    <2>2. CASE SupersedeRaises(t) \/ RecordRaises(t) \/ FirstBeatRaises(t)
      BY <1>0, <2>2 DEF SupersedeRaises, RecordRaises, FirstBeatRaises, FailToClose, Fails,
                        HandlesAreOpen
    <2>3. CASE PublishProvider(t) \/ FirstBeat(t) \/ FindThread(t) \/ ThreadForgotten(t)
               \/ KeepThread(t) \/ ClearStop(t) \/ MakeThread(t) \/ StartThread(t)
      <3>1. pc'[t] # "updating" /\ UNCHANGED <<registrations, handles, measurement, closed, path,
                                               failures>>
        BY <2>3 DEF PublishProvider, FirstBeat, FindThread, ThreadForgotten, KeepThread,
                    ClearStop, MakeThread, StartThread, Goto, Return, TypeOK, objects, rows
      <3> QED BY <3>1, HandlesStay DEF OneThread
    <2> QED BY <1>4, <2>1, <2>2, <2>3, HandlesRecord DEF Registering
  <1>5. ASSUME NEW t \in Threads, Updating(t) PROVE HandlesAreOpen'
    <2>1. CASE UpdatePathRaises(t)
      BY <1>0, <2>1 DEF UpdatePathRaises, Fails, HandlesAreOpen
    <2> QED BY <1>5, <2>1, HandlesUpdate DEF Updating
  <1>6. ASSUME NEW b \in Beats, Beat(b) PROVE HandlesAreOpen'
    <2>1. UNCHANGED <<registrations, handles, measurement, closed, path, pc, call>>
      BY <1>6 DEF Beat, Wait, Stopped, IntervalOver, CopyIds, RoundOver, Stamp, rows, objects
    <2>2. failures' = 0 => failures = 0
      BY <1>0, <1>6 DEF Beat, Wait, Stopped, IntervalOver, CopyIds, RoundOver, Stamp, Fails
    <2> QED BY <2>1, <2>2, HandlesStay
  <1>7. CASE UNCHANGED vars
    BY <1>7 DEF vars, HandlesAreOpen, Open
  <1> QED BY <1>1, <1>2, <1>3, <1>4, <1>5, <1>6, <1>7 DEF Next, Proceed

(* Steps that leave the heartbeat alone and register nothing. *)
LEMMA HeartStays ==
  ASSUME HeartIsSteady, OneThread, NEW t \in Threads,
         UNCHANGED <<thread, stop, beat, beaten>>,
         \A m \in Ids : registrations'[m] # NoHandle => registrations'[m] = registrations[m],
         failures' = 0 => failures = 0,
         pc[t] \in {"joining", "forgetting"} => pc'[t] \in {"joining", "forgetting"},
         pc[t] # "starting", pc'[t] \notin {"spawning", "starting"},
         pc'[t] \in {"stopping", "setting", "joining", "forgetting"} => Open' = {},
         pc'[t] = "checking" => thread # NoBeat,
         failures' = 0 /\ pc[t] \in Recorded /\ pc'[t] \notin Recorded => thread # NoBeat
  PROVE  HeartIsSteady'
  <1>1. \A u \in Threads : u = t
    BY DEF OneThread
  <1>2. thread # NoBeat /\ pc'[t] \notin {"joining", "forgetting"} => Steady(thread)
    BY <1>1 DEF HeartIsSteady
  <1>5. \A b \in Beats : beat'[b] # "made"
    BY <1>1 DEF HeartIsSteady
  <1>3. failures' = 0 => \A m \in Open' :
           beaten'[registrations'[m]] => thread # NoBeat \/ pc'[t] \in Recorded
    <2> SUFFICES ASSUME failures' = 0, NEW m \in Open', beaten'[registrations'[m]],
                        thread = NoBeat
                 PROVE  pc'[t] \in Recorded
      OBVIOUS
    <2>1. m \in Open /\ beaten[registrations[m]]
      BY DEF Open
    <2>2. pc[t] \in Recorded
      BY <1>1, <2>1 DEF HeartIsSteady
    <2> QED BY <2>2
  <1>4. thread' # NoBeat /\ (\A u \in Threads : pc'[u] \notin {"joining", "forgetting"})
           => Steady(thread)'
    BY <1>2 DEF Steady
  <1> QED BY <1>1, <1>3, <1>4, <1>5 DEF HeartIsSteady

LEMMA NextHeart ==
  ASSUME PublicationInvariant, HeartIsSteady, OneThread, [Next]_vars
  PROVE  HeartIsSteady'
  <1> USE DEF PublicationInvariant
  <1>0. failures \in Nat
    BY Bounded
  <1>1. ASSUME NEW t \in Threads, Call(t) PROVE HeartIsSteady'
    <2>1. /\ UNCHANGED <<thread, stop, beat, beaten, registrations, failures>>
          /\ pc[t] = "idle" /\ pc'[t] \in {"superseding", "closing", "updating"}
      BY <1>1 DEF Call, BeginRegister, BeginClose, BeginUpdate, Goto, TypeOK, objects, heart
    <2> QED BY <2>1, HeartStays DEF Recorded
  <1>2. ASSUME NEW t \in Threads, Closing(t) PROVE HeartIsSteady'
    <2>1. /\ UNCHANGED <<thread, stop, beat, beaten>> /\ pc[t] = "closing"
          /\ pc'[t] = "idle" \/ (pc'[t] = "stopping" /\ NoneRemain)
      BY <1>2 DEF Closing, Close, CloseRaises, Goto, Return, TypeOK, objects, heart
    <2>2. \A m \in Ids : registrations'[m] # NoHandle => registrations'[m] = registrations[m]
      BY <1>2 DEF Closing, Close, CloseRaises, CloseHandle, FailToClose, Unlink, TypeOK, NoHandle
    <2>3. failures' = 0 => failures = 0
      BY <1>0, <1>2 DEF Closing, Close, CloseRaises, CloseHandle, FailToClose, Fails
    <2> QED BY <2>1, <2>2, <2>3, HeartStays DEF Recorded, NoneRemain, Open
  <1>3. ASSUME NEW t \in Threads, Stopping(t) PROVE HeartIsSteady'
    <2>1. /\ UNCHANGED <<registrations, beaten, failures>>
          /\ pc[t] \in {"stopping", "setting", "joining", "forgetting"}
          /\ pc'[t] \in {"idle", "publishing", "setting", "joining", "forgetting"}
      BY <1>3 DEF Stopping, ReadThread, SetStop, Join, JoinRaises, ForgetThread, Goto, Return,
                  TypeOK, objects
    <2>2. Open = {} /\ Open' = {}
      BY <2>1 DEF HeartIsSteady, Open
    <2>6. \A b \in Beats : beat[b] # "made"
      BY <2>1 DEF HeartIsSteady, OneThread
    <2>7. ~JoinRaises(t)
      <3>1. call[t].joined \in 0..beats
        BY DEF TypeOK, Locals
      <3>2. call[t].joined # NoBeat => call[t].joined \in Beats
        BY <3>1, Bounded DEF Beats, NoBeat
      <3> QED BY <2>6, <3>2 DEF JoinRaises
    <2>3. CASE ReadThread(t) \/ Join(t)
      <3>1. /\ UNCHANGED <<thread, stop, beat>> /\ pc'[t] \in {"setting", "forgetting"}
            /\ pc[t] \in {"joining", "forgetting"} => pc'[t] \in {"joining", "forgetting"}
        BY <2>3 DEF ReadThread, Join, heart, Goto, TypeOK
      <3> QED BY <2>1, <2>2, <3>1, HeartStays DEF Recorded
    <2>4. CASE SetStop(t)
      <3>1. pc'[t] = "joining" /\ \A u \in Threads : u = t
        BY <2>4 DEF SetStop, Goto, TypeOK, OneThread
      <3>2. \A b \in Beats : beat'[b] # "made"
        BY <2>4, <2>6 DEF SetStop
      <3> QED BY <2>2, <3>1, <3>2 DEF HeartIsSteady
    <2>5. CASE ForgetThread(t)
      <3>1. thread' = NoBeat /\ pc'[t] \in {"idle", "publishing"} /\ \A u \in Threads : u = t
        BY <2>5 DEF ForgetThread, Goto, Return, TypeOK, OneThread
      <3>2. beat' = beat
        BY <2>5 DEF ForgetThread
      <3> QED BY <2>2, <2>6, <3>1, <3>2 DEF HeartIsSteady
    <2> QED BY <1>3, <2>3, <2>4, <2>5, <2>7 DEF Stopping
  <1>4. ASSUME NEW t \in Threads, Registering(t) PROVE HeartIsSteady'
    <2>0. \A u \in Threads : u = t
      BY DEF OneThread
    <2>1. CASE Supersede(t) \/ SupersedeRaises(t)
      <3>1. /\ UNCHANGED <<thread, stop, beat, beaten>> /\ pc[t] = "superseding"
            /\ pc'[t] \in {"idle", "publishing"} \/ (pc'[t] = "stopping" /\ NoneRemain)
        BY <2>1 DEF Supersede, SupersedeRaises, Goto, Return, TypeOK, objects, heart
      <3>2. \A m \in Ids : registrations'[m] # NoHandle => registrations'[m] = registrations[m]
        BY <2>1 DEF Supersede, SupersedeRaises, CloseHandle, FailToClose, Unlink, TypeOK,
                    NoHandle
      <3>3. failures' = 0 => failures = 0
        BY <1>0, <2>1 DEF Supersede, SupersedeRaises, CloseHandle, FailToClose, Fails
      <3> QED BY <3>1, <3>2, <3>3, HeartStays DEF Recorded, NoneRemain, Open
    <2>2. CASE PublishProvider(t) \/ RecordRaises(t) \/ FirstBeat(t) \/ FirstBeatRaises(t)
               \/ FindThread(t) \/ ThreadForgotten(t) \/ KeepThread(t)
      <3>1. /\ UNCHANGED <<thread, stop, beat, beaten, registrations>>
            /\ pc[t] \notin {"joining", "forgetting", "starting"}
            /\ pc'[t] \in {"recording", "idle", "ensuring", "checking"}
            /\ pc'[t] = "checking" => thread # NoBeat
        BY <2>0, <2>2 DEF PublishProvider, RecordRaises, FirstBeat, FirstBeatRaises,
                    FindThread, ThreadForgotten, KeepThread, Goto, Return, TypeOK, objects,
                    heart, HeartIsSteady
      <3>2. failures' = 0 => failures = 0
        BY <1>0, <2>2 DEF PublishProvider, RecordRaises, FirstBeat, FirstBeatRaises, FindThread,
                          ThreadForgotten, KeepThread, Fails
      <3>3. failures' = 0 /\ pc[t] \in Recorded /\ pc'[t] \notin Recorded => thread # NoBeat
        <4>1. CASE KeepThread(t) \/ ThreadForgotten(t)
          BY <2>0, <4>1 DEF KeepThread, ThreadForgotten, HeartIsSteady
        <4>2. CASE RecordRaises(t) \/ FirstBeatRaises(t)
          BY <1>0, <4>2 DEF RecordRaises, FirstBeatRaises, Fails
        <4>3. CASE PublishProvider(t)
          BY <4>3 DEF PublishProvider, Recorded
        <4>4. CASE FirstBeat(t) \/ FindThread(t)
          BY <4>4 DEF FirstBeat, FindThread, Recorded, Goto, TypeOK
        <4> QED BY <2>2, <4>1, <4>2, <4>3, <4>4
      <3> QED BY <3>1, <3>2, <3>3, HeartStays
    <2>3. CASE Record(t)
      <3>1. /\ UNCHANGED <<thread, stop, beat, failures>> /\ pc[t] = "recording"
            /\ \/ call[t].beat /\ pc'[t] = "beating"
               \/ ~call[t].beat /\ pc'[t] = "idle"
        BY <2>3 DEF Record, heart, Goto, Return, TypeOK
      <3>2. call[t].id \in Ids /\ handles + 1 \in Handles
        <4>1. call[t].id \in Ids /\ handles < MaxHandles
          BY <3>1 DEF CallsAreShaped, Recorded
        <4> QED BY <4>1, Bounded DEF Handles
      <3>3. \A m \in Open' : \/ m \in Open /\ beaten'[registrations'[m]] = beaten[registrations[m]]
                             \/ beaten'[registrations'[m]] = call[t].beat
        <4> TAKE m \in Open'
        <4>1. /\ registrations' = [registrations EXCEPT ![call[t].id] = handles + 1]
              /\ beaten' = [beaten EXCEPT ![handles + 1] = call[t].beat]
          BY <2>3 DEF Record
        <4>2. registrations \in [Ids -> 0..handles] /\ beaten \in [Handles -> BOOLEAN]
              /\ handles \in Nat
          BY Bounded DEF TypeOK
        <4>3. CASE m = call[t].id
          BY <3>2, <4>1, <4>2, <4>3
        <4>4. CASE m # call[t].id
          <5>1. m \in Ids /\ registrations'[m] = registrations[m] /\ m \in Open
            BY <3>2, <4>1, <4>2, <4>4 DEF Open
          <5>2. registrations[m] # handles + 1
            BY <4>2, <5>1
          <5> QED BY <3>2, <4>1, <4>2, <5>1, <5>2
        <4> QED BY <4>3, <4>4
      <3>4. \A m \in Open : failures = 0 /\ beaten[registrations[m]] => thread # NoBeat
        BY <2>0, <3>1 DEF HeartIsSteady, Recorded
      <3>5. thread' # NoBeat => Steady(thread)'
        BY <2>0, <3>1 DEF HeartIsSteady, Steady
      <3>6. \A b \in Beats : beat'[b] # "made"
        BY <2>0, <3>1 DEF HeartIsSteady
      <3> QED BY <2>0, <3>1, <3>3, <3>4, <3>5, <3>6 DEF HeartIsSteady, Recorded
    <2>4. CASE ClearStop(t)
      <3>1. thread = NoBeat
        BY <2>0, <2>4 DEF ClearStop, NeedsThread, HeartIsSteady, Steady, Alive
      <3>2. /\ pc'[t] = "spawning" /\ ~stop' /\ thread' = thread /\ beat' = beat
            /\ pc[t] # "starting"
        BY <2>4 DEF ClearStop, NeedsThread, Goto, TypeOK
      <3>3. \A b \in Beats : beat'[b] # "made"
        BY <2>0, <3>2 DEF HeartIsSteady
      <3> QED BY <2>0, <3>1, <3>2, <3>3 DEF HeartIsSteady, Recorded
    <2>5. CASE MakeThread(t)
      <3>1. /\ pc'[t] = "starting" /\ ~stop' /\ thread' = beats + 1 /\ pc[t] = "spawning"
            /\ beat' = [beat EXCEPT ![beats + 1] = "made"]
        BY <2>0, <2>5 DEF MakeThread, Goto, TypeOK, HeartIsSteady
      <3>2. thread' # NoBeat
        BY <3>1, Bounded DEF NoBeat
      <3>3. \A b \in Beats : beat'[b] = "made" => b = thread'
        <4>1. \A b \in Beats : beat[b] # "made"
          BY <2>0, <3>1 DEF HeartIsSteady
        <4> QED BY <3>1, <4>1 DEF TypeOK
      <3> QED BY <2>0, <3>1, <3>2, <3>3 DEF HeartIsSteady, Recorded
    <2>6. CASE StartThread(t)
      <3>1. /\ pc'[t] = "idle" /\ pc[t] = "starting" /\ ~stop' /\ thread' = thread
            /\ thread # NoBeat /\ beat' = [beat EXCEPT ![thread] = "looping"]
        BY <2>0, <2>6 DEF StartThread, Return, Goto, TypeOK, HeartIsSteady
      <3>2. thread \in Beats
        BY <3>1, Bounded DEF TypeOK, Beats, NoBeat
      <3>3. Steady(thread)'
        BY <3>1, <3>2 DEF Steady, TypeOK
      <3>4. \A b \in Beats : beat'[b] # "made"
        BY <3>1, <3>2 DEF HeartIsSteady, TypeOK
      <3> QED BY <2>0, <3>1, <3>3, <3>4 DEF HeartIsSteady
    <2> QED BY <1>4, <2>1, <2>2, <2>3, <2>4, <2>5, <2>6 DEF Registering
  <1>5. ASSUME NEW t \in Threads, Updating(t) PROVE HeartIsSteady'
    <2>1. /\ UNCHANGED <<thread, stop, beat, beaten, registrations>>
          /\ pc[t] = "updating" /\ pc'[t] = "idle" /\ (failures' = 0 => failures = 0)
      BY <1>0, <1>5 DEF Updating, UpdatePath, UpdatePathRaises, Fails, Return, Goto, TypeOK,
                        objects, heart
    <2> QED BY <2>1, HeartStays DEF Recorded
  <1>6. ASSUME NEW b \in Beats, Beat(b) PROVE HeartIsSteady'
    <2>1. UNCHANGED <<registrations, beaten, thread, stop, pc>>
      BY <1>6 DEF Beat, Wait, Stopped, IntervalOver, CopyIds, RoundOver, Stamp, objects
    <2>2. failures' = 0 => failures = 0
      BY <1>0, <1>6 DEF Beat, Wait, Stopped, IntervalOver, CopyIds, RoundOver, Stamp, Fails
    <2>3. Steady(thread) /\ thread # NoBeat => Steady(thread)'
      <3> SUFFICES ASSUME Steady(thread), thread # NoBeat PROVE Steady(thread)'
        OBVIOUS
      <3>0. thread \in Beats /\ beat \in [Beats -> {"unborn", "made", "looping", "waiting",
                                                   "woken", "copying", "stamping", "dead"}]
        BY Bounded DEF TypeOK, Beats, NoBeat
      <3>1. ~stop /\ beat[thread] \in {"looping", "waiting", "copying", "stamping"}
        BY DEF Steady
      <3>2. \/ beat' = beat
            \/ \E place \in {"looping", "waiting", "copying", "stamping"} :
                  beat' = [beat EXCEPT ![b] = place]
            \/ Stopped(b)
        BY <1>6, <3>1 DEF Beat, Wait, IntervalOver, CopyIds, RoundOver, Stamp
      <3>3. beat'[thread] \in {"looping", "waiting", "copying", "stamping"}
        <4>1. CASE Stopped(b)
          BY <3>0, <3>1, <4>1 DEF Stopped
        <4>2. CASE beat' = beat
          BY <3>1, <4>2
        <4>3. ASSUME NEW place \in {"looping", "waiting", "copying", "stamping"},
                     beat' = [beat EXCEPT ![b] = place]
              PROVE  beat'[thread] \in {"looping", "waiting", "copying", "stamping"}
          BY <3>0, <3>1, <4>3
        <4> QED BY <3>2, <4>1, <4>2, <4>3
      <3> QED BY <2>1, <3>1, <3>3 DEF Steady
    <2>4. \A c \in Beats : beat'[c] = "made" => beat[c] = "made"
      BY <1>6 DEF Beat, Wait, Stopped, IntervalOver, CopyIds, RoundOver, Stamp, TypeOK
    <2> QED BY <2>1, <2>2, <2>3, <2>4 DEF HeartIsSteady, Open
  <1>7. CASE UNCHANGED vars
    BY <1>7 DEF vars, HeartIsSteady, Open, Steady
  <1> QED BY <1>1, <1>2, <1>3, <1>4, <1>5, <1>6, <1>7 DEF Next, Proceed

LEMMA SequentialInvariantHolds == ASSUME OneThread PROVE Spec => []SequentialInvariant
  <1>1. SequentialInvariant /\ [Next]_vars => SequentialInvariant'
    BY NextPublication, NextHandles, NextHeart DEF SequentialInvariant
  <1> QED BY <1>1, InitSequential, PTL DEF Spec

----------------------------------------------------------------------------
(* A program that publishes from one thread advertises in the row of an     *)
(* open registration that registration's own path, as long as no write has  *)
(* failed (producer.py:405-408, 419-423).                                   *)
THEOREM PathOwn == ASSUME OneThread PROVE Spec => []PathIsOwn
  <1>1. SequentialInvariant => PathIsOwn
    BY DEF SequentialInvariant, HandlesAreOpen, PathIsOwn
  <1> QED BY <1>1, SequentialInvariantHolds, PTL

(* In such a program an open registration that asked for a heartbeat has a  *)
(* heartbeat thread that nobody has asked to stop, although another         *)
(* thread's round may be under way (producer.py:59-84, 426-428, 570-574).   *)
THEOREM OpenBeaten == ASSUME OneThread PROVE Spec => []OpenIsBeaten
  <1>1. SequentialInvariant => OpenIsBeaten
    <2> SUFFICES ASSUME SequentialInvariant, failures = 0, \A t \in Threads : pc[t] = "idle",
                        NEW m \in Open, beaten[registrations[m]]
                 PROVE  \E b \in Beats : Steady(b)
      BY DEF OpenIsBeaten
    <2>1. thread # NoBeat /\ Steady(thread)
      BY DEF SequentialInvariant, HeartIsSteady, Recorded
    <2>2. thread \in Beats
      BY <2>1, Bounded DEF SequentialInvariant, PublicationInvariant, TypeOK, Beats, NoBeat
    <2> QED BY <2>1, <2>2
  <1> QED BY <1>1, SequentialInvariantHolds, PTL
=============================================================================
