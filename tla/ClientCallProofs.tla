-------------------------- MODULE ClientCallProofs --------------------------
(* Proofs about ServerLifecycle and ClientCall, for every value of their    *)
(* constants.                                                               *)
EXTENDS ClientCall, TLAPS

----------------------------------------------------------------------------
(* Type correctness and the time a call takes.                              *)

LEMMA InitCall == Init => CallInvariant
  <1> SUFFICES ASSUME Init PROVE CallInvariant
    OBVIOUS
  <1>1. TypeOK
    <2> USE DEF Init, LifeInit
    <2>1. /\ place \in [Threads -> {"new", "started", "binding", "bound", "named", "ready",
                                   "serving", "closing", "raising", "dead"}]
          /\ port \in [Threads -> Ports \cup {0}] /\ sock \in [Threads -> Ports \cup {0}]
          /\ asked \in [Threads -> BOOLEAN]
      OBVIOUS
    <2>2. /\ pc \in [Clients -> {"idle", "connecting", "awaiting", "closing"}]
          /\ caller \in [Clients -> {"none", "awaits", "waits", "leaves"}]
          /\ calls \in [Clients -> 0..MaxCalls] /\ answered \in [Clients -> BOOLEAN]
          /\ peer \in [Clients -> Threads \cup {None}]
          /\ timer \in [Clients -> Nat] /\ spent \in [Clients -> Nat]
      BY TimeoutsAssumption
    <2>3. /\ {SERVER, LOOP, THREAD} \subseteq Threads \cup {None}
          /\ {ERROR, READY} \subseteq BOOLEAN /\ starts \in Threads \cup {0}
      OBVIOUS
    <2> QED BY <2>1, <2>2, <2>3 DEF TypeOK, None
  <1> QED BY <1>1 DEF Init, CallInvariant, StepIsTimed

LEMMA RunType ==
  ASSUME TypeOK, NEW b \in Threads, Run(b), UNCHANGED clientVars PROVE TypeOK'
  <1> USE DEF TypeOK, Goes, application, clientVars, None
  <1>1. CASE Prepare(b)
    <2>1. port' \in [Threads -> Ports \cup {0}]
      BY <1>1 DEF Prepare
    <2> QED BY <1>1, <2>1 DEF Prepare
  <1>2. CASE Bind(b)
    BY <1>2 DEF Bind
  <1>3. CASE BindFails(b)
    BY <1>3 DEF BindFails
  <1>4. CASE NamePort(b)
    BY <1>4 DEF NamePort
  <1>5. CASE SetReady(b)
    BY <1>5 DEF SetReady
  <1>6. CASE AwaitClosed(b)
    BY <1>6 DEF AwaitClosed
  <1>7. CASE CloseListener(b)
    BY <1>7 DEF CloseListener
  <1>8. CASE End(b)
    BY <1>8 DEF End
  <1>9. CASE Fail(b)
    BY <1>9 DEF Fail
  <1> QED BY <1>1, <1>2, <1>3, <1>4, <1>5, <1>6, <1>7, <1>8, <1>9 DEF Run

LEMMA ApplicationType ==
  ASSUME TypeOK, Application, UNCHANGED clientVars PROVE TypeOK'
  <1> USE DEF TypeOK, globals, threads, clientVars, None
  <1>1. ASSUME NEW p \in Requested, start_live_server(p) PROVE TypeOK'
    <2>1. starts' = starts + 1 /\ starts' \in Threads /\ starts' # 0
      BY <1>1, StartsAssumption DEF start_live_server, Start, Threads
    <2>2. p \in Ports \cup {0}
      BY PortsAssumption
    <2> QED BY <1>1, <2>1, <2>2 DEF start_live_server, Start, ReadyAtStart
  <1>2. CASE RegisterWithRunning
    BY <1>2 DEF RegisterWithRunning
  <1>3. CASE stop_live_server
    <2>1. CASE SERVER # None /\ MayRun /\ ScheduleClose
      <3>1. SERVER \in Threads /\ LOOP \in Threads
        BY <2>1 DEF MayRun
      <3>2. asked' \in [Threads -> BOOLEAN]
        BY <2>1 DEF ScheduleClose
      <3>3. <<LOOP, SERVER>> \in Threads \X Threads
        BY <3>1
      <3>4. strays' \subseteq strays \cup {<<LOOP, SERVER>>}
        BY <2>1 DEF ScheduleClose
      <3>5. strays' \subseteq Threads \X Threads
        BY <3>3, <3>4
      <3> QED BY <1>3, <3>2, <3>5 DEF stop_live_server
    <2>2. CASE UNCHANGED <<asked, strays>>
      BY <1>3, <2>2 DEF stop_live_server
    <2> QED BY <1>3, <2>1, <2>2 DEF stop_live_server
  <1>4. CASE Started
    <2>1. abandoned' \subseteq Threads
      BY <1>4 DEF Started
    <2> QED BY <1>4, <2>1 DEF Started
  <1>5. CASE Advertise
    BY <1>5 DEF Advertise
  <1>6. CASE Forget
    BY <1>6 DEF Forget
  <1> QED BY <1>1, <1>2, <1>3, <1>4, <1>5, <1>6 DEF Application, Return

LEMMA ReplyType ==
  ASSUME TypeOK, NEW h \in handlers, Reply(h) PROVE TypeOK'
  BY DEF Reply, TypeOK, globals, application

LEMMA StrayType ==
  ASSUME TypeOK, NEW a \in Threads, NEW b \in Threads, RunStray(a, b), UNCHANGED clientVars
  PROVE  TypeOK'
  <1>1. asked' \in [Threads -> BOOLEAN]
    BY DEF RunStray, TypeOK, Alive
  <1>2. <<b, b>> \in Threads \X Threads
    OBVIOUS
  <1>3. strays' \subseteq strays \cup {<<b, b>>}
    BY DEF RunStray
  <1>4. strays' \subseteq Threads \X Threads
    BY <1>2, <1>3 DEF TypeOK
  <1> QED BY <1>1, <1>4 DEF RunStray, TypeOK, globals, application, clientVars

LEMMA ClientType ==
  ASSUME CallInvariant, NEW c \in Clients,
         Request(c) \/ Call(c) \/ \E b \in Threads : Connect(c, b)
  PROVE  TypeOK'
  <1> USE DEF CallInvariant, TypeOK, Enters, lifeVars, globals, threads, application
  <1>1. CASE Request(c)
    BY <1>1, TimeoutsAssumption DEF Request
  <1>2. ASSUME NEW b \in Threads, Connect(c, b) PROVE TypeOK'
    <2>1. calls[c] \in 1..MaxCalls
      BY <1>2, TimeoutsAssumption DEF Connect, StepIsTimed
    <2>2. handlers' \subseteq [loop : Threads, client : Clients, call : 1..MaxCalls]
      BY <1>2, <2>1 DEF Connect
    <2> QED BY <1>2, <2>2 DEF Connect
  <1>3. CASE NotConnected(c)
    BY <1>3 DEF NotConnected
  <1>4. CASE Receive(c)
    BY <1>4 DEF Receive
  <1>5. CASE GiveUp(c)
    BY <1>5 DEF GiveUp
  <1>6. CASE Disconnect(c)
    BY <1>6 DEF Disconnect, None
  <1>7. CASE WaitOver(c)
    BY <1>7 DEF WaitOver
  <1> QED BY <1>1, <1>2, <1>3, <1>4, <1>5, <1>6, <1>7 DEF Call

LEMMA TickType == ASSUME TypeOK, Tick PROVE TypeOK'
  <1>1. timer' \in [Clients -> Nat] /\ spent' \in [Clients -> Nat]
    BY DEF TypeOK, Tick, OneLater
  <1> QED BY <1>1 DEF TypeOK, Tick, lifeVars, globals, threads, application

LEMMA ClientTimed ==
  ASSUME CallInvariant, NEW c \in Clients,
         Request(c) \/ Call(c) \/ \E b \in Threads : Connect(c, b)
  PROVE  \A d \in Clients : StepIsTimed(d)'
  <1> SUFFICES ASSUME NEW d \in Clients PROVE StepIsTimed(d)'
    OBVIOUS
  <1> USE TimeoutsAssumption DEF CallInvariant, TypeOK, Enters, StepIsTimed, Budget
  <1>1. CASE Request(c)
    BY <1>1 DEF Request
  <1>2. ASSUME NEW b \in Threads, Connect(c, b) PROVE StepIsTimed(d)'
    BY <1>2 DEF Connect
  <1>3. CASE NotConnected(c)
    BY <1>3 DEF NotConnected
  <1>4. CASE Receive(c)
    BY <1>4 DEF Receive
  <1>5. CASE GiveUp(c)
    BY <1>5 DEF GiveUp
  <1>6. CASE Disconnect(c)
    BY <1>6 DEF Disconnect
  <1>7. CASE WaitOver(c)
    BY <1>7 DEF WaitOver
  <1> QED BY <1>1, <1>2, <1>3, <1>4, <1>5, <1>6, <1>7 DEF Call

LEMMA TickTimed ==
  ASSUME CallInvariant, Tick PROVE \A c \in Clients : StepIsTimed(c)'
  BY TimeoutsAssumption
     DEF CallInvariant, TypeOK, StepIsTimed, Tick, OneLater, Waiting, Limit, Budget

LEMMA StepCall == CallInvariant /\ [Next]_vars => CallInvariant'
  <1> SUFFICES ASSUME CallInvariant, [Next]_vars PROVE CallInvariant'
    OBVIOUS
  <1> USE DEF CallInvariant
  <1>1. CASE Application /\ UNCHANGED clientVars
    BY <1>1, ApplicationType DEF clientVars, StepIsTimed
  <1>2. CASE Serve
    BY <1>2, RunType DEF Serve, clientVars, StepIsTimed
  <1>3. ASSUME NEW h \in handlers, Reply(h) PROVE CallInvariant'
    <2>1. TypeOK'
      BY <1>3, ReplyType
    <2>2. pc' = pc /\ caller' = caller /\ calls' = calls /\ timer' = timer /\ spent' = spent
      BY <1>3 DEF Reply
    <2> QED BY <2>1, <2>2 DEF StepIsTimed
  <1>4. ASSUME NEW c \in Clients,
               Request(c) \/ Call(c) \/ \E b \in Threads : Connect(c, b)
        PROVE  CallInvariant'
    BY <1>4, ClientType, ClientTimed
  <1>5. CASE Tick
    BY <1>5, TickType, TickTimed
  <1>6. CASE UNCHANGED vars
    BY <1>6 DEF TypeOK, StepIsTimed, vars, lifeVars, globals, threads, application, clientVars
  <1>7. CASE Stray
    BY <1>7, StrayType DEF Stray, clientVars, StepIsTimed
  <1> QED BY <1>1, <1>2, <1>3, <1>4, <1>5, <1>6, <1>7 DEF Next

LEMMA CallInvariantHolds == Spec => []CallInvariant
  BY InitCall, StepCall, PTL DEF Spec

(* Every variable has its type in every behaviour: the globals name server  *)
(* threads that were started, ports are ports.                              *)
THEOREM TypeCorrect == Spec => []TypeOK
  BY CallInvariantHolds, PTL DEF CallInvariant

(* A synchronous caller's own wait never ends a call that still connects or *)
(* waits for its answer, nor one that has been closing for less than the    *)
(* margin, whatever the timeouts are and however servers come and go.       *)
THEOREM WaitOutlasts == Spec => []WaitOutlastsCall
  <1>1. CallInvariant => WaitOutlastsCall
    BY TimeoutsAssumption DEF CallInvariant, TypeOK, StepIsTimed, Budget, WaitOutlastsCall
  <1> QED BY <1>1, CallInvariantHolds, PTL

----------------------------------------------------------------------------
(* The server that runs.                                                    *)

LEMMA InitLife == Init => LifeInvariant
  BY StartsAssumption
     DEF Init, LifeInit, LifeInvariant, ThreadsAreNumbered, OthersAreAsked, GlobalsAreOwn,
         ApplicationKnows, Alive, Threads, None

(* What neither the globals nor the server threads notice. *)
LEMMA HandlerLife ==
  ASSUME LifeInvariant,
         UNCHANGED <<globals, starts, place, port, sock, asked, strays, application>>
  PROVE  LifeInvariant'
  BY DEF LifeInvariant, ThreadsAreNumbered, OthersAreAsked, GlobalsAreOwn,
         ApplicationKnows, Alive, Attended, globals, application

LEMMA RunLife ==
  ASSUME TypeOK, LifeInvariant, NEW b \in Threads, Run(b) PROVE LifeInvariant'
  <1> USE PortsAssumption
      DEF TypeOK, Goes, application, None, LifeInvariant, ThreadsAreNumbered, OthersAreAsked,
          GlobalsAreOwn, ApplicationKnows, Alive, Attended, Threads
  <1>1. CASE Prepare(b)
    <2>1. /\ place[b] = "started" /\ place' = [place EXCEPT ![b] = "binding"]
          /\ SERVER' = SERVER /\ THREAD' = THREAD /\ LOOP' = b /\ PORT' = PORT
          /\ ERROR' = ERROR /\ READY' = READY /\ starts' = starts /\ sock' = sock
          /\ asked' = asked /\ app' = app /\ advertised' = advertised
          /\ abandoned' = abandoned /\ strays' = strays
      BY <1>1 DEF Prepare
    <2>2. port'[b] # 0 /\ \A c \in Threads \ {b} : port'[c] = port[c]
      <3>1. CASE port[b] # 0
        BY <1>1, <3>1 DEF Prepare
      <3>2. CASE port[b] = 0
        <4>1. PICK p \in Ports : port' = [port EXCEPT ![b] = p]
          BY <1>1, <3>2 DEF Prepare
        <4> QED BY <4>1
      <3> QED BY <3>1, <3>2
    <2> HIDE DEF Goes, application
    <2>3. ThreadsAreNumbered'
      BY <2>1, <2>2
    <2>4. Attended => OthersAreAsked' /\ b = THREAD
      BY <2>1
    <2>5. Attended => GlobalsAreOwn' /\ ApplicationKnows'
      BY <2>1, <2>4
    <2> QED BY <2>1, <2>3, <2>4, <2>5
  <1>2. CASE Bind(b)
    <2>1. Attended => b = THREAD
      BY <1>2 DEF Bind
    <2>2. ThreadsAreNumbered'
      BY <1>2 DEF Bind
    <2>3. Attended => OthersAreAsked' /\ GlobalsAreOwn'
      BY <1>2, <2>1 DEF Bind
    <2>4. Attended => ApplicationKnows'
      BY <1>2, <2>1 DEF Bind
    <2>5. abandoned' = abandoned
      BY <1>2 DEF Bind
    <2> QED BY <2>2, <2>3, <2>4, <2>5
  <1>3. CASE BindFails(b)
    BY <1>3 DEF BindFails
  <1>4. CASE NamePort(b)
    BY <1>4 DEF NamePort
  <1>5. CASE SetReady(b)
    BY <1>5 DEF SetReady
  <1>6. CASE AwaitClosed(b)
    BY <1>6 DEF AwaitClosed
  <1>7. CASE CloseListener(b)
    BY <1>7 DEF CloseListener
  <1>8. CASE End(b)
    BY <1>8 DEF End
  <1>9. CASE Fail(b)
    BY <1>9 DEF Fail
  <1> QED BY <1>1, <1>2, <1>3, <1>4, <1>5, <1>6, <1>7, <1>8, <1>9 DEF Run

LEMMA StrayLife ==
  ASSUME TypeOK, LifeInvariant, NEW a \in Threads, NEW b \in Threads, RunStray(a, b)
  PROVE  LifeInvariant'
  <1> USE DEF globals, application, LifeInvariant, Attended
  <1>1. ~Attended
    BY DEF RunStray, GlobalsAreOwn
  <1>2. <<a, b>> \in strays /\ b <= starts
    BY DEF RunStray, ThreadsAreNumbered
  <1>3. \A c \in Threads : asked'[c] => asked[c] \/ c = b
    BY DEF RunStray, TypeOK
  <1>4. \A x \in strays' : x \in strays \/ x = <<b, b>>
    BY DEF RunStray
  <1>5. \A x \in strays' : x[2] <= starts
    BY <1>2, <1>4 DEF ThreadsAreNumbered
  <1>6. ThreadsAreNumbered'
    BY <1>2, <1>3, <1>5 DEF RunStray, ThreadsAreNumbered, TypeOK, Threads
  <1> QED BY <1>1, <1>6 DEF RunStray

LEMMA ApplicationLife ==
  ASSUME TypeOK, LifeInvariant, Application PROVE LifeInvariant'
  <1> USE DEF TypeOK, globals, threads, None, LifeInvariant, ThreadsAreNumbered, OthersAreAsked,
          GlobalsAreOwn, ApplicationKnows, Alive, Attended, Threads
  <1>1. ASSUME NEW p \in Requested, start_live_server(p) PROVE LifeInvariant'
    BY <1>1, StartsAssumption DEF start_live_server, Start, ReadyAtStart, is_server_running
  <1>2. CASE RegisterWithRunning
    BY <1>2 DEF RegisterWithRunning, is_server_running
  <1>3. CASE stop_live_server
    <2>1. ASSUME Attended
          PROVE  /\ strays' = strays
                 /\ \A b \in Threads : asked'[b] <=> asked[b] \/ (b = THREAD /\ Alive(b))
      <3>1. app = "idle" /\ asked \in [Threads -> BOOLEAN]
        BY <1>3 DEF stop_live_server
      <3>2. CASE SERVER # None
        <4>1. LOOP = THREAD /\ SERVER = THREAD /\ MustRun
          BY <2>1, <3>1, <3>2 DEF MustRun, MayRun
        <4> QED BY <1>3, <3>1, <3>2, <4>1 DEF stop_live_server, ScheduleClose, MustRun, MayRun
      <3>3. CASE SERVER = None
        <4>1. THREAD = None \/ ~Alive(THREAD)
          BY <2>1, <3>1, <3>3
        <4>2. UNCHANGED <<asked, strays>>
          BY <1>3, <3>3 DEF stop_live_server
        <4>3. \A b \in Threads : ~(b = THREAD /\ Alive(b))
          BY <4>1
        <4> HIDE DEF Alive
        <4> QED BY <3>1, <4>2, <4>3
      <3> QED BY <3>2, <3>3
    <2>2. ThreadsAreNumbered'
      <3>1. CASE SERVER # None /\ MayRun /\ ScheduleClose
        <4>1. SERVER \in Threads /\ SERVER <= starts /\ place[SERVER] # "new"
          BY <3>1
        <4>2. \A b \in Threads : asked'[b] => asked[b] \/ b = SERVER
          BY <3>1 DEF ScheduleClose
        <4>3. \A x \in strays' : x \in strays \/ x = <<LOOP, SERVER>>
          BY <3>1 DEF ScheduleClose
        <4>4. \A x \in strays' : x[2] <= starts
          BY <4>1, <4>3
        <4> QED BY <1>3, <4>1, <4>2, <4>4 DEF stop_live_server
      <3>2. CASE UNCHANGED <<asked, strays>>
        BY <1>3, <3>2 DEF stop_live_server
      <3> QED BY <1>3, <3>1, <3>2 DEF stop_live_server
    <2>3. Attended => OthersAreAsked' /\ GlobalsAreOwn'
      BY <1>3, <2>1 DEF stop_live_server
    <2>4. Attended => ApplicationKnows'
      BY <1>3, <2>1 DEF stop_live_server
    <2>5. abandoned' = abandoned
      BY <1>3 DEF stop_live_server
    <2> QED BY <2>2, <2>3, <2>4, <2>5
  <1>4. CASE Started
    BY <1>4 DEF Started, is_server_running
  <1>5. CASE Advertise
    BY <1>5 DEF Advertise
  <1>6. CASE Forget
    <2>1. ThreadsAreNumbered'
      BY <1>6, StartsAssumption DEF Forget
    <2>2. Attended' =>
            /\ Attended
            /\ THREAD = None \/ place[THREAD] \in {"serving", "closing", "dead"}
      BY <1>6 DEF Forget
    <2>3. Attended' => OthersAreAsked'
      BY <1>6, <2>2 DEF Forget
    <2>4. Attended' => GlobalsAreOwn' /\ ApplicationKnows'
      BY <1>6, <2>2 DEF Forget
    <2> QED BY <2>1, <2>3, <2>4
  <1> QED BY <1>1, <1>2, <1>3, <1>4, <1>5, <1>6 DEF Application, Return

LEMMA StepLife == TypeOK /\ LifeInvariant /\ [Next]_vars => LifeInvariant'
  <1> SUFFICES ASSUME TypeOK, LifeInvariant, [Next]_vars PROVE LifeInvariant'
    OBVIOUS
  <1>1. CASE Application
    BY <1>1, ApplicationLife
  <1>2. CASE Serve
    BY <1>2, RunLife DEF Serve
  <1>3. ASSUME NEW h \in handlers, Reply(h) PROVE LifeInvariant'
    BY <1>3, HandlerLife DEF Reply
  <1>4. ASSUME NEW c \in Clients,
               Request(c) \/ Call(c) \/ \E b \in Threads : Connect(c, b)
        PROVE  LifeInvariant'
    BY <1>4, HandlerLife DEF Request, Call, NotConnected, Receive, GiveUp, Disconnect, WaitOver,
                             Connect, lifeVars, threads
  <1>5. CASE Tick \/ UNCHANGED vars
    BY <1>5, HandlerLife DEF Tick, vars, lifeVars, threads
  <1>6. CASE Stray
    BY <1>6, StrayLife DEF Stray
  <1> QED BY <1>1, <1>2, <1>3, <1>4, <1>5, <1>6 DEF Next

LEMMA LifeInvariantHolds == Spec => [](TypeOK /\ LifeInvariant)
  BY InitLife, StepLife, TypeCorrect, PTL DEF Spec

(* A server that counts as running is the one the globals name, has bound   *)
(* its port and listens on the port that registrations advertise, as long   *)
(* as no call gave up on a thread that did not serve yet.                   *)
THEOREM RunningServes == Spec => []RunningIsServed
  <1>1. TypeOK /\ LifeInvariant => RunningIsServed
    BY DEF TypeOK, LifeInvariant, GlobalsAreOwn, ApplicationKnows, RunningIsServed,
           is_server_running, Alive
  <1> QED BY <1>1, LifeInvariantHolds, PTL

(* An advertised port is listened on until the application stops the        *)
(* server.                                                                  *)
THEOREM AdvertisedListens == Spec => []AdvertisedIsListening
  <1>1. TypeOK /\ LifeInvariant => AdvertisedIsListening
    BY DEF TypeOK, LifeInvariant, GlobalsAreOwn, ApplicationKnows, AdvertisedIsListening, None
  <1> QED BY <1>1, LifeInvariantHolds, PTL

(* Every server thread but the current one has been told to end.            *)
THEOREM StoppedAsked == Spec => []StoppedMeansAsked
  <1>1. LifeInvariant => StoppedMeansAsked
    BY DEF LifeInvariant, OthersAreAsked, StoppedMeansAsked
  <1> QED BY <1>1, LifeInvariantHolds, PTL
=============================================================================
