--------------------------- MODULE ServerLifecycle ---------------------------
(****************************************************************************)
(* The life of the WebSocket server: start_live_server, _run_server,        *)
(* stop_live_server and the globals they share, at the end of               *)
(* src/qimchi_connect/server.py.                                            *)
(*                                                                          *)
(* One application thread starts and stops servers.  Each start makes a     *)
(* server thread with an event loop of its own; the threads are numbered.   *)
(* Both calls wait two seconds for the thread and then go on without it, so *)
(* an earlier thread may still be writing the globals of a later one.       *)
(* Handlers are requests under way in a server's loop.                      *)
(****************************************************************************)
EXTENDS Naturals

CONSTANTS
    MaxStarts,      \* bound on the starts of a server thread
    Ports,          \* ports that can be listened on
    Requested       \* ports that start_live_server is asked for; 0 is any

ASSUME StartsAssumption == MaxStarts \in Nat
ASSUME PortsAssumption == 0 \notin Ports /\ Requested \subseteq Ports \cup {0}

Threads == 1..MaxStarts
None == 0           \* no thread, no loop, no port

VARIABLES
    SERVER, LOOP, THREAD,   \* the thread each global belongs to
    PORT, ERROR, READY,
    starts,
    place,          \* where each server thread is
    port,           \* the port it is to bind
    sock,           \* the port it listens on
    asked,          \* its loop has server.close to run
    strays,         \* calls of server.close in a loop that is not the server's
    handlers,       \* the requests under way
    app,            \* where the application thread is
    advertised,     \* the ports that publications have in the registry
    abandoned       \* history: threads not waited for before they served

globals == <<SERVER, LOOP, THREAD, PORT, ERROR, READY>>
threads == <<starts, place, port, sock, asked, strays, handlers>>
application == <<app, advertised, abandoned>>
lifeVars == <<globals, threads, application>>

LifeInit ==
    /\ SERVER = None /\ LOOP = None /\ THREAD = None
    /\ PORT = 0 /\ ERROR = FALSE /\ READY = FALSE
    /\ starts = 0
    /\ place = [b \in Threads |-> "new"]
    /\ port = [b \in Threads |-> 0]
    /\ sock = [b \in Threads |-> 0]
    /\ asked = [b \in Threads |-> FALSE]
    /\ strays = {}
    /\ handlers = {}
    /\ app = "idle"
    /\ advertised = {} /\ abandoned = {}

(* A definition below whose name ends in a fault's description is a faulty  *)
(* variant of the one that follows it; no specification uses it.            *)

Alive(b) == place[b] \notin {"new", "dead"}
Busy(b) == \E h \in handlers : h.loop = b

is_server_running == THREAD # None /\ Alive(THREAD) /\ READY /\ ~ERROR

----------------------------------------------------------------------------
(* _run_server, on its thread.                                              *)

(* A loop that ends drops the calls that it has not run yet.                *)
Goes(b, from, to) ==
    /\ place[b] = from
    /\ place' = [place EXCEPT ![b] = to]
    /\ strays' = IF to = "dead" THEN {x \in strays : x[1] # b} ELSE strays
    /\ UNCHANGED <<application, THREAD, starts, handlers>>

Listened == {sock[c] : c \in Threads}

(* The loop is made and, for port 0, a port is reserved: it is free now and *)
(* may be taken before it is bound.                                         *)
Prepare(b) ==
    /\ Goes(b, "started", "binding")
    /\ LOOP' = b
    /\ IF port[b] # 0 THEN UNCHANGED port
       ELSE \E p \in Ports \ Listened : port' = [port EXCEPT ![b] = p]
    /\ UNCHANGED <<SERVER, PORT, ERROR, READY, sock, asked>>

Bind(b) ==
    /\ Goes(b, "binding", "bound")
    /\ port[b] \notin Listened
    /\ sock' = [sock EXCEPT ![b] = port[b]]
    /\ port' = [port EXCEPT ![b] = 0]
    /\ SERVER' = b
    /\ UNCHANGED <<LOOP, PORT, ERROR, READY, asked>>

(* The port is taken, by a thread of this process or by another process.    *)
BindFails(b) ==
    /\ Goes(b, "binding", "raising")
    /\ port' = [port EXCEPT ![b] = 0]
    /\ UNCHANGED <<SERVER, LOOP, PORT, ERROR, READY, sock, asked>>

(* The port of the server that the global names, if it listens.             *)
NamePort(b) ==
    /\ Goes(b, "bound", "named")
    /\ PORT' = IF SERVER # None /\ sock[SERVER] # 0 THEN sock[SERVER] ELSE sock[b]
    /\ UNCHANGED <<SERVER, LOOP, ERROR, READY, port, sock, asked>>

SetReadyAnywhere(b) ==
    /\ \/ Goes(b, "bound", "bound") \/ Goes(b, "named", "ready")
    /\ READY' = TRUE
    /\ UNCHANGED <<SERVER, LOOP, PORT, ERROR, port, sock, asked>>

SetReady(b) ==
    /\ Goes(b, "named", "ready")
    /\ READY' = TRUE
    /\ UNCHANGED <<SERVER, LOOP, PORT, ERROR, port, sock, asked>>

AwaitAnyClosed(b) ==
    /\ Goes(b, "ready", IF SERVER = b THEN "serving" ELSE "waiting")
    /\ UNCHANGED <<SERVER, LOOP, PORT, ERROR, READY, port, sock, asked>>

(* await _SERVER.wait_closed(): the global may be gone, or be the server of *)
(* another loop, which cannot be awaited.                                   *)
AwaitClosed(b) ==
    /\ Goes(b, "ready", IF SERVER = b THEN "serving" ELSE "raising")
    /\ UNCHANGED <<SERVER, LOOP, PORT, ERROR, READY, port, sock, asked>>

(* server.close: new connections are refused and the open ones are closed.  *)
CloseListener(b) ==
    /\ asked[b]
    /\ Goes(b, "serving", "closing")
    /\ sock' = [sock EXCEPT ![b] = 0]
    /\ UNCHANGED <<SERVER, LOOP, PORT, ERROR, READY, port, asked>>

(* wait_closed waits for the handlers.                                      *)
EndOnceIdle(b) ==
    /\ Goes(b, "closing", "dead")
    /\ handlers = {}
    /\ asked' = [asked EXCEPT ![b] = FALSE]
    /\ UNCHANGED <<SERVER, LOOP, PORT, ERROR, READY, port, sock>>

End(b) ==
    /\ Goes(b, "closing", "dead")
    /\ ~Busy(b)
    /\ asked' = [asked EXCEPT ![b] = FALSE]
    /\ UNCHANGED <<SERVER, LOOP, PORT, ERROR, READY, port, sock>>

(* The error is set before the event that start_live_server waits for.      *)
Fail(b) ==
    /\ Goes(b, "raising", "dead")
    /\ ERROR' = TRUE /\ READY' = TRUE
    /\ sock' = [sock EXCEPT ![b] = 0]
    /\ asked' = [asked EXCEPT ![b] = FALSE]
    /\ UNCHANGED <<SERVER, LOOP, PORT, port>>

Run(b) ==
    \/ Prepare(b) \/ Bind(b) \/ BindFails(b) \/ NamePort(b) \/ SetReady(b)
    \/ AwaitClosed(b) \/ CloseListener(b) \/ End(b) \/ Fail(b)

(* server.close as run by another server's loop, <<a, b>>, makes the        *)
(* closing a task of the server's own loop, <<b, b>>.  A thread that waits  *)
(* for its sockets notices that when it has something else to do, if ever.  *)
RunStray(a, b) ==
    /\ <<a, b>> \in strays
    /\ place[a] \in {"binding", "raising", "serving", "closing"}
    /\ \/ /\ strays' = strays \ {<<a, b>>}
          /\ asked' = [asked EXCEPT ![b] = @ \/ Alive(b)]
       \/ /\ a # b /\ place[b] = "serving"
          /\ strays' = (strays \ {<<a, b>>}) \cup {<<b, b>>}
          /\ UNCHANGED asked
    /\ UNCHANGED <<globals, starts, place, port, sock, handlers, application>>

----------------------------------------------------------------------------
(* The application thread.  A registration starts the server unless it is   *)
(* running, and then reads its port.                                        *)

ReadyKept == READY

ReadyAtStart == FALSE

Start(p) ==
    /\ ~is_server_running
    /\ starts < MaxStarts
    /\ starts' = starts + 1
    /\ ERROR' = FALSE /\ READY' = ReadyAtStart
    /\ THREAD' = starts'
    /\ place' = [place EXCEPT ![starts'] = "started"]
    /\ port' = [port EXCEPT ![starts'] = p]
    /\ app' = "waiting"
    /\ UNCHANGED <<SERVER, LOOP, PORT, sock, asked, strays, handlers>>

start_live_server(p) ==
    /\ app = "idle"
    /\ Start(p)
    /\ UNCHANGED <<advertised, abandoned>>

(* The wait for READY is over, because it is set or after two seconds.  A   *)
(* registration fails unless the server then runs.                          *)
Started ==
    /\ app = "waiting"
    /\ \/ app' = "idle"
       \/ is_server_running /\ app' = "publishing"
    /\ abandoned' = IF READY THEN abandoned ELSE abandoned \cup {THREAD}
    /\ UNCHANGED <<globals, threads, advertised>>

RegisterWithRunning ==
    /\ app = "idle" /\ app' = "publishing"
    /\ is_server_running
    /\ UNCHANGED <<globals, threads, advertised, abandoned>>

Advertise ==
    /\ app = "publishing"
    /\ app' = "idle"
    /\ advertised' = {PORT}
    /\ UNCHANGED <<globals, threads, abandoned>>

ScheduleCloseForgotten == UNCHANGED <<asked, strays>>

(* The close of the server that one global names, in the loop that the      *)
(* other names; after a start that was given up on they may differ.         *)
ScheduleClose ==
    IF LOOP = SERVER
    THEN asked' = [asked EXCEPT ![SERVER] = TRUE] /\ UNCHANGED strays
    ELSE strays' = strays \cup {<<LOOP, SERVER>>} /\ UNCHANGED asked

(* loop.is_running(): it may not be yet, or no longer, in the thread whose  *)
(* loop it is.                                                              *)
MayRun == LOOP # None /\ Alive(LOOP)
MustRun == MayRun /\ place[LOOP] \notin {"binding", "raising"}

(* The application has closed its publications when it stops the server.    *)
stop_live_server ==
    /\ app = "idle" /\ app' = "joining"
    /\ \/ SERVER # None /\ MayRun /\ ScheduleClose
       \/ ~(SERVER # None /\ MustRun) /\ UNCHANGED <<asked, strays>>
    /\ advertised' = {}
    /\ UNCHANGED <<globals, starts, place, port, sock, handlers, abandoned>>

(* The join is over, because the thread has ended or after two seconds.     *)
Forget ==
    /\ app = "joining" /\ app' = "idle"
    /\ SERVER' = None /\ LOOP' = None /\ PORT' = 0 /\ THREAD' = None
    /\ abandoned' = IF THREAD = None \/ place[THREAD] \in {"serving", "closing", "dead"}
                    THEN abandoned ELSE abandoned \cup {THREAD}
    /\ UNCHANGED <<ERROR, READY, threads, advertised>>

Return == Started \/ Advertise \/ Forget

Application ==
    \/ \E p \in Requested : start_live_server(p)
    \/ RegisterWithRunning \/ stop_live_server \/ Return

----------------------------------------------------------------------------
(* As long as neither call gave up on a thread that did not serve yet:      *)
Attended == abandoned = {}

(* A server that counts as running has bound its port and listens on the    *)
(* port that registrations advertise, although a thread that a stop did not *)
(* wait for still writes the globals (server.py:741-776, 791-806, 830-843). *)
RunningIsServed ==
    Attended /\ app \in {"idle", "publishing"} /\ is_server_running =>
        /\ SERVER = THREAD /\ LOOP = THREAD
        /\ PORT # 0 /\ sock[THREAD] = PORT

(* The port in the registry is one on which the process listens until the   *)
(* application stops the server (server.py:763-766, producer.py:543-548).   *)
AdvertisedIsListening ==
    Attended => \A p \in advertised : p # 0 /\ \E b \in Threads : sock[b] = p

(* A stop leaves no thread that has not been told to end, so that at most   *)
(* one server takes new work at any time (server.py:809-827).               *)
StoppedMeansAsked ==
    Attended /\ app = "idle" => \A b \in Threads \ {THREAD} : Alive(b) => asked[b]

----------------------------------------------------------------------------
(* The three properties about the server as an inductive invariant.         *)

ThreadsAreNumbered ==
    /\ \A b \in Threads : place[b] = "new" <=> b > starts
    /\ \A b \in Threads : asked[b] => place[b] # "new"
    /\ \A x \in strays : x[2] <= starts
    /\ \A b \in Threads : place[b] = "binding" => port[b] # 0
    /\ THREAD <= starts /\ SERVER <= starts

(* No thread but the current one still starts, or serves unasked.           *)
OthersAreAsked ==
    \A b \in Threads \ {THREAD} :
        /\ place[b] \in {"new", "serving", "closing", "dead"}
        /\ Alive(b) => asked[b]

(* The globals belong to the current thread as far as it has come.          *)
GlobalsAreOwn ==
    /\ SERVER \in {None, THREAD} /\ strays = {}
    /\ THREAD # None =>
        /\ place[THREAD] \notin {"started", "dead"} => LOOP = THREAD
        /\ \/ place[THREAD] \in {"started", "binding", "raising"}
           \/ place[THREAD] = "dead" /\ app # "joining"
           => SERVER = None
        /\ place[THREAD] \in {"bound", "named", "ready", "serving"} =>
              SERVER = THREAD /\ sock[THREAD] # 0
        /\ place[THREAD] \in {"named", "ready", "serving"} => PORT = sock[THREAD]
        /\ READY => place[THREAD] \in {"ready", "serving", "closing", "dead"}
        /\ ERROR => place[THREAD] = "dead"
        /\ place[THREAD] = "closing" => asked[THREAD]

(* What the application thread may rely on.                                 *)
ApplicationKnows ==
    /\ THREAD # None =>
        /\ app # "waiting" => READY
        /\ asked[THREAD] => app = "joining"
        /\ app = "joining" /\ Alive(THREAD) => asked[THREAD]
    /\ app = "publishing" \/ advertised # {} =>
          /\ THREAD # None /\ place[THREAD] \in {"ready", "serving"}
          /\ app \in {"idle", "publishing"} /\ advertised \subseteq {PORT}

LifeInvariant ==
    /\ ThreadsAreNumbered
    /\ Attended => OthersAreAsked /\ GlobalsAreOwn /\ ApplicationKnows
=============================================================================
