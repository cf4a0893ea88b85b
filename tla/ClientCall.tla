----------------------------- MODULE ClientCall -----------------------------
(****************************************************************************)
(* Clients of a server that is started, stopped and replaced: send_request  *)
(* and _run_sync in src/qimchi_connect/client.py, _handle_client in         *)
(* server.py.                                                               *)
(*                                                                          *)
(* Each call opens a connection of its own, sends one request and closes    *)
(* the connection.  The timeouts are those of the websockets library and of *)
(* asyncio; a handler is not stopped when its connection is lost.  A call   *)
(* is awaited in the caller's event loop, or run by a worker thread while   *)
(* the caller waits for it with a timeout of its own.                       *)
(****************************************************************************)
EXTENDS ServerLifecycle

CONSTANTS
    Clients,
    ConnectTimeout, \* open_timeout
    Timeout,        \* for the answer, from the moment the connection is open
    CloseTimeout,   \* the closing handshake and the decoding
    Margin,         \* what a synchronous caller waits beyond the first two
    MaxCalls        \* bound on the calls of a client

ASSUME TimeoutsAssumption ==
    /\ ConnectTimeout \in Nat /\ Timeout \in Nat /\ CloseTimeout \in Nat
    /\ Margin \in Nat \ {0} /\ MaxCalls \in Nat

VARIABLES
    pc,         \* where each client's call is
    caller,     \* what its caller does meanwhile
    calls,      \* the number of its call
    peer,       \* the server it is connected to
    answered,   \* whether it has been sent an answer
    timer,      \* time since the step it is in began
    spent       \* time since the call began

clientVars == <<pc, caller, calls, peer, answered, timer, spent>>
vars == <<lifeVars, clientVars>>

Init ==
    /\ LifeInit
    /\ pc = [c \in Clients |-> "idle"]
    /\ caller = [c \in Clients |-> "none"]
    /\ calls = [c \in Clients |-> 0]
    /\ peer = [c \in Clients |-> None]
    /\ answered = [c \in Clients |-> FALSE]
    /\ timer = [c \in Clients |-> 0]
    /\ spent = [c \in Clients |-> 0]

Enters(c, from, to) ==
    /\ pc[c] = from
    /\ pc' = [pc EXCEPT ![c] = to]
    /\ timer' = [timer EXCEPT ![c] = 0]

(* From a coroutine, or from synchronous code (_run_sync).                  *)
Request(c) ==
    /\ Enters(c, "idle", "connecting")
    /\ calls[c] < MaxCalls
    /\ calls' = [calls EXCEPT ![c] = @ + 1]
    /\ \E kind \in {"awaits", "waits"} : caller' = [caller EXCEPT ![c] = kind]
    /\ UNCHANGED <<lifeVars, peer, answered, spent>>

(* A server whose loop runs completes the handshake and reads the request.  *)
Connect(c, b) ==
    /\ Enters(c, "connecting", "awaiting")
    /\ place[b] = "serving"
    /\ peer' = [peer EXCEPT ![c] = b]
    /\ handlers' = handlers \cup {[loop |-> b, client |-> c, call |-> calls[c]]}
    /\ UNCHANGED <<globals, starts, place, port, sock, asked, strays, application,
                   caller, calls, answered, spent>>

(* Nothing listens where it calls, or the handshake takes too long.         *)
NotConnected(c) ==
    /\ Enters(c, "connecting", "idle")
    /\ caller' = [caller EXCEPT ![c] = "none"]
    /\ spent' = [spent EXCEPT ![c] = 0]
    /\ UNCHANGED <<lifeVars, calls, peer, answered>>

(* The handler sends its answer, if the connection is still there.          *)
Reply(h) ==
    /\ handlers' = handlers \ {h}
    /\ answered' = IF calls[h.client] = h.call /\ pc[h.client] = "awaiting"
                      /\ place[h.loop] = "serving"
                   THEN [answered EXCEPT ![h.client] = TRUE] ELSE answered
    /\ UNCHANGED <<globals, starts, place, port, sock, asked, strays, application,
                   pc, caller, calls, peer, timer, spent>>

Receive(c) ==
    /\ Enters(c, "awaiting", "closing")
    /\ answered[c]
    /\ UNCHANGED <<lifeVars, caller, calls, peer, answered, spent>>

(* No answer in time, or the server closes the connection.                  *)
GiveUp(c) ==
    /\ Enters(c, "awaiting", "closing")
    /\ \/ timer[c] = Timeout
       \/ /\ ~answered[c]
          /\ place[peer[c]] \in {"closing", "dead"}
    /\ UNCHANGED <<lifeVars, caller, calls, peer, answered, spent>>

(* The end of the closing handshake, or of the wait for it, and the answer  *)
(* decoded.  Only now a synchronous caller returns or raises, whose         *)
(* executor waits for its thread.                                           *)
Disconnect(c) ==
    /\ Enters(c, "closing", "idle")
    /\ caller' = [caller EXCEPT ![c] = "none"]
    /\ peer' = [peer EXCEPT ![c] = None]
    /\ answered' = [answered EXCEPT ![c] = FALSE]
    /\ spent' = [spent EXCEPT ![c] = 0]
    /\ UNCHANGED <<lifeVars, calls>>

BudgetOfAnswer == Timeout + Margin

Budget == ConnectTimeout + Timeout + Margin

(* future.result gives up, with the call still under way.                   *)
WaitOver(c) ==
    /\ caller[c] = "waits" /\ spent[c] = Budget
    /\ caller' = [caller EXCEPT ![c] = "leaves"]
    /\ UNCHANGED <<lifeVars, pc, calls, peer, answered, timer, spent>>

(* One timeout covers the request and its answer.                           *)
Limit(c) ==
    CASE pc[c] = "connecting" -> ConnectTimeout
      [] pc[c] = "awaiting" -> Timeout
      [] pc[c] = "closing" -> CloseTimeout

Waiting == {c \in Clients : pc[c] # "idle"}
OneLater(time) == [c \in Clients |-> time[c] + (IF c \in Waiting THEN 1 ELSE 0)]

Tick ==
    /\ Waiting # {}
    /\ \A c \in Waiting : /\ timer[c] < Limit(c)
                          /\ caller[c] = "waits" => spent[c] < Budget
    /\ timer' = OneLater(timer) /\ spent' = OneLater(spent)
    /\ UNCHANGED <<lifeVars, pc, caller, calls, peer, answered>>

----------------------------------------------------------------------------
Call(c) == NotConnected(c) \/ Receive(c) \/ GiveUp(c) \/ Disconnect(c) \/ WaitOver(c)

Serve == \E b \in Threads : Run(b) /\ UNCHANGED clientVars

Stray == \E a, b \in Threads : RunStray(a, b) /\ UNCHANGED clientVars

Next ==
    \/ (Application /\ UNCHANGED clientVars)
    \/ Serve \/ Stray
    \/ \E h \in handlers : Reply(h)
    \/ \E c \in Clients : Request(c) \/ Call(c) \/ \E b \in Threads : Connect(c, b)
    \/ Tick

Spec == Init /\ [][Next]_vars

(* Server threads run.  A handler may never end: its callback is the        *)
(* application's.                                                           *)
FairSpec == Spec /\ \A b \in Threads : WF_vars(Run(b) /\ UNCHANGED clientVars)

----------------------------------------------------------------------------
TypeOK ==
    /\ {SERVER, LOOP, THREAD} \subseteq Threads \cup {None}
    /\ PORT \in Ports \cup {0} /\ advertised \subseteq Ports \cup {0}
    /\ {ERROR, READY} \subseteq BOOLEAN
    /\ starts \in Threads \cup {0} /\ abandoned \subseteq Threads
    /\ place \in [Threads -> {"new", "started", "binding", "bound", "named", "ready",
                            "serving", "closing", "raising", "dead"}]
    /\ port \in [Threads -> Ports \cup {0}] /\ sock \in [Threads -> Ports \cup {0}]
    /\ asked \in [Threads -> BOOLEAN]
    /\ strays \subseteq Threads \X Threads
    /\ handlers \subseteq [loop : Threads, client : Clients, call : 1..MaxCalls]
    /\ app \in {"idle", "waiting", "publishing", "joining"}
    /\ app = "waiting" => THREAD # None
    /\ pc \in [Clients -> {"idle", "connecting", "awaiting", "closing"}]
    /\ caller \in [Clients -> {"none", "awaits", "waits", "leaves"}]
    /\ calls \in [Clients -> 0..MaxCalls] /\ answered \in [Clients -> BOOLEAN]
    /\ peer \in [Clients -> Threads \cup {None}]
    /\ timer \in [Clients -> Nat] /\ spent \in [Clients -> Nat]

(* A synchronous caller does not give up on a call whose own timeouts have  *)
(* not ended it: when its wait is over, the call has had its whole time to  *)
(* connect and for the answer, and has been closing for the margin          *)
(* (client.py:66-78, 316-318, 345).                                         *)
WaitOutlastsCall ==
    \A c \in Clients :
        caller[c] = "leaves" => pc[c] = "closing" /\ timer[c] >= Margin

(* WaitOutlastsCall as an inductive invariant: what each step of a call may *)
(* have taken by now.                                                       *)
StepIsTimed(c) ==
    /\ pc[c] # "idle" => calls[c] > 0
    /\ pc[c] = "idle" => timer[c] = 0 /\ spent[c] = 0 /\ caller[c] = "none"
    /\ pc[c] = "connecting" => timer[c] <= ConnectTimeout /\ spent[c] <= timer[c]
    /\ pc[c] = "awaiting" =>
          timer[c] <= Timeout /\ spent[c] <= ConnectTimeout + timer[c]
    /\ pc[c] = "closing" =>
          timer[c] <= CloseTimeout /\ spent[c] <= ConnectTimeout + Timeout + timer[c]
    /\ caller[c] = "leaves" => pc[c] = "closing" /\ spent[c] >= Budget

CallInvariant == TypeOK /\ \A c \in Clients : StepIsTimed(c)

(* A stop ends the server it is called for, although it does not wait for   *)
(* it as long as it takes, and so does every close that a server's own loop *)
(* has to run: the server's thread ends, or waits for a callback that it    *)
(* runs itself, never for requests or closes of an earlier or later server. *)
(* A close that went to another server's loop is not promised that          *)
(* (server.py:767-776, 815-821).                                            *)
StoppedServerEnds ==
    \A b \in Threads :
        asked[b] \/ (Attended /\ app = "joining" /\ THREAD = b) ~>
            ~Alive(b) \/ (place[b] = "closing" /\ Busy(b))
=============================================================================
