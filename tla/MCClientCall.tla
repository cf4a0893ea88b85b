---------------------------- MODULE MCClientCall ----------------------------
(* ClientCall on small instances, and four statements that the code does    *)
(* not keep.                                                                *)
EXTENDS ClientCall, TLC

(* "Whether the server thread is alive and startup succeeded"               *)
(* (server.py:835).  A thread that start_live_server gave up on sets READY  *)
(* and the port for the thread of a second start.                           *)
RunningMeansSucceeded ==
    app = "idle" /\ is_server_running => place[THREAD] \in {"ready", "serving", "closing"}

(* A registration advertises the endpoint of the server (producer.py:544):  *)
(* after a start that was given up on it may advertise port 0.              *)
AdvertisedIsAPort == [][app = "publishing" => 0 \notin advertised']_vars

(* "Maximum number of seconds to wait" (client.py:310) plus one: leaving    *)
(* the executor waits for the closing handshake with a server that hangs.   *)
BudgetKept == \A c \in Clients : spent[c] <= Budget

(* "Stop the process-wide server" (server.py:811): after a start that was   *)
(* given up on, its thread may bind only after the stop has found nothing   *)
(* to close, or the close may go to the loop of another server; the thread  *)
(* then serves on.                                                          *)
StoppedServerEndsAnyway ==
    \A b \in Threads : app = "joining" /\ THREAD = b ~> ~Alive(b) \/ Busy(b)
=============================================================================
