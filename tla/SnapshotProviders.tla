-------------------------- MODULE SnapshotProviders --------------------------
(****************************************************************************)
(* The snapshot providers of src/qimchi_connect/producer.py: what a call    *)
(* from one of the server's worker threads returns while the measurement    *)
(* goes on in its own thread.                                               *)
(*                                                                          *)
(*   qcodes    only the measuring thread may read the run; it refreshes a   *)
(*             cached snapshot, at most once per RefreshInterval            *)
(*   quantify  each call reads a file that the measurement rewrites, and    *)
(*             falls back to what was read before                           *)
(*   qanary    each call reads the arrays of a store, one after the other   *)
(*                                                                          *)
(* The points of a run are recorded in order, so an array is its length.    *)
(****************************************************************************)
EXTENDS Integers, Sequences

CONSTANTS
    Workers,            \* worker threads of the server that call the provider
    Kinds,              \* the providers that are considered
    Arrays,             \* number of arrays of a dataset
    Points,             \* points of the run
    RefreshInterval,    \* refresh_interval
    Final,              \* whether the measurement forces a last refresh
    MaxClock            \* bound on the clock

ASSUME KindsAssumption == Kinds \subseteq {"qcodes", "quantify", "qanary"}
ASSUME SizesAssumption ==
    /\ Arrays \in Nat \ {0} /\ Points \in Nat /\ MaxClock \in Nat
    /\ RefreshInterval \in Nat /\ Final \in BOOLEAN

Whole(n) == [a \in 1..Arrays |-> n]
AtLeast(d, e) == \A a \in 1..Arrays : d[a] >= e[a]
Never == -RefreshInterval       \* float("-inf"): the clock starts at 0

VARIABLES
    kind,
    stored,         \* what the run has recorded
    readable,       \* whether the run's file is complete
    lastAdd,        \* history: when the latest point was recorded
    snapshot,       \* _snapshot of the provider
    last_refresh,   \* _last_refresh
    asOf,           \* history: when the data of the snapshot was read
    now,
    at,             \* where the measuring thread is
    refresh,        \* local variables of refresh, and when it read the run
    ending,         \* whether the loop over the points has ended
    published,      \* whether the provider has been prepared and published
    failed,         \* history: whether the last refresh that was due has raised
    pc,             \* where each worker is in its call
    loaded,         \* what the call has read
    result,         \* what the worker's last call returned
    newest,         \* history: the most that a call has returned, by array
    floor,          \* history: newest when the worker's call began
    overlapped      \* history: whether two calls have run at once

run == <<kind, stored, readable, lastAdd>>
cache == <<snapshot, last_refresh, asOf>>
course == <<ending, published, failed>>
measuring == <<at, refresh, course>>
calls == <<pc, loaded, result, newest, floor, overlapped>>
vars == <<run, cache, now, measuring, calls>>

NoRefresh == [now |-> 0, snapshot |-> Whole(0), asOf |-> 0]

Init ==
    /\ kind \in Kinds
    /\ \E n \in 0..Points : stored = Whole(n)
    /\ readable = (kind # "quantify")
    /\ snapshot = Whole(0) /\ last_refresh = Never
    /\ now = 0 /\ lastAdd = 0 /\ asOf = 0
    /\ at = IF kind = "qcodes" THEN "unpublished" ELSE "measuring"
    /\ refresh = NoRefresh /\ ending = FALSE /\ failed = FALSE
    /\ published = (kind # "qcodes")
    /\ pc = [w \in Workers |-> "idle"]
    /\ loaded = [w \in Workers |-> <<>>]
    /\ result = [w \in Workers |-> Whole(0)]
    /\ newest = Whole(0)
    /\ floor = [w \in Workers |-> Whole(0)]
    /\ overlapped = FALSE

(* A definition below whose name ends in a fault's description is a faulty  *)
(* variant of the one that follows it; no specification uses it.            *)

----------------------------------------------------------------------------
(* QCoDeS: the measuring thread.                                            *)

Throttled == now - last_refresh < RefreshInterval

RefreshAlwaysThrottled(force) ==
    IF Throttled
    THEN at' = (IF ending' THEN "done" ELSE "measuring") /\ UNCHANGED refresh
    ELSE at' = "refreshing" /\ refresh' = [refresh EXCEPT !.now = now]

Refresh(force) ==
    IF ~force /\ Throttled
    THEN at' = "measuring" /\ UNCHANGED refresh
    ELSE at' = "refreshing" /\ refresh' = [refresh EXCEPT !.now = now]

prepare ==
    /\ at = "unpublished"
    /\ UNCHANGED course
    /\ Refresh(TRUE)
    /\ UNCHANGED <<run, cache, now, calls>>

add_result ==
    /\ kind = "qcodes" /\ at = "measuring" /\ stored # Whole(Points)
    /\ stored' = Whole(stored[1] + 1)
    /\ lastAdd' = now
    /\ UNCHANGED course
    /\ Refresh(FALSE)
    /\ UNCHANGED <<kind, readable, cache, now, calls>>

(* The datasaver's add_result raises: nothing is recorded and nothing is    *)
(* refreshed.  A program that does not catch that ends its loop here.       *)
add_resultRaises ==
    /\ kind = "qcodes" /\ at = "measuring" /\ stored # Whole(Points)
    /\ at' = "done"
    /\ UNCHANGED <<run, cache, now, refresh, course, calls>>

(* The loop is over: the example forces a refresh before it closes.         *)
Finish ==
    /\ kind = "qcodes" /\ at = "measuring" /\ stored = Whole(Points)
    /\ ending' = TRUE
    /\ IF Final THEN Refresh(TRUE) ELSE at' = "done" /\ UNCHANGED refresh
    /\ UNCHANGED <<run, cache, now, published, failed, calls>>

(* Nothing is recorded meanwhile, and the flush makes the read complete.    *)
FlushAndRead ==
    /\ at = "refreshing"
    /\ at' = "publishing"
    /\ refresh' = [refresh EXCEPT !.snapshot = stored, !.asOf = now]
    /\ UNCHANGED <<run, cache, now, course, calls>>

(* The flush or the read raises: what is cached stays as it was, and so     *)
(* does the time of the last refresh.  A registration that could not        *)
(* prepare the provider publishes nothing; in the loop the program catches  *)
(* the exception and goes on, or does not.                                  *)
FlushRaises ==
    /\ at = "refreshing"
    /\ failed' = TRUE
    /\ \/ ~published /\ at' = "unpublished"
       \/ published /\ ~ending /\ at' = "measuring"
       \/ published /\ at' = "done"
    /\ refresh' = NoRefresh
    /\ UNCHANGED <<run, cache, now, ending, published, calls>>

StampAtEnd == now

StampDue == refresh.now + RefreshInterval

Stamp == refresh.now

Publish ==
    /\ at = "publishing"
    /\ at' = IF ending THEN "done" ELSE "measuring"
    /\ snapshot' = refresh.snapshot /\ asOf' = refresh.asOf
    /\ last_refresh' = Stamp
    /\ refresh' = NoRefresh
    /\ published' = TRUE /\ failed' = FALSE
    /\ UNCHANGED <<run, now, ending, calls>>

----------------------------------------------------------------------------
(* Quantify rewrites its file as it acquires; the sweep of a Qanary run     *)
(* writes a point into one array after the other.                           *)

Rewrite ==
    /\ kind = "quantify"
    /\ readable => stored # Whole(Points)
    /\ readable' = ~readable
    /\ IF readable THEN UNCHANGED stored
       ELSE \E n \in stored[1]..Points : stored' = Whole(n)
    /\ UNCHANGED <<kind, lastAdd, cache, now, measuring, calls>>

WriteArray(a) ==
    /\ kind = "qanary"
    /\ stored[a] < Points
    /\ \A b \in 1..Arrays : stored[b] = stored[a] + (IF b < a THEN 1 ELSE 0)
    /\ stored' = [stored EXCEPT ![a] = @ + 1]
    /\ UNCHANGED <<kind, readable, lastAdd, cache, now, measuring, calls>>

Tick ==
    /\ now < MaxClock
    /\ now' = now + 1
    /\ UNCHANGED <<run, cache, measuring, calls>>

----------------------------------------------------------------------------
(* A call of the provider, in a worker thread: __call__.                    *)

Call(w) ==
    /\ published
    /\ pc[w] = "idle"
    /\ pc' = [pc EXCEPT ![w] = IF kind = "qcodes" THEN "returning" ELSE "reading"]
    /\ floor' = [floor EXCEPT ![w] = newest]
    /\ overlapped' = (overlapped \/ \E v \in Workers : pc[v] # "idle")
    /\ UNCHANGED <<run, cache, now, measuring, loaded, result, newest>>

Go(w, place, data) ==
    /\ pc' = [pc EXCEPT ![w] = place]
    /\ loaded' = [loaded EXCEPT ![w] = data]
    /\ UNCHANGED <<run, last_refresh, asOf, now, measuring, result, newest, floor,
                   overlapped>>

(* A file that cannot be read leaves the previous snapshot in place.        *)
LoadForgetting(w) ==
    /\ kind = "quantify" /\ pc[w] = "reading"
    /\ Go(w, "assigning", IF readable THEN stored ELSE Whole(0))
    /\ UNCHANGED snapshot

Load(w) ==
    /\ kind = "quantify" /\ pc[w] = "reading"
    /\ IF readable THEN Go(w, "assigning", stored) ELSE Go(w, "returning", <<>>)
    /\ UNCHANGED snapshot

Assign(w) ==
    /\ pc[w] = "assigning"
    /\ snapshot' = loaded[w]
    /\ Go(w, "returning", <<>>)

LoadArray(w) ==
    /\ kind = "qanary" /\ pc[w] = "reading"
    /\ LET read == Append(loaded[w], stored[Len(loaded[w]) + 1])
       IN  Go(w, IF Len(read) = Arrays THEN "returning" ELSE "reading", read)
    /\ UNCHANGED snapshot

Answer(w) == IF kind = "qanary" THEN loaded[w] ELSE snapshot

Return(w) ==
    /\ pc[w] = "returning"
    /\ pc' = [pc EXCEPT ![w] = "idle"]
    /\ loaded' = [loaded EXCEPT ![w] = <<>>]
    /\ result' = [result EXCEPT ![w] = Answer(w)]
    /\ newest' = [a \in 1..Arrays |->
                     IF Answer(w)[a] > newest[a] THEN Answer(w)[a] ELSE newest[a]]
    /\ UNCHANGED <<run, cache, now, measuring, floor, overlapped>>

----------------------------------------------------------------------------
Measure ==
    \/ prepare \/ add_result \/ add_resultRaises \/ Finish
    \/ FlushAndRead \/ FlushRaises \/ Publish \/ Rewrite
    \/ \E a \in 1..Arrays : WriteArray(a)

Provide(w) == Call(w) \/ Load(w) \/ Assign(w) \/ LoadArray(w) \/ Return(w)

Next == Measure \/ Tick \/ \E w \in Workers : Provide(w)

Spec == Init /\ [][Next]_vars

----------------------------------------------------------------------------
Dataset == [1..Arrays -> 0..Points]
Clock == 0..MaxClock

TypeOK ==
    /\ kind \in Kinds
    /\ stored \in Dataset /\ snapshot \in Dataset /\ newest \in Dataset
    /\ readable \in BOOLEAN /\ overlapped \in BOOLEAN
    /\ ending \in BOOLEAN /\ published \in BOOLEAN /\ failed \in BOOLEAN
    /\ now \in Clock /\ lastAdd \in Clock /\ asOf \in Clock
    /\ last_refresh \in Clock \cup {Never}
    /\ at \in {"unpublished", "measuring", "refreshing", "publishing", "done"}
    /\ refresh \in [now : Clock, snapshot : Dataset, asOf : Clock]
    /\ pc \in [Workers -> {"idle", "reading", "assigning", "returning"}]
    /\ loaded \in [Workers -> Seq(0..Points)]
    /\ \A w \in Workers : Len(loaded[w]) <= Arrays
    /\ result \in [Workers -> Dataset]
    /\ floor \in [Workers -> Dataset]

(* A call returns at least the points that any call before it has returned, *)
(* whatever it cannot read meanwhile; for Quantify as long as calls do not  *)
(* overlap (producer.py:170-177, 242-251, 353-374).                         *)
NeverGoesBack ==
    ~(kind = "quantify" /\ overlapped) =>
        \A w \in Workers : pc[w] = "idle" => AtLeast(result[w], floor[w])

(* Unless the last refresh that was due raised, the cached QCoDeS snapshot  *)
(* is never behind by a point that was recorded a refresh interval after    *)
(* its data was read, however long a read takes (producer.py:166-188).      *)
MissesOnlyRecent ==
    kind = "qcodes" /\ ~failed /\ at \in {"measuring", "done"} =>
        snapshot = stored \/ lastAdd - asOf < RefreshInterval

(* A measurement that ends as the example does has published all of its     *)
(* points, whatever raised before the last refresh, if that one did not     *)
(* (producer.py:166-177, examples/qcodes_measurement.py:97-99).             *)
EndIsPublished ==
    kind = "qcodes" /\ Final /\ ending /\ ~failed /\ at = "done" =>
        snapshot = Whole(Points)

----------------------------------------------------------------------------
(* The properties as an inductive invariant.                                *)

(* What a call has read at each place.                                      *)
CallsAreShaped ==
    \A w \in Workers :
        /\ pc[w] = "idle" => loaded[w] = <<>>
        /\ pc[w] = "reading" => kind # "qcodes" /\ Len(loaded[w]) < Arrays
        /\ pc[w] = "reading" /\ kind = "quantify" => loaded[w] = <<>>
        /\ pc[w] = "assigning" => kind = "quantify" /\ loaded[w] \in Dataset
        /\ pc[w] = "returning" /\ kind = "qanary" => loaded[w] \in Dataset

Shaped == TypeOK /\ CallsAreShaped /\ (kind # "qanary" => stored = Whole(stored[1]))

(* Nothing is cached, read or returned that was not recorded before.        *)
OnlyRecorded ==
    /\ AtLeast(stored, snapshot) /\ AtLeast(stored, newest)
    /\ \A w \in Workers :
        /\ AtLeast(newest, floor[w])
        /\ \A a \in 1..Len(loaded[w]) : loaded[w][a] <= stored[a]

(* Data a call is about to return or to cache is as new as what was         *)
(* returned before it began.                                                *)
NothingIsLost ==
    /\ kind = "qanary" =>
          \A w \in Workers : \A a \in 1..Len(loaded[w]) : floor[w][a] <= loaded[w][a]
    /\ kind = "qcodes" \/ (kind = "quantify" /\ ~overlapped) => AtLeast(snapshot, newest)
    /\ kind = "quantify" /\ ~overlapped =>
          /\ \A v, w \in Workers : pc[v] # "idle" /\ pc[w] # "idle" => v = w
          /\ \A w \in Workers : pc[w] = "assigning" => AtLeast(loaded[w], snapshot)

(* How far a refresh has come, and what it is due to.                       *)
RefreshIsRecent ==
    /\ kind # "qcodes" => at = "measuring"
    /\ at \in {"unpublished", "measuring"} => ~ending
    /\ ending => stored = Whole(Points) /\ published
    /\ at = "unpublished" => ~published
    /\ at \in {"measuring", "done"} => published
    /\ last_refresh <= asOf /\ asOf <= now /\ refresh.now <= now
    /\ at = "publishing" =>
          /\ refresh.snapshot = stored
          /\ refresh.now <= refresh.asOf /\ refresh.asOf <= now
    /\ kind = "qcodes" /\ ~failed /\ at \in {"measuring", "done"} =>
          snapshot = stored \/ lastAdd - last_refresh < RefreshInterval
    /\ Final /\ ending /\ ~failed /\ at = "done" => snapshot = stored

ProvidersInvariant ==
    Shaped /\ OnlyRecorded /\ NothingIsLost /\ NeverGoesBack /\ RefreshIsRecent
=============================================================================
