------------------------------ MODULE Reconcile ------------------------------
(****************************************************************************)
(* The discovery registry that several producer processes share, and the    *)
(* sweeps that end the rows of producers which have gone:                   *)
(* src/qimchi_connect/registry.py.                                          *)
(*                                                                          *)
(* The SQLite file serializes single statements of different processes; a   *)
(* sweep reads all its rows first and then works through them with one      *)
(* statement, or one probe of an endpoint, after another, addressing each   *)
(* row by its identifier.  Producers register, beat, close, crash and come  *)
(* back in between, and sweeps of several processes overlap.                *)
(****************************************************************************)
EXTENDS Integers

CONSTANTS
    Producers,      \* producer processes; each has one endpoint
    Beating,        \* those that publish with a heartbeat
    Ids,            \* measurement identifiers
    Sweepers,       \* processes that call maintain_registry
    None,           \* no producer, no identifier
    Stale,          \* stale_after
    Grace,          \* unreachable_grace
    Retention,      \* retention_days
    Interval,       \* the longest a running producer goes without a beat
    Flaky,          \* whether a running producer may fail to answer a probe
    MaxRuns,        \* bound on the registrations of an identifier
    MaxClock        \* bound on the clock

ASSUME NoneAssumption == None \notin Producers /\ None \notin Ids
ASSUME ProducersAssumption == Beating \subseteq Producers /\ Flaky \in BOOLEAN
ASSUME TimesAssumption ==
    /\ Stale \in Nat /\ Grace \in Nat /\ Retention \in Nat /\ Interval \in Nat
    /\ MaxRuns \in Nat /\ MaxClock \in Nat

Never == 0          \* the clock starts at 1
NoRow == [status |-> "absent", endpoint |-> None, seen |-> Never, missed |-> Never,
          ended |-> Never]

VARIABLES
    row,        \* live_measurements, by measurement_id
    run,        \* registrations of each identifier so far
    up,         \* the producers that are running
    open,       \* what each of them publishes, and lists when it is probed
    settling,   \* the registration that has yet to write its first beat
    answered,   \* history: when the measurement last answered or registered
    now,
    pc,         \* where each sweep is
    began,      \* when the sweep began
    found,      \* the rows it read and has yet to work on
    endpoint,   \* the endpoint it is probing
    advertised, \* the answer of that endpoint
    subject,    \* the row whose missed_since it has read
    due         \* history: the runs the sweep had to end when it began

producerVars == <<run, up, open, settling>>
sweepVars == <<pc, began, found, endpoint, advertised, subject, due>>
vars == <<row, run, up, open, settling, answered, now, pc, began, found, endpoint,
          advertised, subject, due>>

NoSubject == [id |-> None, missed |-> Never]
NoAnswer == [ok |-> FALSE, ids |-> {}]

Init ==
    /\ row = [m \in Ids |-> NoRow]
    /\ run = [m \in Ids |-> 0]
    /\ up = Producers
    /\ open = [p \in Producers |-> {}]
    /\ settling = [p \in Producers |-> None]
    /\ answered = [m \in Ids |-> Never]
    /\ now = 1
    /\ pc = [s \in Sweepers |-> "idle"]
    /\ began = [s \in Sweepers |-> Never]
    /\ found = [s \in Sweepers |-> {}]
    /\ endpoint = [s \in Sweepers |-> None]
    /\ advertised = [s \in Sweepers |-> NoAnswer]
    /\ subject = [s \in Sweepers |-> NoSubject]
    /\ due = [s \in Sweepers |-> {}]

(* A definition below whose name ends in a fault's description is a faulty  *)
(* variant of the one that follows it; no specification uses it.            *)

----------------------------------------------------------------------------
(* The statements on one row.  An UPDATE of a row that is not there does    *)
(* nothing.                                                                 *)

Exists(r) == r.status # "absent"

register_measurement(p) ==
    [status |-> "running", endpoint |-> p, seen |-> Never, missed |-> Never,
     ended |-> Never]

end_measurement(r) ==
    IF Exists(r) THEN [r EXCEPT !.status = "ended", !.ended = now] ELSE r

heartbeatAsStatus(r) == IF Exists(r) THEN [r EXCEPT !.status = "beating"] ELSE r

heartbeat(r) == IF Exists(r) THEN [r EXCEPT !.seen = now] ELSE r

note_reachable(r) == IF Exists(r) THEN [r EXCEPT !.missed = Never] ELSE r

note_unreachable(r, when) == IF Exists(r) THEN [r EXCEPT !.missed = when] ELSE r

expired(r) == r.status = "ended" /\ now - r.ended > Retention

livenessExclusive(r) ==
    IF r.seen = Never THEN "unknown"
    ELSE IF now - r.seen < Stale THEN "beating" ELSE "stopped"

liveness(r) ==
    IF r.seen = Never THEN "unknown"
    ELSE IF now - r.seen <= Stale THEN "beating" ELSE "stopped"

SetRow(m, r) == row' = [row EXCEPT ![m] = r]

----------------------------------------------------------------------------
(* Producer processes.  Two running producers never use the same            *)
(* identifier; registering an open one again is a Close and a Register.     *)

Register(p, m) ==
    /\ p \in up
    /\ settling[p] = None
    /\ \A q \in Producers : m \notin open[q]
    /\ run[m] < MaxRuns
    /\ run' = [run EXCEPT ![m] = @ + 1]
    /\ open' = [open EXCEPT ![p] = @ \cup {m}]
    /\ SetRow(m, register_measurement(p))
    /\ settling' = IF p \in Beating THEN [settling EXCEPT ![p] = m] ELSE settling
    /\ answered' = [answered EXCEPT ![m] = now]
    /\ UNCHANGED <<up, now, sweepVars>>

FirstBeat(p) ==
    /\ settling[p] # None
    /\ SetRow(settling[p], heartbeat(row[settling[p]]))
    /\ settling' = [settling EXCEPT ![p] = None]
    /\ UNCHANGED <<run, up, open, answered, now, sweepVars>>

Beat(p, m) ==
    /\ p \in Beating
    /\ m \in open[p] \ {settling[p]}
    /\ SetRow(m, heartbeat(row[m]))
    /\ UNCHANGED <<producerVars, answered, now, sweepVars>>

Close(p, m) ==
    /\ m \in open[p] \ {settling[p]}
    /\ open' = [open EXCEPT ![p] = @ \ {m}]
    /\ SetRow(m, end_measurement(row[m]))
    /\ UNCHANGED <<run, up, settling, answered, now, sweepVars>>

(* The process ends without a close: its rows stay as they are.             *)
Crash(p) ==
    /\ p \in up
    /\ up' = up \ {p}
    /\ open' = [open EXCEPT ![p] = {}]
    /\ settling' = [settling EXCEPT ![p] = None]
    /\ UNCHANGED <<row, run, answered, now, sweepVars>>

Restart(p) ==
    /\ p \in Producers \ up
    /\ up' = up \cup {p}
    /\ UNCHANGED <<row, run, open, settling, answered, now, sweepVars>>

(* Time passes as long as the running producers keep their heartbeats.      *)
Tick ==
    /\ now < MaxClock
    /\ \A p \in up \cap Beating :
          /\ settling[p] = None
          /\ \A m \in open[p] : now + 1 - row[m].seen <= Interval
    /\ now' = now + 1
    /\ UNCHANGED <<row, producerVars, answered, sweepVars>>

----------------------------------------------------------------------------
(* maintain_registry: reconcile_live_measurements, then                     *)
(* cleanup_old_measurements.                                                *)

Running == {m \in Ids : row[m].status = "running"}

Gone(m) ==
    \/ liveness(row[m]) = "stopped"
    \/ /\ liveness(row[m]) = "unknown"
       /\ row[m].endpoint \notin up
       /\ row[m].missed # Never /\ now - row[m].missed >= Grace

BeginSweep(s) ==
    /\ pc[s] = "idle"
    /\ pc' = [pc EXCEPT ![s] = "sorting"]
    /\ began' = [began EXCEPT ![s] = now]
    /\ found' = [found EXCEPT ![s] =
                    {[id |-> m, endpoint |-> row[m].endpoint,
                      liveness |-> liveness(row[m])] : m \in Running}]
    /\ due' = [due EXCEPT ![s] =
                    {<<m, run[m]>> : m \in {n \in Running : Gone(n)}}]
    /\ UNCHANGED <<row, producerVars, answered, now, endpoint, advertised, subject>>

Drop(s, record) == found' = [found EXCEPT ![s] = @ \ {record}]

(* What reading the row's heartbeat says about it: hiding it from the live  *)
(* list would not be enough, since only ended rows are ever deleted.        *)
AfterReadingHidesOnly(record, r) ==
    IF record.liveness = "beating" THEN note_reachable(r) ELSE r

AfterReading(record, r) ==
    IF record.liveness = "beating" THEN note_reachable(r) ELSE end_measurement(r)

Sort(s, record) ==
    /\ pc[s] = "sorting"
    /\ record \in found[s] /\ record.liveness \in {"beating", "stopped"}
    /\ Drop(s, record)
    /\ SetRow(record.id, AfterReading(record, row[record.id]))
    /\ UNCHANGED <<producerVars, answered, now, pc, began, endpoint, advertised, subject,
                   due>>

(* The rows without a heartbeat are probed by endpoint, after the others.   *)
(* The attempts of a probe count as one: it has an answer or it has none.   *)
Probe(s, p) ==
    /\ pc[s] = "sorting"
    /\ \A record \in found[s] : record.liveness = "unknown"
    /\ \E record \in found[s] : record.endpoint = p
    /\ endpoint' = [endpoint EXCEPT ![s] = p]
    /\ pc' = [pc EXCEPT ![s] = "judging"]
    /\ \/ /\ p \in up
          /\ advertised' = [advertised EXCEPT ![s] = [ok |-> TRUE, ids |-> open[p]]]
          /\ answered' = [m \in Ids |-> IF m \in open[p] THEN now ELSE answered[m]]
       \/ /\ p \notin up \/ Flaky
          /\ advertised' = [advertised EXCEPT ![s] = NoAnswer]
          /\ UNCHANGED answered
    /\ UNCHANGED <<row, producerVars, now, began, found, subject, due>>

Probed(s) == {record \in found[s] : record.endpoint = endpoint[s]}

AfterAnswerKeepsMiss(s, m, r) ==
    IF m \in advertised[s].ids THEN r ELSE end_measurement(r)

AfterAnswerEndsAll(s, m, r) == end_measurement(r)

AfterAnswer(s, m, r) ==
    IF m \in advertised[s].ids THEN note_reachable(r) ELSE end_measurement(r)

Judge(s, record) ==
    /\ pc[s] = "judging"
    /\ record \in Probed(s)
    /\ Drop(s, record)
    /\ \/ /\ advertised[s].ok
          /\ SetRow(record.id, AfterAnswer(s, record.id, row[record.id]))
          /\ UNCHANGED <<pc, subject>>
       \/ /\ ~advertised[s].ok
          /\ subject' = [subject EXCEPT ![s] =
                            [id |-> record.id, missed |-> row[record.id].missed]]
          /\ pc' = [pc EXCEPT ![s] = "missing"]
          /\ UNCHANGED row
    /\ UNCHANGED <<producerVars, answered, now, began, endpoint, advertised, due>>

(* The rest of _note_unreachable, with the missed_since it has read, and    *)
(* the decision.  The first miss counts as no time at all.                  *)
Unanswered(s) ==
    IF subject[s].missed = Never THEN 0 ELSE began[s] - subject[s].missed

Miss(s) ==
    /\ pc[s] = "missing"
    /\ LET m == subject[s].id
           noted == IF subject[s].missed = Never
                    THEN note_unreachable(row[m], began[s]) ELSE row[m]
       IN  SetRow(m, IF Unanswered(s) >= Grace THEN end_measurement(noted) ELSE noted)
    /\ pc' = [pc EXCEPT ![s] = "judging"]
    /\ subject' = [subject EXCEPT ![s] = NoSubject]
    /\ UNCHANGED <<producerVars, answered, now, began, found, endpoint, advertised, due>>

NextEndpoint(s) ==
    /\ pc[s] = "judging"
    /\ Probed(s) = {}
    /\ pc' = [pc EXCEPT ![s] = "sorting"]
    /\ endpoint' = [endpoint EXCEPT ![s] = None]
    /\ advertised' = [advertised EXCEPT ![s] = NoAnswer]
    /\ UNCHANGED <<row, producerVars, answered, now, began, found, subject, due>>

Cleanup(s) ==
    /\ pc[s] = "sorting"
    /\ found[s] = {}
    /\ row' = [m \in Ids |-> IF expired(row[m]) THEN NoRow ELSE row[m]]
    /\ pc' = [pc EXCEPT ![s] = "idle"]
    /\ began' = [began EXCEPT ![s] = Never]
    /\ due' = [due EXCEPT ![s] = {}]
    /\ UNCHANGED <<producerVars, answered, now, found, endpoint, advertised, subject>>

----------------------------------------------------------------------------
Produce(p) ==
    \/ \E m \in Ids : Register(p, m) \/ Beat(p, m) \/ Close(p, m)
    \/ FirstBeat(p) \/ Crash(p) \/ Restart(p)

Sweep(s) ==
    \/ BeginSweep(s) \/ Miss(s) \/ NextEndpoint(s) \/ Cleanup(s)
    \/ \E record \in found[s] : Sort(s, record) \/ Judge(s, record)
    \/ \E p \in Producers : Probe(s, p)

Next == (\E p \in Producers : Produce(p)) \/ (\E s \in Sweepers : Sweep(s)) \/ Tick

Spec == Init /\ [][Next]_vars

----------------------------------------------------------------------------
Times == 0..MaxClock + 1
Row == [status : {"absent", "running", "ended"}, endpoint : Producers \cup {None},
        seen : Times, missed : Times, ended : Times]
FoundRow == [id : Ids, endpoint : Producers \cup {None},
             liveness : {"unknown", "beating", "stopped"}]

TypeOK ==
    /\ row \in [Ids -> Row]
    /\ run \in [Ids -> 0..MaxRuns]
    /\ up \subseteq Producers
    /\ open \in [Producers -> SUBSET Ids]
    /\ settling \in [Producers -> Ids \cup {None}]
    /\ answered \in [Ids -> Times]
    /\ now \in Times
    /\ pc \in [Sweepers -> {"idle", "sorting", "judging", "missing"}]
    /\ began \in [Sweepers -> Times]
    /\ found \in [Sweepers -> SUBSET FoundRow]
    /\ endpoint \in [Sweepers -> Producers \cup {None}]
    /\ advertised \in [Sweepers -> [ok : BOOLEAN, ids : SUBSET Ids]]
    /\ subject \in [Sweepers -> [id : Ids \cup {None}, missed : Times]]
    /\ due \in [Sweepers -> SUBSET (Ids \X (0..MaxRuns))]

(* No sweep ends the row of a measurement whose producer runs and beats in  *)
(* time, even if that producer fails to answer while its first beat is      *)
(* still to be written: the measurement stays in the live list.  Checked    *)
(* for identifiers that are registered once (registry.py:503-508, 561-579). *)
RunningIsListed ==
    \A p \in up : \A m \in open[p] :
        p \in Beating \/ ~Flaky =>
            /\ row[m].status = "running" /\ row[m].endpoint = p
            /\ liveness(row[m]) # "stopped"

(* A sweep that finishes has ended every run that was due when it began:    *)
(* those whose beats had stopped, and those without a heartbeat whose       *)
(* endpoint was down and had been missed for the whole grace period         *)
(* (registry.py:561-609).                                                   *)
SweepEndsWhatIsGone ==
    \A s \in Sweepers :
        pc[s] = "sorting" /\ found[s] = {} =>
            \A m \in Ids : <<m, run[m]>> \in due[s] => row[m].status # "running"

(* A row is ended for want of an answer only when the endpoint has not      *)
(* answered for the grace period.  Checked for one sweeper and identifiers  *)
(* that are registered once (registry.py:447-453, 606-609).                 *)
EndedUnanswered(s) ==
    /\ pc[s] = "missing" /\ pc'[s] # "missing"
    /\ row[subject[s].id].status = "running"
    /\ row'[subject[s].id].status = "ended"

GraceIsRespected ==
    [][\A s \in Sweepers :
          EndedUnanswered(s) => now - answered[subject[s].id] >= Grace]_vars

----------------------------------------------------------------------------
(* The properties as inductive invariants.                                  *)

(* What holds of the producers, the sweeps and the rows whatever happens.   *)
ProducersAreShaped ==
    /\ \A p, q \in Producers : p # q => open[p] \cap open[q] = {}
    /\ \A p \in Producers \ up : open[p] = {}
    /\ \A p \in Producers : settling[p] # None => p \in Beating /\ settling[p] \in open[p]
    /\ \A p \in Producers : \A m \in open[p] :
          row[m].status = "running" => row[m].endpoint = p
    /\ \A m \in Ids : answered[m] <= now
    /\ now > Never

SweepIsShaped(s) ==
    /\ began[s] <= now
    /\ \A k \in due[s] : k[2] <= run[k[1]]
    /\ \A a, b \in found[s] : a.id = b.id => a = b
    /\ pc[s] = "idle" => found[s] = {} /\ due[s] = {}
    /\ pc[s] # "sorting" => \A a \in found[s] : a.liveness = "unknown"
    /\ pc[s] = "missing" => /\ subject[s].id \in Ids /\ ~advertised[s].ok
                            /\ \A a \in found[s] : a.id # subject[s].id

RegistryInvariant ==
    TypeOK /\ ProducersAreShaped /\ \A s \in Sweepers : SweepIsShaped(s)

(* The sweep has read m's row and has not decided on it.                    *)
Holds(s, m) ==
    \/ \E a \in found[s] : a.id = m
    \/ pc[s] = "missing" /\ subject[s].id = m

(* For identifiers that are registered once: what a sweep holds of an open  *)
(* measurement is about its present run.                                    *)
PresentRun(s) ==
    /\ \A m \in Ids : run[m] = 0 => ~Holds(s, m)
    /\ \A a \in found[s] :
          /\ row[a.id].status = "running" => row[a.id].endpoint = a.endpoint
          /\ \A p \in Producers : a.id \in open[p] => a.endpoint = p
    /\ pc[s] \in {"judging", "missing"} => \A p \in Producers : \A a \in Probed(s) :
          a.id \in open[p] => IF advertised[s].ok THEN a.id \in advertised[s].ids ELSE Flaky
    /\ pc[s] = "missing" =>
          /\ \A p \in Producers : subject[s].id \in open[p] => Flaky
          /\ row[subject[s].id].status = "running"
                => row[subject[s].id].endpoint = endpoint[s]

RunsAreSingle ==
    /\ \A m \in Ids : run[m] = 0 => /\ row[m].status # "running"
                                     /\ \A p \in Producers : m \notin open[p]
    /\ \A s \in Sweepers : PresentRun(s)

(* The sweep has found m without a heartbeat: for one that has a heartbeat, *)
(* that was before its first beat, and no time had passed since then.       *)
FoundUnbeaten(s, m) ==
    \/ \E a \in found[s] : a.id = m /\ a.liveness = "unknown"
    \/ pc[s] = "missing" /\ subject[s].id = m

OpenIsKept(p, m) ==
    /\ p \in Beating /\ m = settling[p]
          => row[m].seen = Never /\ row[m].missed \in {Never, now}
    /\ p \in Beating /\ m # settling[p]
          => row[m].seen # Never /\ now - row[m].seen <= Interval
    /\ p \notin Beating => row[m].seen = Never

FoundInTime(s) ==
    /\ \A p \in Beating : \A m \in open[p] : FoundUnbeaten(s, m) =>
          /\ m = settling[p] => began[s] = now
          /\ row[m].missed \in {Never, began[s]}
          /\ pc[s] = "missing" /\ subject[s].id = m
                => subject[s].missed \in {Never, began[s]}
    /\ \A p \in Producers : \A a \in found[s] :
          a.id \in open[p] => a.liveness # "stopped"

BeatsAreKept ==
    /\ \A p \in Producers : \A m \in open[p] : OpenIsKept(p, m)
    /\ \A s \in Sweepers : FoundInTime(s)
    /\ \A s, t \in Sweepers, p \in Beating : \A m \in open[p] :
          FoundUnbeaten(s, m) /\ FoundUnbeaten(t, m) => began[s] = began[t]

ListedInvariant == RegistryInvariant /\ RunsAreSingle /\ BeatsAreKept /\ RunningIsListed

(* For one sweeper: it still has to decide on what was due when it began,   *)
(* and knows enough to end it.                                              *)
AtHand(s, m) ==
    \/ \E a \in found[s] : a.id = m /\ a.liveness = "stopped"
    \/ /\ \E a \in found[s] : a.id = m /\ a.liveness = "unknown"
       /\ row[m].missed # Never /\ began[s] - row[m].missed >= Grace
       /\ \A p \in Producers : m \notin open[p]
       /\ pc[s] = "judging" /\ advertised[s].ok /\ (\E a \in Probed(s) : a.id = m)
             => m \notin advertised[s].ids
    \/ /\ pc[s] = "missing" /\ subject[s].id = m
       /\ subject[s].missed # Never /\ began[s] - subject[s].missed >= Grace

DueIsAtHand ==
    \A s \in Sweepers, m \in Ids :
        <<m, run[m]>> \in due[s] /\ row[m].status = "running" => AtHand(s, m)

(* For one sweeper and identifiers that are registered once: an endpoint    *)
(* has not answered for a measurement since that was missed, except that    *)
(* the sweep that has the answer is about to say so.                        *)
Clearing(s, m) ==
    /\ pc[s] = "judging" /\ advertised[s].ok /\ m \in advertised[s].ids
    /\ \E a \in Probed(s) : a.id = m

RowIsSince(s, m) ==
    /\ answered[m] <= row[m].missed \/ Clearing(s, m)
    /\ pc[s] # "idle" => \/ Holds(s, m)
                         \/ \A a \in found[s] : a.endpoint # row[m].endpoint
                         \/ /\ pc[s] \in {"judging", "missing"} /\ ~advertised[s].ok
                            /\ endpoint[s] = row[m].endpoint

SinceMissed(s) ==
    /\ \A m \in Ids :
          row[m].status = "running" /\ row[m].missed # Never => RowIsSince(s, m)
    /\ \A a \in found[s] : answered[a.id] <= began[s] \/ Clearing(s, a.id)
    /\ pc[s] = "missing" =>
          /\ answered[subject[s].id] <= began[s]
          /\ row[subject[s].id].status = "running" /\ subject[s].missed # Never
                => answered[subject[s].id] <= subject[s].missed

MissesAreSince == \A s \in Sweepers : SinceMissed(s)
=============================================================================
