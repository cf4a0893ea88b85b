---------------------------- MODULE ReconcileProofs ----------------------------
(* Proofs about Reconcile, for every value of its constants.                *)
EXTENDS Reconcile, TLAPS

----------------------------------------------------------------------------
(* What the statements on one row do.                                       *)

LEMMA RowFacts ==
  ASSUME TypeOK, NEW r \in Row
  PROVE  /\ end_measurement(r) \in Row /\ end_measurement(r).status # "running"
         /\ end_measurement(r).endpoint = r.endpoint
         /\ end_measurement(r).seen = r.seen /\ end_measurement(r).missed = r.missed
         /\ heartbeat(r) \in Row /\ heartbeat(r).status = r.status
         /\ heartbeat(r).endpoint = r.endpoint /\ heartbeat(r).missed = r.missed
         /\ r.status = "running" => heartbeat(r).seen = now
         /\ note_reachable(r) \in Row /\ note_reachable(r).status = r.status
         /\ note_reachable(r).endpoint = r.endpoint /\ note_reachable(r).seen = r.seen
         /\ r.status = "running" => note_reachable(r).missed = Never
         /\ \A when \in Times :
               /\ note_unreachable(r, when) \in Row /\ note_unreachable(r, when).status = r.status
               /\ note_unreachable(r, when).endpoint = r.endpoint
               /\ note_unreachable(r, when).seen = r.seen
               /\ r.status = "running" => note_unreachable(r, when).missed = when
  <1>1. now \in Times /\ Never \in Times
    BY TimesAssumption DEF TypeOK, Times, Never
  <1>2. /\ r.status \in {"absent", "running", "ended"} /\ r.endpoint \in Producers \cup {None}
        /\ r.seen \in Times /\ r.missed \in Times /\ r.ended \in Times
    BY DEF Row
  <1>3. /\ end_measurement(r) \in Row /\ end_measurement(r).status # "running"
        /\ end_measurement(r).endpoint = r.endpoint
        /\ end_measurement(r).seen = r.seen /\ end_measurement(r).missed = r.missed
    BY <1>1, <1>2 DEF end_measurement, Exists, Row
  <1>4. /\ heartbeat(r) \in Row /\ heartbeat(r).status = r.status
        /\ heartbeat(r).endpoint = r.endpoint /\ heartbeat(r).missed = r.missed
        /\ r.status = "running" => heartbeat(r).seen = now
    BY <1>1, <1>2 DEF heartbeat, Exists, Row
  <1>5. /\ note_reachable(r) \in Row /\ note_reachable(r).status = r.status
        /\ note_reachable(r).endpoint = r.endpoint /\ note_reachable(r).seen = r.seen
        /\ r.status = "running" => note_reachable(r).missed = Never
    BY <1>1, <1>2 DEF note_reachable, Exists, Row
  <1>6. ASSUME NEW when \in Times
        PROVE  /\ note_unreachable(r, when) \in Row /\ note_unreachable(r, when).status = r.status
               /\ note_unreachable(r, when).endpoint = r.endpoint
               /\ note_unreachable(r, when).seen = r.seen
               /\ r.status = "running" => note_unreachable(r, when).missed = when
    BY <1>1, <1>2 DEF note_unreachable, Exists, Row
  <1> QED BY <1>3, <1>4, <1>5, <1>6

LEMMA SetRowFacts ==
  ASSUME TypeOK, NEW m \in Ids, NEW r \in Row, SetRow(m, r)
  PROVE  row' \in [Ids -> Row] /\ row'[m] = r /\ \A n \in Ids : n # m => row'[n] = row[n]
  BY DEF SetRow, TypeOK

LEMMA Typed ==
  ASSUME TypeOK
  PROVE  /\ \A m \in Ids : row[m] \in Row /\ row[m].missed \in Int /\ row[m].seen \in Int
                           /\ row[m].endpoint \in Producers \cup {None}
                           /\ answered[m] \in Int /\ run[m] \in Int
         /\ now \in Int /\ \A s \in Sweepers : began[s] \in Int /\ began[s] \in Times
         /\ Stale \in Int /\ Grace \in Int /\ Interval \in Int /\ MaxClock \in Nat
         /\ MaxRuns \in Nat /\ Times \subseteq Int /\ Never \in Times /\ now \in Times
  BY TimesAssumption DEF TypeOK, Row, Times, Never

----------------------------------------------------------------------------
(* What each action does, seen from one identifier and one sweep.           *)

LEMMA RegisterFacts ==
  ASSUME TypeOK, NEW p \in Producers, NEW m \in Ids, Register(p, m)
  PROVE  /\ TypeOK' /\ p \in up /\ settling[p] = None /\ \A q \in Producers : m \notin open[q]
         /\ run[m] < MaxRuns /\ UNCHANGED <<up, now, sweepVars>>
         /\ run'[m] = run[m] + 1 /\ answered'[m] = now /\ row'[m] = register_measurement(p)
         /\ \A n \in Ids : n # m => /\ run'[n] = run[n] /\ answered'[n] = answered[n]
                                    /\ row'[n] = row[n]
         /\ open'[p] = open[p] \cup {m}
         /\ settling'[p] = IF p \in Beating THEN m ELSE None
         /\ \A q \in Producers : q # p => open'[q] = open[q] /\ settling'[q] = settling[q]
  <1>1. /\ p \in up /\ settling[p] = None /\ \A q \in Producers : m \notin open[q]
        /\ run[m] < MaxRuns /\ UNCHANGED <<up, now, sweepVars>>
        /\ run' = [run EXCEPT ![m] = @ + 1] /\ open' = [open EXCEPT ![p] = @ \cup {m}]
        /\ SetRow(m, register_measurement(p)) /\ answered' = [answered EXCEPT ![m] = now]
        /\ settling' = IF p \in Beating THEN [settling EXCEPT ![p] = m] ELSE settling
    BY DEF Register
  <1>2. register_measurement(p) \in Row
    BY Typed DEF register_measurement, Row
  <1>3. /\ row' \in [Ids -> Row] /\ row'[m] = register_measurement(p)
        /\ \A n \in Ids : n # m => row'[n] = row[n]
    BY <1>1, <1>2, SetRowFacts
  <1>4. /\ run' \in [Ids -> 0..MaxRuns] /\ run'[m] = run[m] + 1
        /\ \A n \in Ids : n # m => run'[n] = run[n]
    BY <1>1, Typed DEF TypeOK
  <1>5. /\ answered' \in [Ids -> Times] /\ answered'[m] = now
        /\ \A n \in Ids : n # m => answered'[n] = answered[n]
    BY <1>1 DEF TypeOK
  <1>6. /\ open' \in [Producers -> SUBSET Ids] /\ open'[p] = open[p] \cup {m}
        /\ settling' \in [Producers -> Ids \cup {None}]
        /\ settling'[p] = IF p \in Beating THEN m ELSE None
        /\ \A q \in Producers : q # p => open'[q] = open[q] /\ settling'[q] = settling[q]
    BY <1>1 DEF TypeOK
  <1>7. TypeOK'
    BY <1>1, <1>3, <1>4, <1>5, <1>6 DEF TypeOK, sweepVars
  <1> QED BY <1>1, <1>3, <1>4, <1>5, <1>6, <1>7

(* A beat, the first one or a later one. *)
LEMMA BeatFacts ==
  ASSUME RegistryInvariant, NEW p \in Producers,
         FirstBeat(p) \/ \E m \in Ids : Beat(p, m)
  PROVE  /\ TypeOK' /\ p \in Beating
         /\ UNCHANGED <<run, up, open, answered, now, sweepVars>>
         /\ \E m \in open[p] : /\ row'[m] = heartbeat(row[m])
                               /\ \A n \in Ids : n # m => row'[n] = row[n]
                               /\ \/ m = settling[p] /\ settling'[p] = None
                                  \/ m # settling[p] /\ settling'[p] = settling[p]
         /\ \A q \in Producers : q # p => settling'[q] = settling[q]
  <1> USE DEF RegistryInvariant
  <1>1. PICK m \in open[p] :
          /\ p \in Beating /\ m \in Ids /\ SetRow(m, heartbeat(row[m]))
          /\ UNCHANGED <<run, up, open, answered, now, sweepVars>>
          /\ \/ m = settling[p] /\ settling' = [settling EXCEPT ![p] = None]
             \/ m # settling[p] /\ settling' = settling
    <2>1. CASE FirstBeat(p)
      <3>1. settling[p] # None /\ settling[p] \in open[p] /\ p \in Beating /\ open[p] \subseteq Ids
        BY <2>1 DEF FirstBeat, ProducersAreShaped, TypeOK
      <3> QED BY <2>1, <3>1 DEF FirstBeat
    <2>2. CASE \E m \in Ids : Beat(p, m)
      BY <2>2 DEF Beat, producerVars
    <2> QED BY <2>1, <2>2
  <1>2. heartbeat(row[m]) \in Row
    BY <1>1, Typed, RowFacts
  <1>3. /\ row' \in [Ids -> Row] /\ row'[m] = heartbeat(row[m])
        /\ \A n \in Ids : n # m => row'[n] = row[n]
    BY <1>1, <1>2, SetRowFacts
  <1>4. /\ settling' \in [Producers -> Ids \cup {None}]
        /\ \A q \in Producers : q # p => settling'[q] = settling[q]
        /\ \/ m = settling[p] /\ settling'[p] = None
           \/ m # settling[p] /\ settling'[p] = settling[p]
    BY <1>1 DEF TypeOK
  <1>5. TypeOK'
    BY <1>1, <1>3, <1>4 DEF TypeOK, sweepVars
  <1> QED BY <1>1, <1>3, <1>4, <1>5

LEMMA CloseFacts ==
  ASSUME TypeOK, NEW p \in Producers, NEW m \in Ids, Close(p, m)
  PROVE  /\ TypeOK' /\ m \in open[p] /\ m # settling[p]
         /\ UNCHANGED <<run, up, settling, answered, now, sweepVars>>
         /\ row'[m] = end_measurement(row[m]) /\ \A n \in Ids : n # m => row'[n] = row[n]
         /\ open'[p] = open[p] \ {m} /\ \A q \in Producers : q # p => open'[q] = open[q]
  <1>1. /\ m \in open[p] \ {settling[p]} /\ open' = [open EXCEPT ![p] = @ \ {m}]
        /\ SetRow(m, end_measurement(row[m]))
        /\ UNCHANGED <<run, up, settling, answered, now, sweepVars>>
    BY DEF Close
  <1>2. end_measurement(row[m]) \in Row
    BY Typed, RowFacts
  <1>3. /\ row' \in [Ids -> Row] /\ row'[m] = end_measurement(row[m])
        /\ \A n \in Ids : n # m => row'[n] = row[n]
    BY <1>1, <1>2, SetRowFacts
  <1>4. /\ open' \in [Producers -> SUBSET Ids] /\ open'[p] = open[p] \ {m}
        /\ \A q \in Producers : q # p => open'[q] = open[q]
    BY <1>1 DEF TypeOK
  <1>5. TypeOK'
    BY <1>1, <1>3, <1>4 DEF TypeOK, sweepVars
  <1> QED BY <1>1, <1>3, <1>4, <1>5

LEMMA CrashFacts ==
  ASSUME TypeOK, NEW p \in Producers, Crash(p)
  PROVE  /\ TypeOK' /\ up' = up \ {p} /\ UNCHANGED <<row, run, answered, now, sweepVars>>
         /\ open'[p] = {} /\ settling'[p] = None
         /\ \A q \in Producers : q # p => open'[q] = open[q] /\ settling'[q] = settling[q]
  <1>1. /\ up' = up \ {p} /\ UNCHANGED <<row, run, answered, now, sweepVars>>
        /\ open' = [open EXCEPT ![p] = {}] /\ settling' = [settling EXCEPT ![p] = None]
    BY DEF Crash
  <1>2. /\ open' \in [Producers -> SUBSET Ids] /\ settling' \in [Producers -> Ids \cup {None}]
        /\ open'[p] = {} /\ settling'[p] = None
        /\ \A q \in Producers : q # p => open'[q] = open[q] /\ settling'[q] = settling[q]
    BY <1>1 DEF TypeOK
  <1>3. TypeOK'
    BY <1>1, <1>2 DEF TypeOK, sweepVars
  <1> QED BY <1>1, <1>2, <1>3

(* A step of sweep s; the state of every other sweep stays. *)
SweepStep(s) ==
  /\ UNCHANGED <<producerVars, now>>
  /\ \A t \in Sweepers : t # s =>
        /\ pc'[t] = pc[t] /\ began'[t] = began[t] /\ found'[t] = found[t]
        /\ endpoint'[t] = endpoint[t] /\ advertised'[t] = advertised[t]
        /\ subject'[t] = subject[t] /\ due'[t] = due[t]

LEMMA BeginSweepFacts ==
  ASSUME TypeOK, NEW s \in Sweepers, BeginSweep(s)
  PROVE  /\ TypeOK' /\ SweepStep(s) /\ UNCHANGED <<row, answered>>
         /\ pc[s] = "idle" /\ pc'[s] = "sorting" /\ began'[s] = now
         /\ found'[s] = {[id |-> m, endpoint |-> row[m].endpoint,
                          liveness |-> liveness(row[m])] : m \in Running}
         /\ due'[s] = {<<m, run[m]>> : m \in {n \in Running : Gone(n)}}
  <1> DEFINE F == {[id |-> m, endpoint |-> row[m].endpoint,
                    liveness |-> liveness(row[m])] : m \in Running}
             D == {<<m, run[m]>> : m \in {n \in Running : Gone(n)}}
  <1>1. /\ pc[s] = "idle" /\ pc' = [pc EXCEPT ![s] = "sorting"]
        /\ began' = [began EXCEPT ![s] = now] /\ found' = [found EXCEPT ![s] = F]
        /\ due' = [due EXCEPT ![s] = D]
        /\ UNCHANGED <<row, producerVars, answered, now, endpoint, advertised, subject>>
    BY DEF BeginSweep
  <1>2. F \in SUBSET FoundRow
    <2>1. \A m \in Running : /\ m \in Ids /\ row[m].endpoint \in Producers \cup {None}
                             /\ liveness(row[m]) \in {"unknown", "beating", "stopped"}
      BY DEF Running, TypeOK, Row, liveness
    <2> QED BY <2>1 DEF FoundRow
  <1>3. D \in SUBSET (Ids \X (0..MaxRuns))
    <2>1. \A m \in Running : m \in Ids /\ run[m] \in 0..MaxRuns
      BY DEF Running, TypeOK
    <2> QED BY <2>1
  <1> HIDE DEF F, D
  <1>4. /\ pc' \in [Sweepers -> {"idle", "sorting", "judging", "missing"}]
        /\ began' \in [Sweepers -> Times] /\ found' \in [Sweepers -> SUBSET FoundRow]
        /\ due' \in [Sweepers -> SUBSET (Ids \X (0..MaxRuns))]
    BY <1>1, <1>2, <1>3 DEF TypeOK
  <1>5. TypeOK'
    BY <1>1, <1>4 DEF TypeOK, producerVars
  <1>6. /\ pc'[s] = "sorting" /\ began'[s] = now /\ found'[s] = F /\ due'[s] = D
        /\ \A t \in Sweepers : t # s => /\ pc'[t] = pc[t] /\ began'[t] = began[t]
                                        /\ found'[t] = found[t] /\ due'[t] = due[t]
    BY <1>1 DEF TypeOK
  <1> QED BY <1>1, <1>5, <1>6 DEF SweepStep, F, D

LEMMA SortFacts ==
  ASSUME TypeOK, NEW s \in Sweepers, NEW a \in found[s], Sort(s, a)
  PROVE  /\ TypeOK' /\ SweepStep(s) /\ UNCHANGED answered
         /\ pc[s] = "sorting" /\ a \in FoundRow /\ a.id \in Ids
         /\ \/ a.liveness = "beating" /\ row'[a.id] = note_reachable(row[a.id])
            \/ a.liveness = "stopped" /\ row'[a.id] = end_measurement(row[a.id])
         /\ \A n \in Ids : n # a.id => row'[n] = row[n]
         /\ found'[s] = found[s] \ {a} /\ pc'[s] = pc[s] /\ began'[s] = began[s]
         /\ endpoint'[s] = endpoint[s] /\ advertised'[s] = advertised[s]
         /\ subject'[s] = subject[s] /\ due'[s] = due[s]
  <1>1. /\ pc[s] = "sorting" /\ a.liveness \in {"beating", "stopped"} /\ Drop(s, a)
        /\ SetRow(a.id, AfterReading(a, row[a.id]))
        /\ UNCHANGED <<producerVars, answered, now, pc, began, endpoint, advertised, subject, due>>
    BY DEF Sort
  <1>2. a \in FoundRow /\ a.id \in Ids
    BY DEF TypeOK, FoundRow
  <1>3. /\ AfterReading(a, row[a.id]) \in Row
        /\ \/ a.liveness = "beating"
              /\ AfterReading(a, row[a.id]) = note_reachable(row[a.id])
           \/ a.liveness = "stopped"
              /\ AfterReading(a, row[a.id]) = end_measurement(row[a.id])
    BY <1>1, <1>2, Typed, RowFacts DEF AfterReading
  <1>4. /\ row' \in [Ids -> Row] /\ row'[a.id] = AfterReading(a, row[a.id])
        /\ \A n \in Ids : n # a.id => row'[n] = row[n]
    BY <1>1, <1>2, <1>3, SetRowFacts
  <1>5. /\ found' \in [Sweepers -> SUBSET FoundRow] /\ found'[s] = found[s] \ {a}
        /\ \A t \in Sweepers : t # s => found'[t] = found[t]
    BY <1>1 DEF Drop, TypeOK
  <1>6. TypeOK'
    BY <1>1, <1>4, <1>5 DEF TypeOK, producerVars
  <1> QED BY <1>1, <1>2, <1>3, <1>4, <1>5, <1>6 DEF SweepStep

LEMMA ProbeFacts ==
  ASSUME TypeOK, NEW s \in Sweepers, NEW p \in Producers, Probe(s, p)
  PROVE  /\ TypeOK' /\ SweepStep(s) /\ UNCHANGED row
         /\ pc[s] = "sorting" /\ pc'[s] = "judging" /\ endpoint'[s] = p
         /\ \A a \in found[s] : a.liveness = "unknown"
         /\ \E a \in found[s] : a.endpoint = p
         /\ \/ /\ p \in up /\ advertised'[s].ok /\ advertised'[s].ids = open[p]
               /\ \A m \in Ids : answered'[m] = IF m \in open[p] THEN now ELSE answered[m]
            \/ /\ p \notin up \/ Flaky
               /\ ~advertised'[s].ok /\ answered' = answered
         /\ found'[s] = found[s] /\ began'[s] = began[s]
         /\ subject'[s] = subject[s] /\ due'[s] = due[s]
  <1>1. /\ pc[s] = "sorting" /\ \A a \in found[s] : a.liveness = "unknown"
        /\ \E a \in found[s] : a.endpoint = p
        /\ endpoint' = [endpoint EXCEPT ![s] = p] /\ pc' = [pc EXCEPT ![s] = "judging"]
        /\ UNCHANGED <<row, producerVars, now, began, found, subject, due>>
    BY DEF Probe
  <1>2. /\ endpoint' \in [Sweepers -> Producers \cup {None}] /\ endpoint'[s] = p
        /\ pc' \in [Sweepers -> {"idle", "sorting", "judging", "missing"}] /\ pc'[s] = "judging"
        /\ \A t \in Sweepers : t # s => pc'[t] = pc[t] /\ endpoint'[t] = endpoint[t]
    BY <1>1 DEF TypeOK
  <1>3. /\ advertised' \in [Sweepers -> [ok : BOOLEAN, ids : SUBSET Ids]]
        /\ answered' \in [Ids -> Times]
        /\ \A t \in Sweepers : t # s => advertised'[t] = advertised[t]
        /\ \/ /\ p \in up /\ advertised'[s].ok /\ advertised'[s].ids = open[p]
              /\ \A m \in Ids : answered'[m] = IF m \in open[p] THEN now ELSE answered[m]
           \/ /\ p \notin up \/ Flaky
              /\ ~advertised'[s].ok /\ answered' = answered
    <2>1. CASE /\ p \in up
               /\ advertised' = [advertised EXCEPT ![s] = [ok |-> TRUE, ids |-> open[p]]]
               /\ answered' = [m \in Ids |-> IF m \in open[p] THEN now ELSE answered[m]]
      <3>1. [ok |-> TRUE, ids |-> open[p]] \in [ok : BOOLEAN, ids : SUBSET Ids]
        BY DEF TypeOK
      <3>2. /\ advertised' \in [Sweepers -> [ok : BOOLEAN, ids : SUBSET Ids]]
            /\ advertised'[s] = [ok |-> TRUE, ids |-> open[p]]
            /\ \A t \in Sweepers : t # s => advertised'[t] = advertised[t]
        BY <2>1, <3>1 DEF TypeOK
      <3>3. answered' \in [Ids -> Times]
        BY <2>1 DEF TypeOK
      <3> QED BY <2>1, <3>2, <3>3
    <2>2. CASE /\ p \notin up \/ Flaky
               /\ advertised' = [advertised EXCEPT ![s] = NoAnswer] /\ UNCHANGED answered
      <3>1. NoAnswer \in [ok : BOOLEAN, ids : SUBSET Ids] /\ ~NoAnswer.ok
        BY DEF NoAnswer
      <3> QED BY <2>2, <3>1 DEF TypeOK
    <2> QED BY <2>1, <2>2 DEF Probe
  <1>4. TypeOK'
    BY <1>1, <1>2, <1>3 DEF TypeOK, producerVars
  <1> QED BY <1>1, <1>2, <1>3, <1>4 DEF SweepStep

LEMMA JudgeFacts ==
  ASSUME TypeOK, NEW s \in Sweepers, NEW a \in found[s], Judge(s, a)
  PROVE  /\ TypeOK' /\ SweepStep(s) /\ UNCHANGED answered
         /\ pc[s] = "judging" /\ a \in Probed(s) /\ a \in FoundRow /\ a.id \in Ids
         /\ \/ /\ advertised[s].ok /\ pc'[s] = "judging" /\ subject'[s] = subject[s]
               /\ \/ a.id \in advertised[s].ids /\ row'[a.id] = note_reachable(row[a.id])
                  \/ a.id \notin advertised[s].ids /\ row'[a.id] = end_measurement(row[a.id])
               /\ \A n \in Ids : n # a.id => row'[n] = row[n]
            \/ /\ ~advertised[s].ok /\ pc'[s] = "missing" /\ row' = row
               /\ subject'[s].id = a.id /\ subject'[s].missed = row[a.id].missed
         /\ found'[s] = found[s] \ {a} /\ began'[s] = began[s]
         /\ endpoint'[s] = endpoint[s] /\ advertised'[s] = advertised[s] /\ due'[s] = due[s]
  <1>1. /\ pc[s] = "judging" /\ a \in Probed(s) /\ Drop(s, a)
        /\ UNCHANGED <<producerVars, answered, now, began, endpoint, advertised, due>>
    BY DEF Judge
  <1>2. a \in FoundRow /\ a.id \in Ids
    BY DEF TypeOK, FoundRow
  <1>3. /\ found' \in [Sweepers -> SUBSET FoundRow] /\ found'[s] = found[s] \ {a}
        /\ \A t \in Sweepers : t # s => found'[t] = found[t]
    BY <1>1 DEF Drop, TypeOK
  <1>4. CASE /\ advertised[s].ok /\ UNCHANGED <<pc, subject>>
             /\ SetRow(a.id, AfterAnswer(s, a.id, row[a.id]))
    <2>1. /\ AfterAnswer(s, a.id, row[a.id]) \in Row
          /\ \/ a.id \in advertised[s].ids
                /\ AfterAnswer(s, a.id, row[a.id]) = note_reachable(row[a.id])
             \/ a.id \notin advertised[s].ids
                /\ AfterAnswer(s, a.id, row[a.id]) = end_measurement(row[a.id])
      BY <1>2, Typed, RowFacts DEF AfterAnswer
    <2>2. /\ row' \in [Ids -> Row] /\ row'[a.id] = AfterAnswer(s, a.id, row[a.id])
          /\ \A n \in Ids : n # a.id => row'[n] = row[n]
      BY <1>2, <1>4, <2>1, SetRowFacts
    <2>3. TypeOK'
      BY <1>1, <1>3, <1>4, <2>2 DEF TypeOK, producerVars
    <2> QED BY <1>1, <1>2, <1>3, <1>4, <2>1, <2>2, <2>3 DEF SweepStep
  <1>5. CASE /\ ~advertised[s].ok /\ row' = row /\ pc' = [pc EXCEPT ![s] = "missing"]
             /\ subject' = [subject EXCEPT ![s] = [id |-> a.id, missed |-> row[a.id].missed]]
    <2>1. [id |-> a.id, missed |-> row[a.id].missed] \in [id : Ids \cup {None}, missed : Times]
      BY <1>2, Typed DEF Row
    <2>2. /\ subject' \in [Sweepers -> [id : Ids \cup {None}, missed : Times]]
          /\ subject'[s] = [id |-> a.id, missed |-> row[a.id].missed]
          /\ \A t \in Sweepers : t # s => subject'[t] = subject[t]
      BY <1>5, <2>1 DEF TypeOK
    <2>3. /\ pc' \in [Sweepers -> {"idle", "sorting", "judging", "missing"}]
          /\ pc'[s] = "missing" /\ \A t \in Sweepers : t # s => pc'[t] = pc[t]
      BY <1>5 DEF TypeOK
    <2>4. TypeOK'
      BY <1>1, <1>3, <1>5, <2>2, <2>3 DEF TypeOK, producerVars
    <2> QED BY <1>1, <1>2, <1>3, <1>5, <2>2, <2>3, <2>4 DEF SweepStep
  <1> QED BY <1>4, <1>5 DEF Judge

LEMMA MissFacts ==
  ASSUME RegistryInvariant, NEW s \in Sweepers, Miss(s)
  PROVE  /\ TypeOK' /\ SweepStep(s) /\ UNCHANGED answered
         /\ pc[s] = "missing" /\ pc'[s] = "judging" /\ subject[s].id \in Ids
         /\ row'[subject[s].id].endpoint = row[subject[s].id].endpoint
         /\ row'[subject[s].id].seen = row[subject[s].id].seen
         /\ row'[subject[s].id].status = "running" => Unanswered(s) < Grace
         /\ Unanswered(s) < Grace
               => row'[subject[s].id].status = row[subject[s].id].status
         /\ row[subject[s].id].status = "running" =>
               row'[subject[s].id].missed = IF subject[s].missed = Never THEN began[s]
                                            ELSE row[subject[s].id].missed
         /\ \A n \in Ids : n # subject[s].id => row'[n] = row[n]
         /\ found'[s] = found[s] /\ began'[s] = began[s]
         /\ endpoint'[s] = endpoint[s] /\ advertised'[s] = advertised[s] /\ due'[s] = due[s]
  <1> USE DEF RegistryInvariant
  <1> DEFINE m == subject[s].id
             noted == IF subject[s].missed = Never
                      THEN note_unreachable(row[m], began[s]) ELSE row[m]
             new == IF Unanswered(s) >= Grace THEN end_measurement(noted) ELSE noted
  <1>1. /\ pc[s] = "missing" /\ SetRow(m, new)
        /\ pc' = [pc EXCEPT ![s] = "judging"] /\ subject' = [subject EXCEPT ![s] = NoSubject]
        /\ UNCHANGED <<producerVars, answered, now, began, found, endpoint, advertised, due>>
    BY DEF Miss
  <1>2. m \in Ids
    BY <1>1 DEF SweepIsShaped
  <1>3. /\ noted \in Row /\ noted.status = row[m].status /\ noted.endpoint = row[m].endpoint
        /\ noted.seen = row[m].seen
        /\ row[m].status = "running" =>
              noted.missed = IF subject[s].missed = Never THEN began[s] ELSE row[m].missed
    <2>1. row[m] \in Row /\ began[s] \in Times
      BY <1>2, Typed
    <2> HIDE DEF m
    <2> QED BY <2>1, RowFacts
  <1>4. Unanswered(s) \in Int /\ Grace \in Int
    BY Typed DEF Unanswered, TypeOK
  <1>5. /\ new \in Row /\ new.endpoint = row[m].endpoint /\ new.seen = row[m].seen
        /\ new.missed = noted.missed
        /\ new.status = "running" => Unanswered(s) < Grace
        /\ Unanswered(s) < Grace => new.status = row[m].status
    <2> HIDE DEF m, noted
    <2>1. CASE Unanswered(s) >= Grace
      BY <1>3, <1>4, <2>1, RowFacts
    <2>2. CASE Unanswered(s) < Grace
      BY <1>3, <1>4, <2>2
    <2> QED BY <1>4, <2>1, <2>2
  <1> HIDE DEF new, noted
  <1>6. /\ row' \in [Ids -> Row] /\ row'[m] = new /\ \A n \in Ids : n # m => row'[n] = row[n]
    BY <1>1, <1>2, <1>5, SetRowFacts
  <1>7. /\ pc' \in [Sweepers -> {"idle", "sorting", "judging", "missing"}] /\ pc'[s] = "judging"
        /\ subject' \in [Sweepers -> [id : Ids \cup {None}, missed : Times]]
        /\ \A t \in Sweepers : t # s => pc'[t] = pc[t] /\ subject'[t] = subject[t]
    <2>1. NoSubject \in [id : Ids \cup {None}, missed : Times]
      BY Typed DEF NoSubject
    <2> QED BY <1>1, <2>1 DEF TypeOK
  <1>8. TypeOK'
    BY <1>1, <1>6, <1>7 DEF TypeOK, producerVars
  <1> QED BY <1>1, <1>2, <1>3, <1>5, <1>6, <1>7, <1>8 DEF SweepStep

LEMMA NextEndpointFacts ==
  ASSUME TypeOK, NEW s \in Sweepers, NextEndpoint(s)
  PROVE  /\ TypeOK' /\ SweepStep(s) /\ UNCHANGED <<row, answered>>
         /\ pc[s] = "judging" /\ Probed(s) = {} /\ pc'[s] = "sorting"
         /\ found'[s] = found[s] /\ began'[s] = began[s]
         /\ subject'[s] = subject[s] /\ due'[s] = due[s]
  <1>1. /\ pc[s] = "judging" /\ Probed(s) = {} /\ pc' = [pc EXCEPT ![s] = "sorting"]
        /\ endpoint' = [endpoint EXCEPT ![s] = None]
        /\ advertised' = [advertised EXCEPT ![s] = NoAnswer]
        /\ UNCHANGED <<row, producerVars, answered, now, began, found, subject, due>>
    BY DEF NextEndpoint
  <1>2. /\ pc' \in [Sweepers -> {"idle", "sorting", "judging", "missing"}]
        /\ endpoint' \in [Sweepers -> Producers \cup {None}]
        /\ pc'[s] = "sorting"
        /\ \A t \in Sweepers : t # s => pc'[t] = pc[t] /\ endpoint'[t] = endpoint[t]
    BY <1>1 DEF TypeOK
  <1>3. /\ advertised' \in [Sweepers -> [ok : BOOLEAN, ids : SUBSET Ids]]
        /\ \A t \in Sweepers : t # s => advertised'[t] = advertised[t]
    <2>1. NoAnswer \in [ok : BOOLEAN, ids : SUBSET Ids]
      BY DEF NoAnswer
    <2> QED BY <1>1, <2>1 DEF TypeOK
  <1>4. TypeOK'
    BY <1>1, <1>2, <1>3 DEF TypeOK, producerVars
  <1> QED BY <1>1, <1>2, <1>3, <1>4 DEF SweepStep

LEMMA CleanupFacts ==
  ASSUME TypeOK, NEW s \in Sweepers, Cleanup(s)
  PROVE  /\ TypeOK' /\ SweepStep(s) /\ UNCHANGED answered
         /\ pc[s] = "sorting" /\ found[s] = {} /\ pc'[s] = "idle" /\ found'[s] = {}
         /\ began'[s] = Never /\ due'[s] = {}
         /\ \A m \in Ids : \/ row'[m] = row[m]
                           \/ row[m].status = "ended" /\ row'[m] = NoRow
  <1>1. /\ pc[s] = "sorting" /\ found[s] = {} /\ pc' = [pc EXCEPT ![s] = "idle"]
        /\ row' = [m \in Ids |-> IF expired(row[m]) THEN NoRow ELSE row[m]]
        /\ began' = [began EXCEPT ![s] = Never] /\ due' = [due EXCEPT ![s] = {}]
        /\ UNCHANGED <<producerVars, answered, now, found, endpoint, advertised, subject>>
    BY DEF Cleanup
  <1>2. NoRow \in Row
    BY Typed DEF NoRow, Row
  <1>3. /\ row' \in [Ids -> Row]
        /\ \A m \in Ids : \/ row'[m] = row[m]
                          \/ row[m].status = "ended" /\ row'[m] = NoRow
    BY <1>1, <1>2 DEF TypeOK, expired
  <1>4. /\ pc' \in [Sweepers -> {"idle", "sorting", "judging", "missing"}]
        /\ began' \in [Sweepers -> Times]
        /\ due' \in [Sweepers -> SUBSET (Ids \X (0..MaxRuns))]
        /\ pc'[s] = "idle" /\ began'[s] = Never /\ due'[s] = {}
        /\ \A t \in Sweepers : t # s => /\ pc'[t] = pc[t] /\ began'[t] = began[t]
                                        /\ due'[t] = due[t]
    BY <1>1, Typed DEF TypeOK
  <1>5. TypeOK'
    BY <1>1, <1>3, <1>4 DEF TypeOK, producerVars
  <1> QED BY <1>1, <1>3, <1>4, <1>5 DEF SweepStep

----------------------------------------------------------------------------
(* The invariant that holds whatever the constants are.                     *)

LEMMA InitRegistry == Init => RegistryInvariant
  <1> SUFFICES ASSUME Init PROVE RegistryInvariant
    OBVIOUS
  <1> USE NoneAssumption, TimesAssumption DEF Init, Never
  <1>1. /\ NoRow \in Row /\ NoAnswer \in [ok : BOOLEAN, ids : SUBSET Ids]
        /\ NoSubject \in [id : Ids \cup {None}, missed : Times]
        /\ NoRow.status # "running" /\ 1 \in Times /\ 0 \in Times /\ 0 \in 0..MaxRuns
    BY DEF NoRow, NoAnswer, NoSubject, Row, Times
  <1>2. TypeOK
    BY <1>1 DEF TypeOK
  <1>3. ProducersAreShaped
    BY <1>1 DEF ProducersAreShaped
  <1>4. \A s \in Sweepers : SweepIsShaped(s)
    BY DEF SweepIsShaped
  <1> QED BY <1>2, <1>3, <1>4 DEF RegistryInvariant

(* Steps that are not the sweep's. *)
LEMMA SweepStays ==
  ASSUME TypeOK, NEW s \in Sweepers, SweepIsShaped(s),
         pc'[s] = pc[s], began'[s] = began[s], found'[s] = found[s],
         advertised'[s] = advertised[s], subject'[s] = subject[s], due'[s] = due[s],
         \A m \in Ids : run[m] <= run'[m], now <= now', now' \in Int,
         \A m \in Ids : run'[m] \in Int
  PROVE  SweepIsShaped(s)'
  <1>1. began'[s] <= now'
    BY Typed DEF SweepIsShaped
  <1>2. \A k \in due'[s] : k[2] <= run'[k[1]]
    <2>1. \A k \in due[s] : k[1] \in Ids /\ k[2] \in Int
      BY DEF TypeOK
    <2> QED BY <2>1, Typed DEF SweepIsShaped
  <1> QED BY <1>1, <1>2 DEF SweepIsShaped

(* A step of sweep s, with what it does to that one. *)
LEMMA SweepRegistry ==
  ASSUME RegistryInvariant, NEW s \in Sweepers, SweepStep(s), TypeOK', SweepIsShaped(s)',
         \A m \in Ids : row'[m].status = "running"
                           => row[m].status = "running" /\ row'[m].endpoint = row[m].endpoint,
         \A m \in Ids : answered'[m] <= now
  PROVE  RegistryInvariant'
  <1> USE DEF RegistryInvariant
  <1>1. UNCHANGED <<run, up, open, settling, now>>
    BY DEF SweepStep, producerVars
  <1>2. ProducersAreShaped'
    <2>1. \A p \in Producers : open[p] \subseteq Ids
      BY DEF TypeOK
    <2> QED BY <1>1, <2>1 DEF ProducersAreShaped
  <1>3. ASSUME NEW t \in Sweepers, t # s PROVE SweepIsShaped(t)'
    BY <1>1, <1>3, SweepStays, Typed DEF SweepStep
  <1> QED BY <1>2, <1>3

LEMMA ProduceRegistry ==
  ASSUME RegistryInvariant, NEW p \in Producers, Produce(p) PROVE RegistryInvariant'
  <1> USE NoneAssumption DEF RegistryInvariant
  <1>0. \A q \in Producers : open[q] \subseteq Ids
    BY DEF TypeOK
  <1>1. ASSUME NEW m \in Ids, Register(p, m) PROVE RegistryInvariant'
    <2>1. /\ TypeOK' /\ p \in up /\ settling[p] = None /\ \A q \in Producers : m \notin open[q]
          /\ UNCHANGED <<up, now, sweepVars>>
          /\ run'[m] = run[m] + 1 /\ answered'[m] = now /\ row'[m] = register_measurement(p)
          /\ \A n \in Ids : n # m => /\ run'[n] = run[n] /\ answered'[n] = answered[n]
                                     /\ row'[n] = row[n]
          /\ open'[p] = open[p] \cup {m}
          /\ settling'[p] = IF p \in Beating THEN m ELSE None
          /\ \A q \in Producers : q # p => open'[q] = open[q] /\ settling'[q] = settling[q]
      BY <1>1, RegisterFacts
    <2>2. row'[m].endpoint = p
      BY <2>1 DEF register_measurement
    <2>3. \A s \in Sweepers : SweepIsShaped(s)'
      <3>1. /\ \A n \in Ids : run[n] <= run'[n] /\ run'[n] \in Int
            /\ now <= now' /\ now' \in Int
        BY <2>1, Typed
      <3> QED BY <2>1, <3>1, SweepStays DEF sweepVars
    <2>4. ProducersAreShaped'
      <3>1. \A q, r \in Producers : q # r => open'[q] \cap open'[r] = {}
        BY <2>1 DEF ProducersAreShaped
      <3>2. \A q \in Producers : \A n \in open'[q] :
               row'[n].status = "running" => row'[n].endpoint = q
        BY <1>0, <2>1, <2>2 DEF ProducersAreShaped
      <3>3. \A n \in Ids : answered'[n] <= now'
        BY <2>1, Typed DEF ProducersAreShaped
      <3> QED BY <2>1, <3>1, <3>2, <3>3 DEF ProducersAreShaped
    <2> QED BY <2>1, <2>3, <2>4
  <1>2. CASE FirstBeat(p) \/ \E m \in Ids : Beat(p, m)
    <2>1. PICK m \in open[p] : /\ row'[m] = heartbeat(row[m])
                               /\ \A n \in Ids : n # m => row'[n] = row[n]
                               /\ settling'[p] \in {None, settling[p]}
      BY <1>2, BeatFacts
    <2>2. /\ TypeOK' /\ UNCHANGED <<run, up, open, answered, now, sweepVars>>
          /\ \A q \in Producers : q # p => settling'[q] = settling[q]
      BY <1>2, BeatFacts
    <2>3. \A s \in Sweepers : SweepIsShaped(s)'
      <3>1. /\ \A n \in Ids : run[n] <= run'[n] /\ run'[n] \in Int
            /\ now <= now' /\ now' \in Int
        BY <2>2, Typed
      <3> QED BY <2>2, <3>1, SweepStays DEF sweepVars
    <2>4. \A n \in Ids : row'[n].status = row[n].status /\ row'[n].endpoint = row[n].endpoint
      BY <1>0, <2>1, Typed, RowFacts
    <2>5. ProducersAreShaped'
      BY <1>0, <2>1, <2>2, <2>4 DEF ProducersAreShaped
    <2> QED BY <2>2, <2>3, <2>5
  <1>3. ASSUME NEW m \in Ids, Close(p, m) PROVE RegistryInvariant'
    <2>1. /\ TypeOK' /\ m \in open[p] /\ m # settling[p]
          /\ UNCHANGED <<run, up, settling, answered, now, sweepVars>>
          /\ row'[m] = end_measurement(row[m]) /\ \A n \in Ids : n # m => row'[n] = row[n]
          /\ open'[p] = open[p] \ {m} /\ \A q \in Producers : q # p => open'[q] = open[q]
      BY <1>3, CloseFacts
    <2>2. row'[m].status # "running"
      BY <2>1, Typed, RowFacts
    <2>3. \A s \in Sweepers : SweepIsShaped(s)'
      <3>1. /\ \A n \in Ids : run[n] <= run'[n] /\ run'[n] \in Int
            /\ now <= now' /\ now' \in Int
        BY <2>1, Typed
      <3> QED BY <2>1, <3>1, SweepStays DEF sweepVars
    <2>4. ProducersAreShaped'
      BY <1>0, <2>1, <2>2 DEF ProducersAreShaped
    <2> QED BY <2>1, <2>3, <2>4
  <1>4. CASE Crash(p)
    <2>1. /\ TypeOK' /\ up' = up \ {p} /\ UNCHANGED <<row, run, answered, now, sweepVars>>
          /\ open'[p] = {} /\ settling'[p] = None
          /\ \A q \in Producers : q # p => open'[q] = open[q] /\ settling'[q] = settling[q]
      BY <1>4, CrashFacts
    <2>2. \A s \in Sweepers : SweepIsShaped(s)'
      <3>1. /\ \A n \in Ids : run[n] <= run'[n] /\ run'[n] \in Int
            /\ now <= now' /\ now' \in Int
        BY <2>1, Typed
      <3> QED BY <2>1, <3>1, SweepStays DEF sweepVars
    <2>3. ProducersAreShaped'
      BY <1>0, <2>1 DEF ProducersAreShaped
    <2> QED BY <2>1, <2>2, <2>3
  <1>5. CASE Restart(p)
    <2>1. up' = up \cup {p} /\ p \notin up
          /\ UNCHANGED <<row, run, open, settling, answered, now, sweepVars>>
      BY <1>5 DEF Restart
    <2>2. TypeOK'
      BY <2>1 DEF TypeOK, sweepVars
    <2>3. \A s \in Sweepers : SweepIsShaped(s)'
      <3>1. /\ \A n \in Ids : run[n] <= run'[n] /\ run'[n] \in Int
            /\ now <= now' /\ now' \in Int
        BY <2>1, Typed
      <3> QED BY <2>1, <3>1, SweepStays DEF sweepVars
    <2>4. ProducersAreShaped'
      BY <2>1 DEF ProducersAreShaped
    <2> QED BY <2>2, <2>3, <2>4
  <1> QED BY <1>1, <1>2, <1>3, <1>4, <1>5 DEF Produce

LEMMA SweepsRegistry ==
  ASSUME RegistryInvariant, NEW s \in Sweepers, Sweep(s) PROVE RegistryInvariant'
  <1> USE DEF RegistryInvariant
  <1>0. \A m \in Ids : answered[m] <= now
    BY DEF ProducersAreShaped
  <1>1. CASE BeginSweep(s)
    <2>1. /\ TypeOK' /\ SweepStep(s) /\ UNCHANGED <<row, answered>>
          /\ pc[s] = "idle" /\ pc'[s] = "sorting" /\ began'[s] = now
          /\ found'[s] = {[id |-> m, endpoint |-> row[m].endpoint,
                           liveness |-> liveness(row[m])] : m \in Running}
          /\ due'[s] = {<<m, run[m]>> : m \in {n \in Running : Gone(n)}}
      BY <1>1, BeginSweepFacts
    <2>2. /\ \A k \in due'[s] : k[2] <= run[k[1]]
          /\ \A a, b \in found'[s] : a.id = b.id => a = b
      <3>1. \A m \in Running : run[m] <= run[m]
        BY Typed DEF Running
      <3> QED BY <2>1, <3>1
    <2>3. now <= now /\ run' = run /\ now' = now
      BY <2>1, Typed DEF SweepStep, producerVars
    <2>4. SweepIsShaped(s)'
      BY <2>1, <2>2, <2>3 DEF SweepIsShaped
    <2> QED BY <1>0, <2>1, <2>4, SweepRegistry
  <1>2. ASSUME NEW a \in found[s], Sort(s, a) PROVE RegistryInvariant'
    <2>1. /\ TypeOK' /\ SweepStep(s) /\ UNCHANGED answered /\ pc[s] = "sorting" /\ a.id \in Ids
          /\ row'[a.id] \in {note_reachable(row[a.id]), end_measurement(row[a.id])}
          /\ \A n \in Ids : n # a.id => row'[n] = row[n]
          /\ found'[s] = found[s] \ {a} /\ pc'[s] = pc[s] /\ began'[s] = began[s]
          /\ advertised'[s] = advertised[s] /\ subject'[s] = subject[s] /\ due'[s] = due[s]
      BY <1>2, SortFacts
    <2>2. \A m \in Ids : row'[m].status = "running"
                           => row[m].status = "running" /\ row'[m].endpoint = row[m].endpoint
      BY <2>1, Typed, RowFacts
    <2>3. SweepIsShaped(s)'
      BY <2>1 DEF SweepIsShaped, SweepStep, producerVars
    <2> QED BY <1>0, <2>1, <2>2, <2>3, SweepRegistry
  <1>3. ASSUME NEW p \in Producers, Probe(s, p) PROVE RegistryInvariant'
    <2>1. /\ TypeOK' /\ SweepStep(s) /\ row' = row
          /\ pc[s] = "sorting" /\ pc'[s] = "judging"
          /\ \A a \in found[s] : a.liveness = "unknown"
          /\ \A m \in Ids : answered'[m] \in {now, answered[m]}
          /\ found'[s] = found[s] /\ began'[s] = began[s]
          /\ subject'[s] = subject[s] /\ due'[s] = due[s]
      BY <1>3, ProbeFacts
    <2>2. SweepIsShaped(s)'
      BY <2>1 DEF SweepIsShaped, SweepStep, producerVars
    <2>3. \A m \in Ids : answered'[m] <= now
      BY <1>0, <2>1, Typed
    <2> QED BY <2>1, <2>2, <2>3, SweepRegistry
  <1>4. ASSUME NEW a \in found[s], Judge(s, a) PROVE RegistryInvariant'
    <2>1. /\ TypeOK' /\ SweepStep(s) /\ UNCHANGED answered /\ pc[s] = "judging" /\ a.id \in Ids
          /\ \/ pc'[s] = "judging" /\ subject'[s] = subject[s]
             \/ pc'[s] = "missing" /\ subject'[s].id = a.id /\ ~advertised[s].ok
          /\ row'[a.id] \in {row[a.id], note_reachable(row[a.id]), end_measurement(row[a.id])}
          /\ \A n \in Ids : n # a.id => row'[n] = row[n]
          /\ found'[s] = found[s] \ {a} /\ began'[s] = began[s]
          /\ advertised'[s] = advertised[s] /\ due'[s] = due[s]
      BY <1>4, JudgeFacts
    <2>2. \A m \in Ids : row'[m].status = "running"
                           => row[m].status = "running" /\ row'[m].endpoint = row[m].endpoint
      BY <2>1, Typed, RowFacts
    <2>3. SweepIsShaped(s)'
      BY <2>1 DEF SweepIsShaped, SweepStep, producerVars
    <2> QED BY <1>0, <2>1, <2>2, <2>3, SweepRegistry
  <1>5. CASE Miss(s)
    <2>1. /\ TypeOK' /\ SweepStep(s) /\ UNCHANGED answered
          /\ pc[s] = "missing" /\ pc'[s] = "judging"
          /\ row'[subject[s].id].endpoint = row[subject[s].id].endpoint
          /\ row'[subject[s].id].status = "running" => Unanswered(s) < Grace
          /\ Unanswered(s) < Grace => row'[subject[s].id].status = row[subject[s].id].status
          /\ \A n \in Ids : n # subject[s].id => row'[n] = row[n]
          /\ found'[s] = found[s] /\ began'[s] = began[s]
          /\ advertised'[s] = advertised[s] /\ due'[s] = due[s]
      BY <1>5, MissFacts
    <2>2. SweepIsShaped(s)'
      BY <2>1 DEF SweepIsShaped, SweepStep, producerVars
    <2> QED BY <1>0, <2>1, <2>2, SweepRegistry
  <1>6. CASE NextEndpoint(s)
    <2>1. /\ TypeOK' /\ SweepStep(s) /\ UNCHANGED <<row, answered>>
          /\ pc[s] = "judging" /\ pc'[s] = "sorting"
          /\ found'[s] = found[s] /\ began'[s] = began[s] /\ due'[s] = due[s]
      BY <1>6, NextEndpointFacts
    <2>2. SweepIsShaped(s)'
      BY <2>1 DEF SweepIsShaped, SweepStep, producerVars
    <2> QED BY <1>0, <2>1, <2>2, SweepRegistry
  <1>7. CASE Cleanup(s)
    <2>1. /\ TypeOK' /\ SweepStep(s) /\ UNCHANGED answered
          /\ pc'[s] = "idle" /\ found'[s] = {} /\ began'[s] = Never /\ due'[s] = {}
          /\ \A m \in Ids : \/ row'[m] = row[m]
                            \/ row[m].status = "ended" /\ row'[m] = NoRow
      BY <1>7, CleanupFacts
    <2>2. SweepIsShaped(s)'
      BY <2>1, Typed DEF SweepIsShaped, SweepStep, producerVars, ProducersAreShaped, Never
    <2>3. \A m \in Ids : row'[m].status = "running"
                           => row[m].status = "running" /\ row'[m].endpoint = row[m].endpoint
      BY <2>1 DEF NoRow
    <2> QED BY <1>0, <2>1, <2>2, <2>3, SweepRegistry
  <1> QED BY <1>1, <1>2, <1>3, <1>4, <1>5, <1>6, <1>7 DEF Sweep

LEMMA TickFacts ==
  ASSUME TypeOK, Tick
  PROVE  /\ TypeOK' /\ now' = now + 1 /\ UNCHANGED <<row, producerVars, answered, sweepVars>>
         /\ \A p \in up \cap Beating :
               settling[p] = None /\ \A m \in open[p] : now + 1 - row[m].seen <= Interval
  <1>1. /\ now < MaxClock /\ now' = now + 1
        /\ UNCHANGED <<row, producerVars, answered, sweepVars>>
        /\ \A p \in up \cap Beating :
               settling[p] = None /\ \A m \in open[p] : now + 1 - row[m].seen <= Interval
    BY DEF Tick
  <1>2. now' \in Times
    BY <1>1, TimesAssumption DEF TypeOK, Times
  <1>3. TypeOK'
    BY <1>1, <1>2 DEF TypeOK, producerVars, sweepVars
  <1> QED BY <1>1, <1>3

LEMMA NextRegistry == RegistryInvariant /\ [Next]_vars => RegistryInvariant'
  <1> SUFFICES ASSUME RegistryInvariant, [Next]_vars PROVE RegistryInvariant'
    OBVIOUS
  <1> USE DEF RegistryInvariant
  <1>1. CASE Tick
    <2>1. TypeOK' /\ now' = now + 1 /\ UNCHANGED <<row, producerVars, answered, sweepVars>>
      BY <1>1, TickFacts
    <2>2. ProducersAreShaped'
      BY <2>1, Typed DEF ProducersAreShaped, producerVars, Never
    <2>3. \A s \in Sweepers : SweepIsShaped(s)'
      <3>1. /\ \A n \in Ids : run[n] <= run'[n] /\ run'[n] \in Int
            /\ now <= now' /\ now' \in Int
        BY <2>1, Typed DEF producerVars
      <3> QED BY <2>1, <3>1, SweepStays DEF sweepVars
    <2> QED BY <2>1, <2>2, <2>3
  <1>2. CASE UNCHANGED vars
    BY <1>2 DEF vars, TypeOK, ProducersAreShaped, SweepIsShaped
  <1> QED BY <1>1, <1>2, ProduceRegistry, SweepsRegistry DEF Next

LEMMA RegistryInvariantHolds == Spec => []RegistryInvariant
  BY InitRegistry, NextRegistry, PTL DEF Spec

(* Every variable keeps its type (registry.py:416-632). *)
THEOREM TypeCorrect == Spec => []TypeOK
  BY RegistryInvariantHolds, PTL DEF RegistryInvariant

----------------------------------------------------------------------------
(* What was due when the one sweep began is at its hand until it has ended. *)

OneSweeper == \A s, t \in Sweepers : s = t

(* Steps that are not the sweep's. *)
LEMMA AtHandStays ==
  ASSUME RegistryInvariant, DueIsAtHand, UNCHANGED sweepVars,
         \A m \in Ids : /\ run'[m] = run[m] \/ run'[m] > run[m]
                        /\ row'[m].status = "running" /\ run'[m] = run[m] =>
                              /\ row[m].status = "running" /\ row'[m].missed = row[m].missed
                              /\ \A p \in Producers : m \in open'[p] => m \in open[p]
  PROVE  DueIsAtHand'
  <1> SUFFICES ASSUME NEW s \in Sweepers, NEW m \in Ids,
                      <<m, run'[m]>> \in due'[s], row'[m].status = "running"
               PROVE  AtHand(s, m)'
    BY DEF DueIsAtHand
  <1>1. <<m, run'[m]>> \in due[s]
    BY DEF sweepVars
  <1>2. run'[m] <= run[m]
    <2>1. \A k \in due[s] : k[2] <= run[k[1]]
      BY DEF RegistryInvariant, SweepIsShaped
    <2> QED BY <1>1, <2>1
  <1>3. run'[m] \in Int /\ run[m] \in Int
    BY <1>1, Typed DEF RegistryInvariant, TypeOK
  <1>4. run'[m] = run[m]
    BY <1>2, <1>3
  <1>5. AtHand(s, m)
    BY <1>1, <1>4 DEF DueIsAtHand
  <1> QED BY <1>4, <1>5 DEF AtHand, Probed, sweepVars

LEMMA ProduceAtHand ==
  ASSUME RegistryInvariant, DueIsAtHand, NEW p \in Producers, Produce(p)
  PROVE  DueIsAtHand'
  <1> USE DEF RegistryInvariant
  <1>0. \A q \in Producers : open[q] \subseteq Ids
    BY DEF TypeOK
  <1>1. ASSUME NEW m \in Ids, Register(p, m) PROVE DueIsAtHand'
    <2>1. /\ UNCHANGED sweepVars /\ run'[m] = run[m] + 1
          /\ \A n \in Ids : n # m => run'[n] = run[n] /\ row'[n] = row[n]
          /\ \A q \in Producers : open'[q] \subseteq open[q] \cup {m}
      BY <1>1, RegisterFacts
    <2>2. run[m] + 1 > run[m] /\ run[m] + 1 # run[m]
      BY Typed
    <2> QED BY <2>1, <2>2, AtHandStays
  <1>2. CASE FirstBeat(p) \/ \E m \in Ids : Beat(p, m)
    <2>1. PICK m \in open[p] : /\ row'[m] = heartbeat(row[m])
                               /\ \A n \in Ids : n # m => row'[n] = row[n]
      BY <1>2, BeatFacts
    <2>2. UNCHANGED <<run, open, sweepVars>>
      BY <1>2, BeatFacts
    <2>3. \A n \in Ids : row'[n].status = row[n].status /\ row'[n].missed = row[n].missed
      BY <1>0, <2>1, Typed, RowFacts
    <2> QED BY <2>2, <2>3, AtHandStays
  <1>3. ASSUME NEW m \in Ids, Close(p, m) PROVE DueIsAtHand'
    <2>1. /\ UNCHANGED <<run, sweepVars>>
          /\ row'[m] = end_measurement(row[m]) /\ \A n \in Ids : n # m => row'[n] = row[n]
          /\ \A q \in Producers : open'[q] \subseteq open[q]
      BY <1>3, CloseFacts
    <2>2. row'[m].status # "running"
      BY <2>1, Typed, RowFacts
    <2> QED BY <2>1, <2>2, AtHandStays
  <1>4. CASE Crash(p)
    <2>1. /\ UNCHANGED <<row, run, sweepVars>>
          /\ \A q \in Producers : open'[q] \subseteq open[q]
      BY <1>4, CrashFacts
    <2> QED BY <2>1, AtHandStays
  <1>5. CASE Restart(p)
    BY <1>5, AtHandStays DEF Restart
  <1> QED BY <1>1, <1>2, <1>3, <1>4, <1>5 DEF Produce

LEMMA SweepsAtHand ==
  ASSUME OneSweeper, RegistryInvariant, DueIsAtHand, NEW s \in Sweepers, Sweep(s)
  PROVE  DueIsAtHand'
  <1> USE DEF RegistryInvariant
  <1> SUFFICES ASSUME NEW m \in Ids, SweepStep(s),
                      <<m, run'[m]>> \in due'[s], row'[m].status = "running"
               PROVE  AtHand(s, m)'
    <2>1. SweepStep(s)
      BY BeginSweepFacts, SortFacts, ProbeFacts, JudgeFacts, MissFacts, NextEndpointFacts,
         CleanupFacts DEF Sweep
    <2> QED BY <2>1 DEF DueIsAtHand, OneSweeper
  <1>0. run' = run /\ open' = open
    BY DEF SweepStep, producerVars
  <1>1. CASE BeginSweep(s)
    <2>1. /\ row' = row /\ pc'[s] = "sorting" /\ began'[s] = now
          /\ found'[s] = {[id |-> n, endpoint |-> row[n].endpoint,
                           liveness |-> liveness(row[n])] : n \in Running}
          /\ due'[s] = {<<n, run[n]>> : n \in {k \in Running : Gone(k)}}
      BY <1>1, BeginSweepFacts
    <2>2. m \in Running /\ Gone(m)
      BY <2>1
    <2>3. \E a \in found'[s] : a.id = m /\ a.liveness = liveness(row[m])
      <3> DEFINE a == [id |-> m, endpoint |-> row[m].endpoint, liveness |-> liveness(row[m])]
      <3>1. a \in found'[s]
        BY <2>1, <2>2
      <3> QED BY <3>1
    <2>4. CASE liveness(row[m]) = "stopped"
      BY <2>3, <2>4 DEF AtHand
    <2>5. CASE /\ liveness(row[m]) = "unknown" /\ row[m].endpoint \notin up
               /\ row[m].missed # Never /\ now - row[m].missed >= Grace
      <3>1. \A p \in Producers : m \notin open[p]
        BY <2>2, <2>5 DEF ProducersAreShaped, Running
      <3> QED BY <1>0, <2>1, <2>3, <2>5, <3>1 DEF AtHand
    <2> QED BY <2>2, <2>4, <2>5 DEF Gone
  <1>2. ASSUME due'[s] = due[s], row[m].status = "running" PROVE AtHand(s, m)
    BY <1>0, <1>2 DEF DueIsAtHand
  <1>3. ASSUME NEW a \in found[s], Sort(s, a) PROVE AtHand(s, m)'
    <2>1. /\ pc[s] = "sorting" /\ a.id \in Ids
          /\ \/ a.liveness = "beating" /\ row'[a.id] = note_reachable(row[a.id])
             \/ a.liveness = "stopped" /\ row'[a.id] = end_measurement(row[a.id])
          /\ \A n \in Ids : n # a.id => row'[n] = row[n]
          /\ found'[s] = found[s] \ {a} /\ pc'[s] = pc[s] /\ began'[s] = began[s]
          /\ due'[s] = due[s]
      BY <1>3, SortFacts
    <2>2. row[m].status = "running"
      BY <2>1, Typed, RowFacts
    <2>3. AtHand(s, m)
      BY <1>2, <2>1, <2>2
    <2>4. a.id # m
      <3>1. SUFFICES ASSUME a.id = m PROVE FALSE
        OBVIOUS
      <3>2. a.liveness # "stopped"
        BY <2>1, <3>1, Typed, RowFacts
      <3>3. \A b \in found[s] : b.id = m => b = a
        BY <3>1 DEF SweepIsShaped
      <3> QED BY <2>1, <2>3, <3>2, <3>3 DEF AtHand
    <2> QED BY <1>0, <2>1, <2>3, <2>4 DEF AtHand
  <1>4. ASSUME NEW p \in Producers, Probe(s, p) PROVE AtHand(s, m)'
    <2>1. /\ row' = row /\ pc[s] = "sorting" /\ pc'[s] = "judging"
          /\ advertised'[s].ok => advertised'[s].ids = open[p]
          /\ found'[s] = found[s] /\ began'[s] = began[s] /\ due'[s] = due[s]
      BY <1>4, ProbeFacts
    <2>2. AtHand(s, m)
      BY <1>2, <2>1
    <2> QED BY <1>0, <2>1, <2>2 DEF AtHand
  <1>5. ASSUME NEW a \in found[s], Judge(s, a) PROVE AtHand(s, m)'
    <2>1. /\ pc[s] = "judging" /\ a \in Probed(s) /\ a.id \in Ids
          /\ found'[s] = found[s] \ {a} /\ began'[s] = began[s]
          /\ endpoint'[s] = endpoint[s] /\ advertised'[s] = advertised[s] /\ due'[s] = due[s]
          /\ \/ /\ advertised[s].ok /\ pc'[s] = "judging"
                /\ \/ a.id \in advertised[s].ids /\ row'[a.id] = note_reachable(row[a.id])
                   \/ a.id \notin advertised[s].ids /\ row'[a.id] = end_measurement(row[a.id])
             \/ /\ ~advertised[s].ok /\ pc'[s] = "missing" /\ row' = row
                /\ subject'[s].id = a.id /\ subject'[s].missed = row[a.id].missed
          /\ \A n \in Ids : n # a.id => row'[n] = row[n]
      BY <1>5, JudgeFacts
    <2>2. row[m].status = "running"
      BY <2>1, Typed, RowFacts
    <2>3. AtHand(s, m)
      BY <1>2, <2>1, <2>2
    <2>4. CASE a.id = m
      <3>1. a.liveness = "unknown"
        BY <2>1 DEF SweepIsShaped
      <3>2. \A b \in found[s] : b.id = m => b = a
        BY <2>4 DEF SweepIsShaped
      <3>3. /\ row[m].missed # Never /\ began[s] - row[m].missed >= Grace
            /\ advertised[s].ok => m \notin advertised[s].ids
        BY <2>1, <2>3, <2>4, <3>1, <3>2 DEF AtHand
      <3>4. ~advertised[s].ok
        BY <2>1, <2>4, <3>3, Typed, RowFacts
      <3> QED BY <2>1, <2>4, <3>3, <3>4 DEF AtHand
    <2>5. CASE a.id # m
      BY <1>0, <2>1, <2>3, <2>5 DEF AtHand, Probed
    <2> QED BY <2>4, <2>5
  <1>6. CASE Miss(s)
    <2>1. /\ pc[s] = "missing" /\ pc'[s] = "judging" /\ subject[s].id \in Ids
          /\ row'[subject[s].id].status = "running" => Unanswered(s) < Grace
          /\ Unanswered(s) < Grace
               => row'[subject[s].id].status = row[subject[s].id].status
          /\ \A n \in Ids : n # subject[s].id => row'[n] = row[n]
          /\ found'[s] = found[s] /\ began'[s] = began[s]
          /\ endpoint'[s] = endpoint[s] /\ advertised'[s] = advertised[s] /\ due'[s] = due[s]
          /\ ~advertised[s].ok
      BY <1>6, MissFacts DEF SweepIsShaped
    <2>2. AtHand(s, m)
      BY <1>2, <2>1
    <2>3. \A a \in found[s] : a.id # subject[s].id
      BY <2>1 DEF SweepIsShaped
    <2>4. subject[s].id # m
      <3>1. SUFFICES ASSUME subject[s].id = m PROVE FALSE
        OBVIOUS
      <3>2. subject[s].missed # Never /\ began[s] - subject[s].missed >= Grace
        BY <2>2, <2>3, <3>1 DEF AtHand
      <3>3. Unanswered(s) >= Grace /\ Unanswered(s) \in Int /\ Grace \in Int
        BY <3>2, Typed DEF Unanswered, TypeOK
      <3> QED BY <2>1, <3>1, <3>3
    <2> QED BY <1>0, <2>1, <2>2, <2>4 DEF AtHand
  <1>7. CASE NextEndpoint(s)
    <2>1. /\ row' = row /\ pc[s] = "judging" /\ pc'[s] = "sorting"
          /\ found'[s] = found[s] /\ began'[s] = began[s] /\ due'[s] = due[s]
      BY <1>7, NextEndpointFacts
    <2> QED BY <1>0, <1>2, <2>1 DEF AtHand
  <1>8. CASE Cleanup(s)
    BY <1>8, CleanupFacts
  <1> QED BY <1>1, <1>3, <1>4, <1>5, <1>6, <1>7, <1>8 DEF Sweep

LEMMA NextAtHand ==
  ASSUME OneSweeper, RegistryInvariant, DueIsAtHand, [Next]_vars PROVE DueIsAtHand'
  <1>1. CASE Tick
    BY <1>1, AtHandStays DEF Tick, producerVars
  <1>2. CASE UNCHANGED vars
    BY <1>2, AtHandStays DEF vars, sweepVars
  <1> QED BY <1>1, <1>2, ProduceAtHand, SweepsAtHand DEF Next

(* A sweep that finishes has ended every run that was due when it began, if *)
(* no other process sweeps in between (registry.py:561-609).                *)
THEOREM GoneAreEnded ==
  ASSUME OneSweeper PROVE Spec => []SweepEndsWhatIsGone
  <1>1. Init => DueIsAtHand
    BY DEF Init, DueIsAtHand
  <1>2. RegistryInvariant /\ DueIsAtHand /\ [Next]_vars => DueIsAtHand'
    BY NextAtHand
  <1>3. RegistryInvariant /\ DueIsAtHand => SweepEndsWhatIsGone
    BY DEF DueIsAtHand, SweepEndsWhatIsGone, AtHand
  <1> QED BY <1>1, <1>2, <1>3, RegistryInvariantHolds, PTL DEF Spec

----------------------------------------------------------------------------
(* A running measurement stays in the live list.                            *)

RegisteredOnce == MaxRuns <= 1
BeatsInTime == Interval <= Stale /\ Grace > 0

(* A sweep that takes no step while others take theirs. *)
LEMMA PresentStays ==
  ASSUME TypeOK, NEW s \in Sweepers, PresentRun(s), SweepIsShaped(s),
         pc'[s] = pc[s], found'[s] = found[s], endpoint'[s] = endpoint[s],
         advertised'[s] = advertised[s], subject'[s] = subject[s],
         \A m \in Ids : run'[m] = 0 => run[m] = 0,
         \A m \in Ids : run[m] # 0 =>
            /\ row'[m].status = "running"
                  => row[m].status = "running" /\ row'[m].endpoint = row[m].endpoint
            /\ \A p \in Producers : m \in open'[p] => m \in open[p]
  PROVE  PresentRun(s)'
  <1>1. \A a \in found[s] : a.id \in Ids /\ run[a.id] # 0
    BY DEF PresentRun, Holds, TypeOK, FoundRow
  <1>2. pc[s] = "missing" => subject[s].id \in Ids /\ run[subject[s].id] # 0
    BY DEF PresentRun, Holds, SweepIsShaped
  <1>3. \A m \in Ids : run'[m] = 0 => ~Holds(s, m)'
    BY DEF PresentRun, Holds
  <1>4. \A a \in found'[s] :
          /\ row'[a.id].status = "running" => row'[a.id].endpoint = a.endpoint
          /\ \A p \in Producers : a.id \in open'[p] => a.endpoint = p
    BY <1>1 DEF PresentRun
  <1>5. pc'[s] \in {"judging", "missing"} => \A p \in Producers : \A a \in Probed(s)' :
          a.id \in open'[p] => IF advertised'[s].ok THEN a.id \in advertised'[s].ids ELSE Flaky
    BY <1>1 DEF PresentRun, Probed
  <1>6. pc'[s] = "missing" =>
          /\ \A p \in Producers : subject'[s].id \in open'[p] => Flaky
          /\ row'[subject'[s].id].status = "running"
                => row'[subject'[s].id].endpoint = endpoint'[s]
    BY <1>2 DEF PresentRun
  <1> QED BY <1>3, <1>4, <1>5, <1>6 DEF PresentRun

(* A step of the sweep itself. *)
LEMMA SweepsPresent ==
  ASSUME RegistryInvariant, RunsAreSingle, NEW s \in Sweepers, Sweep(s)
  PROVE  /\ SweepStep(s) /\ PresentRun(s)'
         /\ \A m \in Ids : row'[m].status = "running"
               => row[m].status = "running" /\ row'[m].endpoint = row[m].endpoint
  <1> USE DEF RegistryInvariant
  <1>0. SweepStep(s)
    BY BeginSweepFacts, SortFacts, ProbeFacts, JudgeFacts, MissFacts, NextEndpointFacts,
       CleanupFacts DEF Sweep
  <1>1. UNCHANGED <<run, open>>
    BY <1>0 DEF SweepStep, producerVars
  <1>2. PresentRun(s)
    BY DEF RunsAreSingle
  <1>3. \A a \in found[s] : a.id \in Ids /\ a \in FoundRow
    BY DEF TypeOK, FoundRow
  <1>4. CASE BeginSweep(s)
    <2>1. /\ row' = row /\ pc'[s] = "sorting"
          /\ found'[s] = {[id |-> m, endpoint |-> row[m].endpoint,
                           liveness |-> liveness(row[m])] : m \in Running}
      BY <1>4, BeginSweepFacts
    <2>2. \A a \in found'[s] : a.id \in Ids /\ row[a.id].status = "running"
                               /\ a.endpoint = row[a.id].endpoint
      BY <2>1 DEF Running
    <2>3. PresentRun(s)'
      BY <1>1, <2>1, <2>2 DEF PresentRun, Holds, RunsAreSingle, ProducersAreShaped
    <2> QED BY <1>0, <2>1, <2>3
  <1>5. ASSUME NEW a \in found[s], Sort(s, a) \/ Judge(s, a)
        PROVE  /\ PresentRun(s)'
               /\ \A m \in Ids : row'[m].status = "running"
                     => row[m].status = "running" /\ row'[m].endpoint = row[m].endpoint
    <2>1. /\ found'[s] = found[s] \ {a} /\ endpoint'[s] = endpoint[s]
          /\ advertised'[s] = advertised[s] /\ pc[s] \in {"sorting", "judging"}
          /\ \/ pc'[s] = pc[s]
             \/ /\ pc'[s] = "missing" /\ ~advertised[s].ok /\ a \in Probed(s)
                /\ pc[s] = "judging" /\ subject'[s].id = a.id
          /\ row'[a.id] \in {row[a.id], note_reachable(row[a.id]), end_measurement(row[a.id])}
          /\ \A n \in Ids : n # a.id => row'[n] = row[n]
      BY <1>5, SortFacts, JudgeFacts
    <2>2. \A m \in Ids : row'[m].status = "running"
                           => row[m].status = "running" /\ row'[m].endpoint = row[m].endpoint
      BY <1>3, <2>1, Typed, RowFacts
    <2>3. \A b \in found'[s] : b \in found[s] /\ b # a /\ b.id \in Ids
      BY <1>3, <2>1
    <2>4. \A m \in Ids : run'[m] = 0 => ~Holds(s, m)'
      BY <1>1, <1>2, <2>1 DEF PresentRun, Holds
    <2>5. \A b \in found'[s] :
            /\ row'[b.id].status = "running" => row'[b.id].endpoint = b.endpoint
            /\ \A p \in Producers : b.id \in open'[p] => b.endpoint = p
      BY <1>1, <1>2, <2>2, <2>3 DEF PresentRun
    <2>6. pc'[s] \in {"judging", "missing"} => \A p \in Producers : \A b \in Probed(s)' :
            b.id \in open'[p] => IF advertised'[s].ok THEN b.id \in advertised'[s].ids ELSE Flaky
      BY <1>1, <1>2, <2>1, <2>3 DEF PresentRun, Probed
    <2>7. pc'[s] = "missing" =>
            /\ \A p \in Producers : subject'[s].id \in open'[p] => Flaky
            /\ row'[subject'[s].id].status = "running"
                  => row'[subject'[s].id].endpoint = endpoint'[s]
      BY <1>1, <1>2, <1>3, <2>1, <2>2 DEF PresentRun, Probed
    <2> QED BY <2>2, <2>4, <2>5, <2>6, <2>7 DEF PresentRun
  <1>6. CASE Miss(s)
    <2>1. /\ pc[s] = "missing" /\ pc'[s] = "judging" /\ subject[s].id \in Ids
          /\ row'[subject[s].id].endpoint = row[subject[s].id].endpoint
          /\ row'[subject[s].id].status = "running" => Unanswered(s) < Grace
          /\ Unanswered(s) < Grace
                => row'[subject[s].id].status = row[subject[s].id].status
          /\ \A n \in Ids : n # subject[s].id => row'[n] = row[n]
          /\ found'[s] = found[s] /\ endpoint'[s] = endpoint[s]
          /\ advertised'[s] = advertised[s] /\ ~advertised[s].ok
      BY <1>6, MissFacts DEF SweepIsShaped
    <2>2. \A m \in Ids : row'[m].status = "running"
                           => row[m].status = "running" /\ row'[m].endpoint = row[m].endpoint
      BY <2>1
    <2>3. \A m \in Ids : run'[m] = 0 => ~Holds(s, m)'
      BY <1>1, <1>2, <2>1 DEF PresentRun, Holds
    <2>4. \A b \in found'[s] :
            /\ row'[b.id].status = "running" => row'[b.id].endpoint = b.endpoint
            /\ \A p \in Producers : b.id \in open'[p] => b.endpoint = p
      BY <1>1, <1>2, <1>3, <2>1, <2>2 DEF PresentRun
    <2>5. \A p \in Producers : \A b \in Probed(s)' : b.id \in open'[p] => Flaky
      BY <1>1, <1>2, <1>3, <2>1 DEF PresentRun, Probed
    <2>6. PresentRun(s)'
      BY <2>1, <2>3, <2>4, <2>5 DEF PresentRun
    <2> QED BY <1>0, <2>2, <2>6
  <1>7. ASSUME \/ Cleanup(s) \/ NextEndpoint(s)
               \/ \E p \in Producers : Probe(s, p)
        PROVE  /\ PresentRun(s)'
               /\ \A m \in Ids : row'[m].status = "running"
                     => row[m].status = "running" /\ row'[m].endpoint = row[m].endpoint
    <2>1. /\ found'[s] = found[s] /\ pc'[s] # "missing"
          /\ \A m \in Ids : row'[m].status = "running" => row'[m] = row[m]
      <3>1. CASE Cleanup(s)
        <4>1. NoRow.status # "running"
          BY DEF NoRow
        <4> HIDE DEF RegistryInvariant
        <4>2. TypeOK
          BY DEF RegistryInvariant
        <4> QED BY <3>1, <4>1, <4>2, CleanupFacts
      <3>2. CASE NextEndpoint(s)
        BY <3>2, NextEndpointFacts
      <3>3. ASSUME NEW p \in Producers, Probe(s, p)
            PROVE  found'[s] = found[s] /\ pc'[s] = "judging" /\ row' = row
        BY <3>3, ProbeFacts
      <3> QED BY <1>7, <3>1, <3>2, <3>3
    <2>2. \A m \in Ids : run'[m] = 0 => ~Holds(s, m)'
      BY <1>1, <1>2, <2>1 DEF PresentRun, Holds
    <2>3. \A b \in found'[s] :
            /\ row'[b.id].status = "running" => row'[b.id].endpoint = b.endpoint
            /\ \A p \in Producers : b.id \in open'[p] => b.endpoint = p
      BY <1>1, <1>2, <1>3, <2>1 DEF PresentRun
    <2>4. pc'[s] = "judging" => \A q \in Producers : \A b \in Probed(s)' :
            b.id \in open'[q] => IF advertised'[s].ok THEN b.id \in advertised'[s].ids ELSE Flaky
      <3>1. CASE Cleanup(s) \/ NextEndpoint(s)
        BY <3>1, CleanupFacts, NextEndpointFacts
      <3>2. ASSUME NEW p \in Producers, Probe(s, p), NEW q \in Producers, NEW b \in Probed(s)',
                   b.id \in open[q]
            PROVE  IF advertised'[s].ok THEN b.id \in advertised'[s].ids ELSE Flaky
        <4>1. /\ endpoint'[s] = p /\ found'[s] = found[s]
              /\ \/ p \in up /\ advertised'[s].ok /\ advertised'[s].ids = open[p]
                 \/ (p \notin up \/ Flaky) /\ ~advertised'[s].ok
          BY <3>2, ProbeFacts
        <4>2. b \in found[s] /\ b.endpoint = p
          BY <3>2, <4>1 DEF Probed
        <4>3. p = q
          BY <1>2, <3>2, <4>2 DEF PresentRun
        <4>4. p \in up
          BY <3>2, <4>3 DEF ProducersAreShaped
        <4> QED BY <3>2, <4>1, <4>3, <4>4
      <3> QED BY <1>1, <1>7, <3>1, <3>2
    <2>5. pc'[s] \in {"judging", "missing"} => pc'[s] = "judging"
      BY <2>1
    <2> QED BY <2>1, <2>2, <2>3, <2>4, <2>5 DEF PresentRun
  <1> QED BY <1>0, <1>4, <1>5, <1>6, <1>7 DEF Sweep

LEMMA NextSingle ==
  ASSUME RegisteredOnce, RegistryInvariant, RunsAreSingle, [Next]_vars PROVE RunsAreSingle'
  <1> USE DEF RegistryInvariant
  <1>0. \A p \in Producers : open[p] \subseteq Ids
    BY DEF TypeOK
  <1>1. ASSUME UNCHANGED sweepVars,
               \A m \in Ids : run[m] # 0 =>
                  /\ run'[m] = run[m]
                  /\ row'[m].status = "running"
                        => row[m].status = "running" /\ row'[m].endpoint = row[m].endpoint
                  /\ \A p \in Producers : m \in open'[p] => m \in open[p],
               \A m \in Ids : run'[m] = 0 =>
                  /\ row'[m].status = "running" => row[m].status = "running"
                  /\ \A p \in Producers : m \in open'[p] => m \in open[p]
        PROVE  RunsAreSingle'
    <2>1. ASSUME NEW s \in Sweepers PROVE PresentRun(s)'
      <3>1. /\ pc'[s] = pc[s] /\ found'[s] = found[s] /\ endpoint'[s] = endpoint[s]
            /\ advertised'[s] = advertised[s] /\ subject'[s] = subject[s]
            /\ PresentRun(s) /\ SweepIsShaped(s)
        BY <1>1 DEF sweepVars, RunsAreSingle
      <3>2. \A m \in Ids : run'[m] = 0 => run[m] = 0
        BY <1>1
      <3> QED BY <1>1, <3>1, <3>2, PresentStays
    <2>2. \A m \in Ids : run'[m] = 0 => run[m] = 0
      BY <1>1
    <2> QED BY <1>1, <2>1, <2>2 DEF RunsAreSingle
  <1>2. ASSUME NEW p \in Producers, NEW m \in Ids, Register(p, m) PROVE RunsAreSingle'
    <2>1. /\ run[m] < MaxRuns /\ UNCHANGED sweepVars /\ run'[m] = run[m] + 1
          /\ \A n \in Ids : n # m => run'[n] = run[n] /\ row'[n] = row[n]
          /\ \A q \in Producers : open'[q] \subseteq open[q] \cup {m}
      BY <1>2, RegisterFacts
    <2>2. run[m] = 0 /\ run'[m] # 0
      <3>1. run[m] \in 0..MaxRuns
        BY DEF TypeOK
      <3> QED BY <2>1, <3>1, TimesAssumption DEF RegisteredOnce
    <2> QED BY <1>1, <2>1, <2>2
  <1>3. ASSUME NEW p \in Producers, FirstBeat(p) \/ \E m \in Ids : Beat(p, m)
        PROVE  RunsAreSingle'
    <2>1. PICK m \in open[p] : /\ row'[m] = heartbeat(row[m])
                               /\ \A n \in Ids : n # m => row'[n] = row[n]
      BY <1>3, BeatFacts
    <2>2. UNCHANGED <<run, open, sweepVars>>
      BY <1>3, BeatFacts
    <2>3. \A n \in Ids : row'[n].status = row[n].status /\ row'[n].endpoint = row[n].endpoint
      BY <1>0, <2>1, Typed, RowFacts
    <2> QED BY <1>1, <2>2, <2>3
  <1>4. ASSUME NEW p \in Producers, NEW m \in Ids, Close(p, m) PROVE RunsAreSingle'
    <2>1. /\ UNCHANGED <<run, sweepVars>>
          /\ row'[m] = end_measurement(row[m]) /\ \A n \in Ids : n # m => row'[n] = row[n]
          /\ \A q \in Producers : open'[q] \subseteq open[q]
      BY <1>4, CloseFacts
    <2>2. row'[m].status # "running"
      BY <2>1, Typed, RowFacts
    <2> QED BY <1>1, <2>1, <2>2
  <1>5. ASSUME NEW p \in Producers, Crash(p) PROVE RunsAreSingle'
    <2>1. /\ UNCHANGED <<row, run, sweepVars>>
          /\ \A q \in Producers : open'[q] \subseteq open[q]
      BY <1>5, CrashFacts
    <2> QED BY <1>1, <2>1
  <1>6. ASSUME UNCHANGED <<row, run, open, sweepVars>> PROVE RunsAreSingle'
    BY <1>1, <1>6
  <1>7. ASSUME NEW s \in Sweepers, Sweep(s) PROVE RunsAreSingle'
    <2>1. /\ SweepStep(s) /\ PresentRun(s)'
          /\ \A m \in Ids : row'[m].status = "running"
                => row[m].status = "running" /\ row'[m].endpoint = row[m].endpoint
      BY <1>7, SweepsPresent
    <2>2. UNCHANGED <<run, open>>
      BY <2>1 DEF SweepStep, producerVars
    <2>3. ASSUME NEW t \in Sweepers, t # s PROVE PresentRun(t)'
      <3>1. /\ pc'[t] = pc[t] /\ found'[t] = found[t] /\ endpoint'[t] = endpoint[t]
            /\ advertised'[t] = advertised[t] /\ subject'[t] = subject[t]
            /\ PresentRun(t) /\ SweepIsShaped(t)
        BY <2>1, <2>3 DEF SweepStep, RunsAreSingle
      <3> QED BY <2>1, <2>2, <3>1, PresentStays
    <2> QED BY <2>1, <2>2, <2>3 DEF RunsAreSingle
  <1>8. CASE Tick
    BY <1>6, <1>8 DEF Tick, producerVars
  <1>9. CASE UNCHANGED vars
    BY <1>6, <1>9 DEF vars, sweepVars
  <1>10. ASSUME NEW p \in Producers, Restart(p) PROVE RunsAreSingle'
    BY <1>6, <1>10 DEF Restart
  <1> QED BY <1>2, <1>3, <1>4, <1>5, <1>7, <1>8, <1>9, <1>10 DEF Next, Produce

LEMMA InTimeStays ==
  ASSUME ListedInvariant, NEW s \in Sweepers,
         pc'[s] = pc[s], found'[s] = found[s], began'[s] = began[s], subject'[s] = subject[s],
         \A p \in Producers : \A m \in open'[p] : run[m] # 0 =>
            /\ m \in open[p]
            /\ p \in Beating =>
                  /\ m = settling'[p] => m = settling[p] /\ now' = now
                  /\ \/ row'[m].missed \in {row[m].missed, Never}
                     \/ \E t \in Sweepers : FoundUnbeaten(t, m) /\ row'[m].missed = began[t]
  PROVE  FoundInTime(s)'
  <1> USE DEF ListedInvariant, RegistryInvariant
  <1>1. /\ \A a \in found[s] : a.id \in Ids /\ run[a.id] # 0
        /\ pc[s] = "missing" => subject[s].id \in Ids /\ run[subject[s].id] # 0
    BY DEF RunsAreSingle, PresentRun, Holds, SweepIsShaped, TypeOK, FoundRow
  <1>2. \A m : FoundUnbeaten(s, m) => m \in Ids /\ run[m] # 0
    BY <1>1 DEF FoundUnbeaten
  <1>3. \A m : FoundUnbeaten(s, m)' <=> FoundUnbeaten(s, m)
    BY DEF FoundUnbeaten
  <1>4. ASSUME NEW p \in Beating, NEW m \in open'[p], FoundUnbeaten(s, m)
        PROVE  /\ m = settling'[p] => began'[s] = now'
               /\ row'[m].missed \in {Never, began'[s]}
               /\ pc'[s] = "missing" /\ subject'[s].id = m
                     => subject'[s].missed \in {Never, began'[s]}
    <2>1. p \in Producers /\ run[m] # 0
      BY <1>2, <1>4, ProducersAssumption
    <2>2. /\ m \in open[p]
          /\ m = settling'[p] => m = settling[p] /\ now' = now
          /\ \/ row'[m].missed \in {row[m].missed, Never}
             \/ \E t \in Sweepers : FoundUnbeaten(t, m) /\ row'[m].missed = began[t]
      BY <2>1
    <2>3. /\ m = settling[p] => began[s] = now
          /\ row[m].missed \in {Never, began[s]}
          /\ pc[s] = "missing" /\ subject[s].id = m => subject[s].missed \in {Never, began[s]}
      <3>1. FoundInTime(s)
        BY DEF BeatsAreKept
      <3> QED BY <1>4, <2>2, <3>1 DEF FoundInTime
    <2>4. \A t \in Sweepers : FoundUnbeaten(t, m) => began[t] = began[s]
      BY <1>4, <2>2 DEF BeatsAreKept
    <2>5. row'[m].missed \in {Never, began'[s]}
      BY <2>2, <2>3, <2>4
    <2> QED BY <2>2, <2>3, <2>5
  <1>5. \A p \in Producers : \A a \in found'[s] : a.id \in open'[p] => a.liveness # "stopped"
    BY <1>1 DEF BeatsAreKept, FoundInTime
  <1> QED BY <1>3, <1>4, <1>5 DEF FoundInTime

(* What is open and beats in time is not seen as stopped. *)
LEMMA OpenIsLive ==
  ASSUME TypeOK, BeatsInTime, NEW p \in Producers, NEW m \in open[p], OpenIsKept(p, m)
  PROVE  /\ liveness(row[m]) # "stopped"
         /\ p \in Beating /\ liveness(row[m]) = "unknown" => m = settling[p]
  <1>1. m \in Ids
    BY DEF TypeOK
  <1>2. row[m].seen \in Int /\ now \in Int /\ Stale \in Int /\ Interval \in Int
    BY <1>1, Typed
  <1>3. row[m].seen # Never => now - row[m].seen <= Interval
    BY DEF OpenIsKept
  <1> QED BY <1>2, <1>3 DEF liveness, BeatsInTime, OpenIsKept

(* What is left to show of a step of one sweep. *)
LEMMA SweepListed ==
  ASSUME BeatsInTime, ListedInvariant, NEW s \in Sweepers, SweepStep(s), RegistryInvariant',
         \A m \in Ids : row'[m].status = "running"
                           => row[m].status = "running" /\ row'[m].endpoint = row[m].endpoint,
         \A m \in Ids : row[m].status = "running" \/ row'[m].seen # Never
                           => row'[m].seen = row[m].seen,
         \A p \in Producers : \A m \in open[p] :
            p \in Beating \/ ~Flaky => row'[m].status = "running",
         \A p \in Beating : \A m \in open[p] :
            /\ \/ row'[m].missed \in {row[m].missed, Never}
               \/ FoundUnbeaten(s, m) /\ row'[m].missed = began[s]
            /\ FoundUnbeaten(s, m)' => \/ FoundUnbeaten(s, m) /\ began'[s] = began[s]
                                       \/ m = settling[p] /\ began'[s] = now,
         RunsAreSingle', FoundInTime(s)'
  PROVE  ListedInvariant'
  <1> USE DEF ListedInvariant, RegistryInvariant
  <1>1. UNCHANGED <<run, up, open, settling, now>>
    BY DEF SweepStep, producerVars
  <1>2. Beating \subseteq Producers /\ \A p \in Producers : open[p] \subseteq Ids
    BY ProducersAssumption DEF TypeOK
  <1>4. BeatsAreKept'
    <2>1. ASSUME NEW p \in Producers, NEW m \in open[p] PROVE OpenIsKept(p, m)'
      <3>1. /\ OpenIsKept(p, m) /\ m \in Ids
            /\ p \in Beating /\ FoundUnbeaten(s, m) /\ m = settling[p] => began[s] = now
        BY <1>2 DEF BeatsAreKept, FoundInTime
      <3>2. p \in Beating => row[m].status = "running"
        BY <1>2, <3>1 DEF RunningIsListed, ProducersAreShaped
      <3> QED BY <1>1, <3>1, <3>2 DEF OpenIsKept
    <2>2. ASSUME NEW t \in Sweepers, t # s PROVE FoundInTime(t)'
      <3>1. /\ pc'[t] = pc[t] /\ found'[t] = found[t] /\ began'[t] = began[t]
            /\ subject'[t] = subject[t]
        BY <2>2 DEF SweepStep
      <3> QED BY <1>1, <3>1, InTimeStays
    <2>3. ASSUME NEW t \in Sweepers, NEW u \in Sweepers, NEW p \in Beating, NEW m \in open[p],
                 FoundUnbeaten(t, m)', FoundUnbeaten(u, m)'
          PROVE  began'[t] = began'[u]
      <3>1. \A v \in Sweepers : FoundUnbeaten(v, m)' =>
               \/ FoundUnbeaten(v, m) /\ began'[v] = began[v]
               \/ m = settling[p] /\ began'[v] = now
        BY DEF SweepStep, FoundUnbeaten
      <3>2. \A v \in Sweepers : FoundUnbeaten(v, m) /\ m = settling[p] => began[v] = now
        BY DEF BeatsAreKept, FoundInTime
      <3>3. FoundUnbeaten(t, m) /\ FoundUnbeaten(u, m) => began[t] = began[u]
        BY DEF BeatsAreKept
      <3> QED BY <2>3, <3>1, <3>2, <3>3
    <2> QED BY <1>1, <2>1, <2>2, <2>3 DEF BeatsAreKept
  <1>5. RunningIsListed'
    <2>1. ASSUME NEW p \in Producers, NEW m \in open'[p]
          PROVE  (liveness(row[m]) # "stopped")'
      <3>1. OpenIsKept(p, m)' /\ m \in Ids /\ TypeOK'
        BY <1>1, <1>2, <1>4 DEF BeatsAreKept
      <3>2. /\ row'[m].seen # Never => now' - row'[m].seen <= Interval
            /\ row'[m].seen \in Int /\ now' \in Int /\ Stale \in Int /\ Interval \in Int
        BY <3>1, TimesAssumption DEF OpenIsKept, TypeOK, Row, Times
      <3> QED BY <3>2 DEF liveness, BeatsInTime
    <2>2. up \subseteq Producers
      BY DEF TypeOK
    <2> QED BY <1>1, <1>2, <2>1, <2>2 DEF RunningIsListed, ProducersAreShaped
  <1> QED BY <1>4, <1>5

LEMMA BeginListed ==
  ASSUME RegisteredOnce, BeatsInTime, ListedInvariant, NEW s \in Sweepers, BeginSweep(s)
  PROVE  ListedInvariant'
  <1> USE DEF ListedInvariant, RegistryInvariant
  <1>1. /\ SweepStep(s) /\ UNCHANGED <<row, answered>> /\ pc'[s] = "sorting" /\ began'[s] = now
        /\ found'[s] = {[id |-> m, endpoint |-> row[m].endpoint,
                         liveness |-> liveness(row[m])] : m \in Running}
    BY BeginSweepFacts
  <1>2. RegistryInvariant'
    BY SweepsRegistry DEF Sweep
  <1>3. UNCHANGED <<run, open, settling, now>>
    BY <1>1 DEF SweepStep, producerVars
  <1>4. Beating \subseteq Producers /\ \A p \in Producers : open[p] \subseteq Ids
    BY ProducersAssumption DEF TypeOK
  <1>5. \A a \in found'[s] : /\ a.id \in Ids /\ row[a.id].status = "running"
                             /\ a.endpoint = row[a.id].endpoint
                             /\ a.liveness = liveness(row[a.id])
    BY <1>1 DEF Running
  <1>6. RunsAreSingle'
    BY NextSingle DEF Sweep, Next
  <1>7. \A p \in Producers : \A m \in open[p] :
           /\ liveness(row[m]) # "stopped"
           /\ p \in Beating /\ liveness(row[m]) = "unknown" => m = settling[p]
    BY OpenIsLive DEF BeatsAreKept
  <1>8. \A p \in Beating : \A m \in open[p] : FoundUnbeaten(s, m)' => m = settling[p]
    BY <1>1, <1>4, <1>5, <1>7 DEF FoundUnbeaten
  <1>9. FoundInTime(s)'
    <2>1. \A p \in Beating : \A m \in open[p] : FoundUnbeaten(s, m)' =>
             m = settling[p] /\ row[m].missed \in {Never, now}
      BY <1>4, <1>8 DEF BeatsAreKept, OpenIsKept
    <2>2. \A p \in Producers : \A a \in found'[s] : a.id \in open[p] => a.liveness # "stopped"
      BY <1>5, <1>7
    <2> QED BY <1>1, <1>3, <2>1, <2>2 DEF FoundInTime
  <1>10. \A p \in Producers : \A m \in open[p] :
            p \in Beating \/ ~Flaky => row[m].status = "running"
    <2>1. \A p \in Producers : \A m \in open[p] : p \in up
      BY DEF ProducersAreShaped
    <2> QED BY <2>1 DEF RunningIsListed
  <1>11. /\ \A m \in Ids : row'[m].status = "running"
                              => row[m].status = "running" /\ row'[m].endpoint = row[m].endpoint
         /\ \A m \in Ids : row[m].status = "running" \/ row'[m].seen # Never
                           => row'[m].seen = row[m].seen
         /\ \A p \in Producers : \A m \in open[p] :
               p \in Beating \/ ~Flaky => row'[m].status = "running"
         /\ \A p \in Beating : \A m \in open[p] :
               /\ \/ row'[m].missed \in {row[m].missed, Never}
                  \/ FoundUnbeaten(s, m) /\ row'[m].missed = began[s]
               /\ FoundUnbeaten(s, m)' => \/ FoundUnbeaten(s, m) /\ began'[s] = began[s]
                                          \/ m = settling[p] /\ began'[s] = now
    BY <1>1, <1>8, <1>10
  <1> HIDE DEF ListedInvariant, RegistryInvariant
  <1> QED BY <1>1, <1>2, <1>6, <1>9, <1>11, SweepListed

(* The sweep puts away a record, and may have done something to its row. *)
LEMMA DropListed ==
  ASSUME BeatsInTime, ListedInvariant, NEW s \in Sweepers, NEW a \in found[s],
         SweepStep(s), RegistryInvariant', RunsAreSingle',
         found'[s] = found[s] \ {a}, began'[s] = began[s], endpoint'[s] = endpoint[s],
         advertised'[s] = advertised[s], pc[s] \in {"sorting", "judging"},
         \/ pc'[s] = pc[s]
         \/ /\ pc'[s] = "missing" /\ ~advertised[s].ok /\ pc[s] = "judging" /\ a \in Probed(s)
            /\ subject'[s].id = a.id /\ subject'[s].missed = row[a.id].missed,
         \/ row'[a.id] = row[a.id]
         \/ row'[a.id] = note_reachable(row[a.id])
         \/ /\ row'[a.id] = end_measurement(row[a.id])
            /\ \A p \in Producers : a.id \notin open[p],
         \A n \in Ids : n # a.id => row'[n] = row[n]
  PROVE  ListedInvariant'
  <1> USE DEF ListedInvariant, RegistryInvariant
  <1>1. UNCHANGED <<run, open, settling, now>>
    BY DEF SweepStep, producerVars
  <1>2. Beating \subseteq Producers /\ \A p \in Producers : open[p] \subseteq Ids
    BY ProducersAssumption DEF TypeOK
  <1>3. a.id \in Ids /\ a \in FoundRow
    BY DEF TypeOK, FoundRow
  <1>4. \A p \in Producers : \A m \in open[p] :
           p \in up /\ (p \in Beating \/ ~Flaky => row[m].status = "running")
    <2>1. \A p \in Producers : \A m \in open[p] : p \in up
      BY DEF ProducersAreShaped
    <2> QED BY <2>1 DEF RunningIsListed
  <1>5. \A m \in Ids : /\ row'[m].status = "running"
                             => row[m].status = "running" /\ row'[m].endpoint = row[m].endpoint
                       /\ row'[m].seen = row[m].seen
    BY <1>3, Typed, RowFacts
  <1>6. \A p \in Producers : \A m \in open[p] :
           /\ p \in Beating \/ ~Flaky => row'[m].status = "running"
           /\ p \in Beating => row'[m].missed \in {row[m].missed, Never}
    BY <1>2, <1>3, <1>4, Typed, RowFacts
  <1>7. \A b \in found'[s] : b \in found[s] /\ b # a /\ b.id # a.id /\ b.id \in Ids
    <2>1. \A b \in found[s] : b.id \in Ids
      BY DEF TypeOK, FoundRow
    <2> QED BY <2>1 DEF SweepIsShaped
  <1>9. \A m : FoundUnbeaten(s, m)' => FoundUnbeaten(s, m)
    <2>1. pc[s] = "judging" => a.liveness = "unknown"
      BY DEF SweepIsShaped
    <2> QED BY <1>7, <2>1 DEF FoundUnbeaten
  <1>10. FoundInTime(s)'
    <2>1. FoundInTime(s)
      BY DEF BeatsAreKept
    <2>2. ASSUME NEW p \in Beating, NEW m \in open[p], FoundUnbeaten(s, m)'
          PROVE  /\ m = settling[p] => began[s] = now
                 /\ row[m].missed \in {Never, began[s]}
                 /\ row'[m].missed \in {Never, began[s]}
                 /\ pc'[s] = "missing" /\ subject'[s].id = m
                      => subject'[s].missed \in {Never, began[s]}
      <3>1. /\ m = settling[p] => began[s] = now
            /\ row[m].missed \in {Never, began[s]}
        BY <1>9, <2>1, <2>2 DEF FoundInTime
      <3> QED BY <1>2, <1>6, <3>1
    <2>3. \A p \in Producers : \A b \in found'[s] : b.id \in open'[p] => b.liveness # "stopped"
      BY <1>1, <1>7, <2>1 DEF FoundInTime
    <2> QED BY <1>1, <2>2, <2>3 DEF FoundInTime
  <1>11. /\ \A m \in Ids : row'[m].status = "running"
                              => row[m].status = "running" /\ row'[m].endpoint = row[m].endpoint
         /\ \A m \in Ids : row[m].status = "running" \/ row'[m].seen # Never
                           => row'[m].seen = row[m].seen
         /\ \A p \in Producers : \A m \in open[p] :
               p \in Beating \/ ~Flaky => row'[m].status = "running"
         /\ \A p \in Beating : \A m \in open[p] :
               /\ \/ row'[m].missed \in {row[m].missed, Never}
                  \/ FoundUnbeaten(s, m) /\ row'[m].missed = began[s]
               /\ FoundUnbeaten(s, m)' => \/ FoundUnbeaten(s, m) /\ began'[s] = began[s]
                                          \/ m = settling[p] /\ began'[s] = now
    BY <1>2, <1>5, <1>6, <1>9
  <1> HIDE DEF ListedInvariant, RegistryInvariant
  <1> QED BY <1>10, <1>11, SweepListed

LEMMA SortListed ==
  ASSUME RegisteredOnce, BeatsInTime, ListedInvariant, NEW s \in Sweepers,
         NEW a \in found[s], Sort(s, a)
  PROVE  ListedInvariant'
  <1> USE DEF ListedInvariant, RegistryInvariant
  <1>1. /\ SweepStep(s) /\ pc[s] = "sorting"
        /\ \/ a.liveness = "beating" /\ row'[a.id] = note_reachable(row[a.id])
           \/ a.liveness = "stopped" /\ row'[a.id] = end_measurement(row[a.id])
        /\ \A n \in Ids : n # a.id => row'[n] = row[n]
        /\ found'[s] = found[s] \ {a} /\ pc'[s] = pc[s] /\ began'[s] = began[s]
        /\ endpoint'[s] = endpoint[s] /\ advertised'[s] = advertised[s]
    BY SortFacts
  <1>2. RegistryInvariant'
    BY SweepsRegistry DEF Sweep
  <1>3. a.liveness = "stopped" => \A p \in Producers : a.id \notin open[p]
    BY DEF BeatsAreKept, FoundInTime
  <1>4. RunsAreSingle'
    BY NextSingle DEF Sweep, Next
  <1> QED BY <1>1, <1>2, <1>3, <1>4, DropListed

LEMMA JudgeListed ==
  ASSUME RegisteredOnce, BeatsInTime, ListedInvariant, NEW s \in Sweepers,
         NEW a \in found[s], Judge(s, a)
  PROVE  ListedInvariant'
  <1> USE DEF ListedInvariant, RegistryInvariant
  <1>1. /\ SweepStep(s) /\ pc[s] = "judging" /\ a \in Probed(s)
        /\ \/ /\ advertised[s].ok /\ pc'[s] = "judging"
              /\ \/ a.id \in advertised[s].ids /\ row'[a.id] = note_reachable(row[a.id])
                 \/ a.id \notin advertised[s].ids /\ row'[a.id] = end_measurement(row[a.id])
              /\ \A n \in Ids : n # a.id => row'[n] = row[n]
           \/ /\ ~advertised[s].ok /\ pc'[s] = "missing" /\ row' = row
              /\ subject'[s].id = a.id /\ subject'[s].missed = row[a.id].missed
        /\ found'[s] = found[s] \ {a} /\ began'[s] = began[s]
        /\ endpoint'[s] = endpoint[s] /\ advertised'[s] = advertised[s]
    BY JudgeFacts
  <1>2. RegistryInvariant'
    BY SweepsRegistry DEF Sweep
  <1>3. advertised[s].ok /\ a.id \notin advertised[s].ids
           => \A p \in Producers : a.id \notin open[p]
    BY <1>1 DEF RunsAreSingle, PresentRun
  <1>4. RunsAreSingle'
    BY NextSingle DEF Sweep, Next
  <1> QED BY <1>1, <1>2, <1>3, <1>4, DropListed

(* The sweep turns to an endpoint or leaves it, or is done. *)
LEMMA TurnListed ==
  ASSUME RegisteredOnce, BeatsInTime, ListedInvariant, NEW s \in Sweepers,
         Cleanup(s) \/ NextEndpoint(s) \/ \E p \in Producers : Probe(s, p)
  PROVE  ListedInvariant'
  <1> USE DEF ListedInvariant, RegistryInvariant
  <1>1. /\ SweepStep(s) /\ found'[s] = found[s]
        /\ found[s] = {} \/ began'[s] = began[s]
        /\ pc'[s] # "missing"
        /\ \A m \in Ids : \/ row'[m] = row[m]
                          \/ row[m].status = "ended" /\ row'[m] = NoRow
    <2>1. CASE Cleanup(s)
      BY <2>1, CleanupFacts
    <2>2. CASE NextEndpoint(s)
      BY <2>2, NextEndpointFacts
    <2>3. ASSUME NEW p \in Producers, Probe(s, p)
          PROVE  /\ SweepStep(s) /\ found'[s] = found[s] /\ began'[s] = began[s]
                 /\ pc'[s] = "judging" /\ row' = row
      BY <2>3, ProbeFacts
    <2> QED BY <2>1, <2>2, <2>3
  <1>2. RegistryInvariant'
    BY SweepsRegistry DEF Sweep
  <1>3. UNCHANGED <<run, open, settling, now>>
    BY <1>1 DEF SweepStep, producerVars
  <1>4. Beating \subseteq Producers /\ \A p \in Producers : open[p] \subseteq Ids
    BY ProducersAssumption DEF TypeOK
  <1>5. \A p \in Producers : \A m \in open[p] :
           p \in Beating \/ ~Flaky => row[m].status = "running"
    <2>1. \A p \in Producers : \A m \in open[p] : p \in up
      BY DEF ProducersAreShaped
    <2> QED BY <2>1 DEF RunningIsListed
  <1>6. \A m \in Ids : row[m].status = "running" => row'[m] = row[m]
    BY <1>1
  <1>7. \A m \in Ids : row'[m].status = "running" => row'[m] = row[m]
    BY <1>1 DEF NoRow
  <1>8. \A m : FoundUnbeaten(s, m)' => FoundUnbeaten(s, m) /\ began'[s] = began[s]
    BY <1>1 DEF FoundUnbeaten
  <1>9. FoundInTime(s)'
    <2>1. FoundInTime(s)
      BY DEF BeatsAreKept
    <2>2. ASSUME NEW p \in Beating, NEW m \in open[p], FoundUnbeaten(s, m)'
          PROVE  /\ m = settling[p] => began'[s] = now
                 /\ row'[m].missed \in {Never, began'[s]}
      BY <1>4, <1>5, <1>6, <1>8, <2>1, <2>2 DEF FoundInTime
    <2>3. \A p \in Producers : \A b \in found'[s] : b.id \in open'[p] => b.liveness # "stopped"
      BY <1>1, <1>3, <2>1 DEF FoundInTime
    <2> QED BY <1>1, <1>3, <2>2, <2>3 DEF FoundInTime
  <1>10. RunsAreSingle'
    BY NextSingle DEF Sweep, Next
  <1>11. \A m \in Ids : row[m].status = "running" \/ row'[m].seen # Never
                           => row'[m].seen = row[m].seen
    BY <1>1 DEF NoRow
  <1> QED BY <1>1, <1>2, <1>4, <1>5, <1>6, <1>7, <1>8, <1>9, <1>10, <1>11, SweepListed

LEMMA MissListed ==
  ASSUME RegisteredOnce, BeatsInTime, ListedInvariant, NEW s \in Sweepers, Miss(s)
  PROVE  ListedInvariant'
  <1> USE DEF ListedInvariant, RegistryInvariant
  <1> DEFINE k == subject[s].id
  <1>1. /\ SweepStep(s) /\ pc[s] = "missing" /\ pc'[s] = "judging" /\ k \in Ids
        /\ row'[k].endpoint = row[k].endpoint /\ row'[k].seen = row[k].seen
        /\ row'[k].status = "running" => Unanswered(s) < Grace
        /\ Unanswered(s) < Grace => row'[k].status = row[k].status
        /\ row[k].status = "running" =>
              row'[k].missed = IF subject[s].missed = Never THEN began[s] ELSE row[k].missed
        /\ \A n \in Ids : n # k => row'[n] = row[n]
        /\ found'[s] = found[s] /\ began'[s] = began[s]
        /\ endpoint'[s] = endpoint[s] /\ advertised'[s] = advertised[s]
    BY MissFacts
  <1>2. RegistryInvariant'
    BY SweepsRegistry DEF Sweep
  <1>3. UNCHANGED <<run, open, settling, now>>
    BY <1>1 DEF SweepStep, producerVars
  <1>4. Beating \subseteq Producers /\ \A p \in Producers : open[p] \subseteq Ids
    BY ProducersAssumption DEF TypeOK
  <1>5. /\ \A a \in found[s] : a.id \in Ids /\ a.id # k /\ a.liveness = "unknown"
        /\ ~advertised[s].ok
    <2>1. \A a \in found[s] : a.id \in Ids
      BY DEF TypeOK, FoundRow
    <2> QED BY <1>1, <2>1 DEF SweepIsShaped
  <1>6. Unanswered(s) \in Int /\ Grace \in Int
    BY Typed DEF Unanswered, TypeOK
  <1>7. PresentRun(s) /\ FoundInTime(s)
    BY DEF RunsAreSingle, BeatsAreKept
  <1>8. \A p \in Producers : k \in open[p] => Flaky
    BY <1>1, <1>7 DEF PresentRun
  <1>9. ASSUME NEW p \in Beating, k \in open[p]
        PROVE  /\ Unanswered(s) < Grace /\ row'[k].missed \in {row[k].missed, began[s]}
               /\ row[k].status = "running" /\ FoundUnbeaten(s, k)
    <2>1. FoundUnbeaten(s, k)
      BY <1>1 DEF FoundUnbeaten
    <2>2. subject[s].missed \in {Never, began[s]}
      BY <1>1, <1>7, <1>9, <2>1 DEF FoundInTime
    <2>3. Unanswered(s) < Grace
      <3>1. began[s] \in Int
        BY Typed
      <3> QED BY <1>6, <2>2, <3>1 DEF Unanswered, BeatsInTime
    <2>4. row[k].status = "running"
      BY <1>4, <1>9 DEF RunningIsListed, ProducersAreShaped
    <2> QED BY <1>1, <2>1, <2>3, <2>4
  <1> HIDE DEF k
  <1>10. \A m \in Ids : row'[m].status = "running"
                           => row[m].status = "running" /\ row'[m].endpoint = row[m].endpoint
    BY <1>1, <1>6
  <1>11. \A m \in Ids : row'[m].seen = row[m].seen
    BY <1>1
  <1>12. \A p \in Producers : \A m \in open[p] :
            p \in Beating \/ ~Flaky => row'[m].status = "running"
    <2>1. \A p \in Producers : \A m \in open[p] :
             p \in Beating \/ ~Flaky => row[m].status = "running"
      <3>1. \A p \in Producers : \A m \in open[p] : p \in up
        BY DEF ProducersAreShaped
      <3> QED BY <3>1 DEF RunningIsListed
    <2> QED BY <1>1, <1>4, <1>8, <1>9, <2>1
  <1>13. \A m : FoundUnbeaten(s, m)' => FoundUnbeaten(s, m) /\ m # k
    BY <1>1, <1>5 DEF FoundUnbeaten
  <1>14. \A p \in Beating : \A m \in open[p] :
            /\ \/ row'[m].missed \in {row[m].missed, Never}
               \/ FoundUnbeaten(s, m) /\ row'[m].missed = began[s]
            /\ FoundUnbeaten(s, m)' => \/ FoundUnbeaten(s, m) /\ began'[s] = began[s]
                                       \/ m = settling[p] /\ began'[s] = now
    BY <1>1, <1>4, <1>9, <1>13
  <1>15. RunsAreSingle'
    BY NextSingle DEF Sweep, Next
  <1>16. FoundInTime(s)'
    <2>1. ASSUME NEW p \in Beating, NEW m \in open[p], FoundUnbeaten(s, m)'
          PROVE  /\ m = settling[p] => began'[s] = now
                 /\ row'[m].missed \in {Never, began'[s]}
      BY <1>1, <1>4, <1>7, <1>13, <2>1 DEF FoundInTime
    <2>2. \A p \in Producers : \A b \in found'[s] : b.id \in open'[p] => b.liveness # "stopped"
      BY <1>1, <1>5
    <2> QED BY <1>1, <1>3, <2>1, <2>2 DEF FoundInTime
  <1> HIDE DEF ListedInvariant, RegistryInvariant
  <1> QED BY <1>1, <1>2, <1>10, <1>11, <1>12, <1>14, <1>15, <1>16, SweepListed

LEMMA SweepsListed ==
  ASSUME RegisteredOnce, BeatsInTime, ListedInvariant, NEW s \in Sweepers, Sweep(s)
  PROVE  ListedInvariant'
  BY BeginListed, SortListed, JudgeListed, TurnListed, MissListed DEF Sweep

(* A step of a producer, or of the clock. *)
LEMMA ProducerListed ==
  ASSUME BeatsInTime, ListedInvariant, RegistryInvariant', RunsAreSingle', UNCHANGED sweepVars,
         \A m \in Ids : run[m] # 0 => /\ run'[m] = run[m]
                                      /\ row'[m].status = "running" =>
                                            /\ row[m].status = "running"
                                            /\ row'[m].endpoint = row[m].endpoint,
         \A m \in Ids : run'[m] = 0 => /\ row'[m].status = row[m].status
                                       /\ \A p \in Producers : m \in open'[p] => m \in open[p],
         \A p \in Producers : \A m \in open'[p] :
            /\ p \in Beating \/ ~Flaky => row'[m].status = "running"
            /\ OpenIsKept(p, m)'
            /\ run[m] # 0 => /\ m \in open[p]
                             /\ row'[m].missed = row[m].missed
                             /\ p \in Beating /\ m = settling'[p]
                                   => m = settling[p] /\ now' = now
  PROVE  ListedInvariant'
  <1> USE DEF ListedInvariant, RegistryInvariant
  <1>1. Beating \subseteq Producers /\ \A p \in Producers : open'[p] \subseteq Ids
    BY ProducersAssumption DEF TypeOK
  <1>2. \A s \in Sweepers : /\ pc'[s] = pc[s] /\ found'[s] = found[s] /\ began'[s] = began[s]
                            /\ endpoint'[s] = endpoint[s] /\ advertised'[s] = advertised[s]
                            /\ subject'[s] = subject[s]
    BY DEF sweepVars
  <1>4. BeatsAreKept'
    <2>1. ASSUME NEW s \in Sweepers PROVE FoundInTime(s)'
      <3>1. \A p \in Producers : \A m \in open'[p] : run[m] # 0 =>
               /\ m \in open[p]
               /\ p \in Beating =>
                     /\ m = settling'[p] => m = settling[p] /\ now' = now
                     /\ \/ row'[m].missed \in {row[m].missed, Never}
                        \/ \E t \in Sweepers : FoundUnbeaten(t, m) /\ row'[m].missed = began[t]
        OBVIOUS
      <3> HIDE DEF ListedInvariant, RegistryInvariant
      <3> QED BY <1>2, <3>1, InTimeStays
    <2>2. ASSUME NEW s \in Sweepers, NEW t \in Sweepers, NEW p \in Beating, NEW m \in open'[p],
                 FoundUnbeaten(s, m)', FoundUnbeaten(t, m)'
          PROVE  began'[s] = began'[t]
      <3>1. FoundUnbeaten(s, m) /\ FoundUnbeaten(t, m)
        BY <1>2, <2>2 DEF FoundUnbeaten
      <3>2. m \in Ids /\ Holds(s, m)
        BY <1>1, <3>1 DEF FoundUnbeaten, Holds
      <3>3. run[m] # 0
        BY <3>2 DEF RunsAreSingle, PresentRun
      <3>4. m \in open[p]
        BY <1>1, <3>3
      <3> QED BY <1>2, <3>1, <3>4 DEF BeatsAreKept
    <2> QED BY <2>1, <2>2 DEF BeatsAreKept
  <1>5. RunningIsListed'
    <2>1. ASSUME NEW p \in Producers, NEW m \in open'[p]
          PROVE  (liveness(row[m]) # "stopped")'
      <3>1. OpenIsKept(p, m)' /\ m \in Ids /\ TypeOK'
        BY <1>1
      <3>2. /\ row'[m].seen # Never => now' - row'[m].seen <= Interval
            /\ row'[m].seen \in Int /\ now' \in Int /\ Stale \in Int /\ Interval \in Int
        BY <3>1, TimesAssumption DEF OpenIsKept, TypeOK, Row, Times
      <3> QED BY <3>2 DEF liveness, BeatsInTime
    <2>2. up' \subseteq Producers
      BY DEF TypeOK
    <2> QED BY <1>1, <2>1, <2>2 DEF RunningIsListed, ProducersAreShaped
  <1> QED BY <1>4, <1>5

LEMMA ProduceListed ==
  ASSUME RegisteredOnce, BeatsInTime, ListedInvariant, NEW p \in Producers, Produce(p)
  PROVE  ListedInvariant'
  <1> USE NoneAssumption DEF ListedInvariant, RegistryInvariant
  <1>1. RegistryInvariant' /\ RunsAreSingle'
    BY ProduceRegistry, NextSingle DEF Next
  <1>2. Beating \subseteq Producers /\ \A q \in Producers : open[q] \subseteq Ids
    BY ProducersAssumption DEF TypeOK
  <1>3. \A q \in Producers : \A m \in open[q] :
           /\ OpenIsKept(q, m) /\ q \in up /\ run[m] # 0
           /\ q \in Beating \/ ~Flaky => row[m].status = "running"
    <2>1. \A q \in Producers : \A m \in open[q] : q \in up
      BY DEF ProducersAreShaped
    <2> QED BY <1>2, <2>1 DEF RunningIsListed, BeatsAreKept, RunsAreSingle
  <1>4. ASSUME NEW m \in Ids, Register(p, m) PROVE ListedInvariant'
    <2>1. /\ p \in up /\ settling[p] = None /\ \A q \in Producers : m \notin open[q]
          /\ run[m] < MaxRuns /\ UNCHANGED <<up, now, sweepVars>>
          /\ run'[m] = run[m] + 1 /\ row'[m] = register_measurement(p)
          /\ \A n \in Ids : n # m => run'[n] = run[n] /\ row'[n] = row[n]
          /\ open'[p] = open[p] \cup {m}
          /\ settling'[p] = IF p \in Beating THEN m ELSE None
          /\ \A q \in Producers : q # p => open'[q] = open[q] /\ settling'[q] = settling[q]
      BY <1>4, RegisterFacts
    <2>2. run[m] = 0 /\ run'[m] # 0
      <3>1. run[m] \in 0..MaxRuns
        BY DEF TypeOK
      <3> QED BY <2>1, <3>1, TimesAssumption DEF RegisteredOnce
    <2>3. /\ row'[m].status = "running" /\ row'[m].endpoint = p
          /\ row'[m].seen = Never /\ row'[m].missed = Never
      BY <2>1 DEF register_measurement
    <2>4. ASSUME NEW q \in Producers, NEW n \in open'[q]
          PROVE  /\ q \in Beating \/ ~Flaky => row'[n].status = "running"
                 /\ OpenIsKept(q, n)'
                 /\ run[n] # 0 => /\ n \in open[q] /\ row'[n].missed = row[n].missed
                                  /\ q \in Beating /\ n = settling'[q]
                                        => n = settling[q] /\ now' = now
      <3>1. CASE n = m
        <4>1. q = p
          BY <2>1, <3>1
        <4> QED BY <2>1, <2>2, <2>3, <3>1, <4>1 DEF OpenIsKept
      <3>2. CASE n # m
        <4>1. n \in open[q] /\ n \in Ids
          BY <1>2, <2>1, <3>2
        <4>2. q \in Beating => (n = settling'[q] <=> n = settling[q])
          BY <2>1, <3>2, <4>1
        <4> QED BY <1>3, <2>1, <3>2, <4>1, <4>2 DEF OpenIsKept
      <3> QED BY <3>1, <3>2
    <2>5. \A n \in Ids : run[n] # 0 => /\ run'[n] = run[n]
                                       /\ row'[n].status = "running" =>
                                             /\ row[n].status = "running"
                                             /\ row'[n].endpoint = row[n].endpoint
      BY <2>1, <2>2
    <2>6. \A n \in Ids : run'[n] = 0 => /\ row'[n].status = row[n].status
                                        /\ \A q \in Producers : n \in open'[q] => n \in open[q]
      BY <2>1, <2>2
    <2> HIDE DEF ListedInvariant, RegistryInvariant
    <2> QED BY <1>1, <2>1, <2>4, <2>5, <2>6, ProducerListed
  <1>5. CASE FirstBeat(p) \/ \E m \in Ids : Beat(p, m)
    <2>1. PICK m \in open[p] : /\ row'[m] = heartbeat(row[m])
                               /\ \A n \in Ids : n # m => row'[n] = row[n]
                               /\ \/ m = settling[p] /\ settling'[p] = None
                                  \/ m # settling[p] /\ settling'[p] = settling[p]
      BY <1>5, BeatFacts
    <2>2. /\ UNCHANGED <<run, up, open, now, sweepVars>> /\ p \in Beating
          /\ \A q \in Producers : q # p => settling'[q] = settling[q]
      BY <1>5, BeatFacts
    <2>3. m \in Ids /\ row[m].status = "running" /\ \A q \in Producers : m \in open[q] => q = p
      BY <1>2, <1>3, <2>2 DEF ProducersAreShaped
    <2>4. \A n \in Ids : /\ row'[n].status = row[n].status /\ row'[n].missed = row[n].missed
                         /\ row'[n].endpoint = row[n].endpoint
      BY <2>1, <2>3, Typed, RowFacts
    <2>5. row'[m].seen = now /\ now # Never /\ now - now <= Interval
      BY <2>1, <2>3, Typed, RowFacts, TimesAssumption DEF ProducersAreShaped, Never
    <2>6. ASSUME NEW q \in Producers, NEW n \in open[q]
          PROVE  /\ OpenIsKept(q, n)'
                 /\ n = settling'[q] => n = settling[q]
      <3>1. CASE n = m
        BY <2>1, <2>2, <2>3, <2>5, <3>1 DEF OpenIsKept
      <3>2. CASE n # m
        <4>1. n = settling'[q] <=> n = settling[q]
          BY <1>2, <2>1, <2>2, <3>2
        <4>2. row'[n] = row[n] /\ OpenIsKept(q, n)
          BY <1>2, <1>3, <2>1, <3>2
        <4> QED BY <2>2, <4>1, <4>2 DEF OpenIsKept
      <3> QED BY <3>1, <3>2
    <2>7. \A q \in Producers : \A n \in open'[q] :
             /\ q \in Beating \/ ~Flaky => row'[n].status = "running"
             /\ OpenIsKept(q, n)'
             /\ run[n] # 0 => /\ n \in open[q] /\ row'[n].missed = row[n].missed
                              /\ q \in Beating /\ n = settling'[q]
                                    => n = settling[q] /\ now' = now
      BY <1>2, <1>3, <2>2, <2>4, <2>6
    <2> HIDE DEF ListedInvariant, RegistryInvariant
    <2> QED BY <1>1, <2>2, <2>4, <2>7, ProducerListed
  <1>6. ASSUME UNCHANGED <<run, now, sweepVars>>,
               \A q \in Producers : \A n \in open'[q] :
                  n \in open[q] /\ row'[n] = row[n] /\ settling'[q] = settling[q],
               \A n \in Ids : \/ row'[n] = row[n]
                              \/ run[n] # 0 /\ row'[n].status # "running"
        PROVE  ListedInvariant'
    <2>1. ASSUME NEW q \in Producers, NEW n \in open'[q]
          PROVE  /\ q \in Beating \/ ~Flaky => row'[n].status = "running"
                 /\ OpenIsKept(q, n)'
                 /\ run[n] # 0 => /\ n \in open[q] /\ row'[n].missed = row[n].missed
                                  /\ q \in Beating /\ n = settling'[q]
                                        => n = settling[q] /\ now' = now
      <3>1. n \in open[q] /\ row'[n] = row[n] /\ settling'[q] = settling[q] /\ now' = now
        BY <1>6
      <3> QED BY <1>3, <3>1 DEF OpenIsKept
    <2>2. \A n \in Ids : run[n] # 0 => /\ run'[n] = run[n]
                                       /\ row'[n].status = "running" =>
                                             /\ row[n].status = "running"
                                             /\ row'[n].endpoint = row[n].endpoint
      BY <1>6
    <2>3. \A n \in Ids : run'[n] = 0 => /\ row'[n].status = row[n].status
                                        /\ \A q \in Producers : n \in open'[q] => n \in open[q]
      BY <1>6
    <2> HIDE DEF ListedInvariant, RegistryInvariant
    <2> QED BY <1>1, <1>6, <2>1, <2>2, <2>3, ProducerListed
  <1>7. ASSUME NEW m \in Ids, Close(p, m) PROVE ListedInvariant'
    <2>1. /\ m \in open[p] /\ UNCHANGED <<run, settling, now, sweepVars>>
          /\ row'[m] = end_measurement(row[m]) /\ \A n \in Ids : n # m => row'[n] = row[n]
          /\ open'[p] = open[p] \ {m} /\ \A q \in Producers : q # p => open'[q] = open[q]
      BY <1>7, CloseFacts
    <2>2. row'[m].status # "running" /\ run[m] # 0
      BY <1>3, <2>1, Typed, RowFacts
    <2>3. \A q \in Producers : m \notin open'[q]
      BY <2>1 DEF ProducersAreShaped
    <2>4. \A q \in Producers : \A n \in open'[q] : n \in open[q] /\ row'[n] = row[n]
      BY <1>2, <2>1, <2>3
    <2> HIDE DEF ListedInvariant, RegistryInvariant
    <2> QED BY <1>6, <2>1, <2>2, <2>4
  <1>8. CASE Crash(p)
    <2>1. /\ UNCHANGED <<row, run, now, sweepVars>> /\ open'[p] = {}
          /\ \A q \in Producers : q # p => open'[q] = open[q] /\ settling'[q] = settling[q]
      BY <1>8, CrashFacts
    <2> HIDE DEF ListedInvariant, RegistryInvariant
    <2> QED BY <1>6, <2>1
  <1>9. CASE Restart(p)
    <2> HIDE DEF ListedInvariant, RegistryInvariant
    <2> QED BY <1>6, <1>9 DEF Restart
  <1> QED BY <1>4, <1>5, <1>7, <1>8, <1>9 DEF Produce

LEMMA TickListed ==
  ASSUME RegisteredOnce, BeatsInTime, ListedInvariant, Tick PROVE ListedInvariant'
  <1> USE NoneAssumption DEF ListedInvariant, RegistryInvariant
  <1>1. RegistryInvariant' /\ RunsAreSingle'
    BY NextRegistry, NextSingle DEF Next
  <1>2. /\ now' = now + 1 /\ UNCHANGED <<row, producerVars, sweepVars>>
        /\ \A p \in up \cap Beating :
               settling[p] = None /\ \A m \in open[p] : now + 1 - row[m].seen <= Interval
    BY TickFacts
  <1>3. \A p \in Producers : open[p] \subseteq Ids
    BY DEF TypeOK
  <1>4. ASSUME NEW p \in Producers, NEW m \in open[p]
        PROVE  /\ p \in Beating \/ ~Flaky => row[m].status = "running"
               /\ OpenIsKept(p, m)' /\ (p \in Beating => m # settling[p])
    <2>1. p \in up /\ m \in Ids /\ OpenIsKept(p, m)
      BY <1>3 DEF ProducersAreShaped, BeatsAreKept
    <2>2. p \in Beating => m # settling[p] /\ now + 1 - row[m].seen <= Interval
      BY <1>2, <2>1
    <2>3. p \in Beating \/ ~Flaky => row[m].status = "running"
      BY <2>1 DEF RunningIsListed
    <2>4. OpenIsKept(p, m)'
      <3>1. row' = row /\ settling' = settling /\ now' = now + 1
        BY <1>2 DEF producerVars
      <3>2. p \in Beating => m # settling'[p] /\ now' - row'[m].seen <= Interval
        <4>1. now \in Int /\ row[m].seen \in Int
          BY <2>1, Typed
        <4> HIDE DEF ListedInvariant, RegistryInvariant
        <4> QED BY <2>2, <3>1, <4>1
      <3> HIDE DEF ListedInvariant, RegistryInvariant
      <3> QED BY <2>1, <2>2, <3>1, <3>2 DEF OpenIsKept
    <2> QED BY <2>2, <2>3, <2>4
  <1>5. \A p \in Producers : \A m \in open'[p] :
            /\ p \in Beating \/ ~Flaky => row'[m].status = "running"
            /\ OpenIsKept(p, m)'
            /\ run[m] # 0 => /\ m \in open[p]
                             /\ row'[m].missed = row[m].missed
                             /\ p \in Beating /\ m = settling'[p]
                                   => m = settling[p] /\ now' = now
    BY <1>2, <1>4 DEF producerVars
  <1>6. UNCHANGED <<row, run, open, sweepVars>>
    BY <1>2 DEF producerVars
  <1> HIDE DEF ListedInvariant, RegistryInvariant
  <1> QED BY <1>1, <1>5, <1>6, ProducerListed

(* No sweep ends the row of a measurement whose producer runs and beats in  *)
(* time, for any number of producers and of overlapping sweeps, where an    *)
(* identifier is registered once (registry.py:503-508, 561-579).            *)
THEOREM RunningListed ==
  ASSUME RegisteredOnce, BeatsInTime PROVE Spec => []RunningIsListed
  <1>1. Init => ListedInvariant
    <2> SUFFICES ASSUME Init PROVE ListedInvariant
      OBVIOUS
    <2>1. RegistryInvariant
      BY InitRegistry
    <2> QED BY <2>1 DEF Init, ListedInvariant, RunsAreSingle, PresentRun, Holds, Probed,
                        BeatsAreKept, FoundInTime, FoundUnbeaten, RunningIsListed, NoRow
  <1>2. ListedInvariant /\ [Next]_vars => ListedInvariant'
    <2> SUFFICES ASSUME ListedInvariant, [Next]_vars PROVE ListedInvariant'
      OBVIOUS
    <2>1. CASE UNCHANGED vars
      BY <2>1 DEF vars, ListedInvariant, RegistryInvariant, TypeOK, ProducersAreShaped,
                  SweepIsShaped, RunsAreSingle, PresentRun, Holds, Probed, BeatsAreKept,
                  OpenIsKept, FoundInTime, FoundUnbeaten, RunningIsListed, liveness
    <2> QED BY <2>1, ProduceListed, SweepsListed, TickListed DEF Next
  <1>3. ListedInvariant => RunningIsListed
    BY DEF ListedInvariant
  <1> QED BY <1>1, <1>2, <1>3, PTL DEF Spec

----------------------------------------------------------------------------
(* A row is ended for want of an answer only after the grace period.        *)

(* Steps that are not the sweep's. *)
LEMMA SinceStays ==
  ASSUME RegistryInvariant, RunsAreSingle, MissesAreSince, UNCHANGED sweepVars,
         \A m \in Ids :
            /\ run[m] # 0 => answered'[m] = answered[m]
            /\ row'[m].status = "running" /\ run[m] # 0 => row[m].status = "running"
            /\ row'[m].status = "running" /\ row'[m].missed # Never =>
                  /\ row[m].status = "running" /\ row'[m].missed = row[m].missed
                  /\ row'[m].endpoint = row[m].endpoint
  PROVE  MissesAreSince'
  <1> USE DEF RegistryInvariant
  <1>1. \A s \in Sweepers :
           /\ pc'[s] = pc[s] /\ found'[s] = found[s] /\ began'[s] = began[s]
           /\ endpoint'[s] = endpoint[s] /\ advertised'[s] = advertised[s]
           /\ subject'[s] = subject[s]
    BY DEF sweepVars
  <1>2. \A s \in Sweepers : \A m : /\ Holds(s, m)' <=> Holds(s, m)
                                   /\ Clearing(s, m)' <=> Clearing(s, m)
    BY <1>1 DEF Holds, Clearing, Probed
  <1>3. \A s \in Sweepers, m \in Ids : Holds(s, m) => answered'[m] = answered[m] /\ run[m] # 0
    BY DEF RunsAreSingle, PresentRun
  <1>4. ASSUME NEW s \in Sweepers, NEW m \in Ids, row'[m].status = "running",
               row'[m].missed # Never
        PROVE  RowIsSince(s, m)'
    <2>1. /\ row[m].status = "running" /\ row'[m].missed = row[m].missed
          /\ row'[m].endpoint = row[m].endpoint
      BY <1>4
    <2>2. run[m] # 0 /\ answered'[m] = answered[m]
      BY <2>1 DEF RunsAreSingle
    <2>3. RowIsSince(s, m)
      BY <1>4, <2>1 DEF MissesAreSince, SinceMissed
    <2> QED BY <1>1, <1>2, <2>1, <2>2, <2>3 DEF RowIsSince
  <1>5. ASSUME NEW s \in Sweepers, NEW a \in found'[s]
        PROVE  answered'[a.id] <= began'[s] \/ Clearing(s, a.id)'
    <2>1. a \in found[s] /\ a.id \in Ids /\ Holds(s, a.id)
      BY <1>1 DEF Holds, TypeOK, FoundRow
    <2> QED BY <1>1, <1>2, <1>3, <2>1 DEF MissesAreSince, SinceMissed
  <1>6. ASSUME NEW s \in Sweepers, pc'[s] = "missing"
        PROVE  /\ answered'[subject'[s].id] <= began'[s]
               /\ row'[subject'[s].id].status = "running" /\ subject'[s].missed # Never
                    => answered'[subject'[s].id] <= subject'[s].missed
    <2>1. pc[s] = "missing" /\ subject[s].id \in Ids /\ Holds(s, subject[s].id)
      BY <1>1, <1>6 DEF Holds, SweepIsShaped
    <2> QED BY <1>1, <1>3, <2>1 DEF MissesAreSince, SinceMissed
  <1> QED BY <1>4, <1>5, <1>6 DEF MissesAreSince, SinceMissed

LEMMA ProduceSince ==
  ASSUME RegisteredOnce, RegistryInvariant, RunsAreSingle, MissesAreSince,
         NEW p \in Producers, Produce(p)
  PROVE  MissesAreSince'
  <1>0. TypeOK /\ \A q \in Producers : open[q] \subseteq Ids
    BY DEF RegistryInvariant, TypeOK
  <1>1. ASSUME NEW m \in Ids, Register(p, m) PROVE MissesAreSince'
    <2>1. /\ run[m] < MaxRuns /\ UNCHANGED sweepVars /\ row'[m] = register_measurement(p)
          /\ \A n \in Ids : n # m => answered'[n] = answered[n] /\ row'[n] = row[n]
      BY <1>0, <1>1, RegisterFacts
    <2>2. run[m] = 0
      <3>1. run[m] \in 0..MaxRuns
        BY <1>0 DEF TypeOK
      <3> QED BY <2>1, <3>1, TimesAssumption DEF RegisteredOnce
    <2>3. row'[m].missed = Never
      BY <2>1 DEF register_measurement
    <2> QED BY <2>1, <2>2, <2>3, SinceStays
  <1>2. CASE FirstBeat(p) \/ \E m \in Ids : Beat(p, m)
    <2>1. PICK m \in open[p] : /\ row'[m] = heartbeat(row[m])
                               /\ \A n \in Ids : n # m => row'[n] = row[n]
      BY <1>2, BeatFacts
    <2>2. UNCHANGED <<answered, sweepVars>>
      BY <1>2, BeatFacts
    <2>3. \A n \in Ids : /\ row'[n].status = row[n].status /\ row'[n].missed = row[n].missed
                         /\ row'[n].endpoint = row[n].endpoint
      BY <1>0, <2>1, Typed, RowFacts
    <2> QED BY <2>2, <2>3, SinceStays
  <1>3. ASSUME NEW m \in Ids, Close(p, m) PROVE MissesAreSince'
    <2>1. /\ UNCHANGED <<answered, sweepVars>>
          /\ row'[m] = end_measurement(row[m]) /\ \A n \in Ids : n # m => row'[n] = row[n]
      BY <1>0, <1>3, CloseFacts
    <2>2. row'[m].status # "running"
      BY <1>0, <2>1, Typed, RowFacts
    <2> QED BY <2>1, <2>2, SinceStays
  <1>4. CASE Crash(p)
    <2>1. UNCHANGED <<row, answered, sweepVars>>
      BY <1>0, <1>4, CrashFacts
    <2> QED BY <2>1, SinceStays
  <1>5. CASE Restart(p)
    BY <1>5, SinceStays DEF Restart
  <1> QED BY <1>1, <1>2, <1>3, <1>4, <1>5 DEF Produce

LEMMA SweepsSince ==
  ASSUME OneSweeper, RegistryInvariant, RunsAreSingle, MissesAreSince,
         NEW s \in Sweepers, Sweep(s)
  PROVE  MissesAreSince'
  <1> USE DEF RegistryInvariant
  <1>1. PresentRun(s) /\ SweepIsShaped(s) /\ \A t \in Sweepers : t = s
    BY DEF RunsAreSingle, OneSweeper
  <1>2. \A a \in found[s] : a.id \in Ids /\ a \in FoundRow
    BY DEF TypeOK, FoundRow
  <1>3. \A m \in Ids : /\ answered[m] <= now /\ answered[m] \in Int /\ row[m].missed \in Int
                       /\ row[m] \in Row
    BY Typed DEF ProducersAreShaped
  <1>4. SinceMissed(s)
    BY DEF MissesAreSince
  <1> SUFFICES SinceMissed(s)'
    BY <1>1 DEF MissesAreSince
  <1>5. CASE BeginSweep(s)
    <2>1. /\ row' = row /\ answered' = answered /\ pc[s] = "idle" /\ pc'[s] = "sorting"
          /\ began'[s] = now
          /\ found'[s] = {[id |-> m, endpoint |-> row[m].endpoint,
                           liveness |-> liveness(row[m])] : m \in Running}
      BY <1>5, BeginSweepFacts
    <2>2. ASSUME NEW m \in Running PROVE Holds(s, m)'
      <3> DEFINE a == [id |-> m, endpoint |-> row[m].endpoint, liveness |-> liveness(row[m])]
      <3>1. a \in found'[s] /\ a.id = m
        BY <2>1
      <3> HIDE DEF a
      <3> QED BY <3>1 DEF Holds
    <2>3. \A a \in found'[s] : a.id \in Ids
      BY <2>1 DEF Running
    <2> QED BY <1>3, <1>4, <2>1, <2>2, <2>3 DEF SinceMissed, RowIsSince, Clearing, Running
  <1>6. ASSUME NEW a \in found[s], Sort(s, a) PROVE SinceMissed(s)'
    <2>1. /\ pc[s] = "sorting" /\ pc'[s] = pc[s] /\ began'[s] = began[s] /\ answered' = answered
          /\ found'[s] = found[s] \ {a}
          /\ row'[a.id] \in {note_reachable(row[a.id]), end_measurement(row[a.id])}
          /\ \A n \in Ids : n # a.id => row'[n] = row[n]
      BY <1>6, SortFacts
    <2>2. \A m \in Ids : row'[m].status = "running" /\ row'[m].missed # Never
                           => m # a.id /\ row'[m] = row[m]
      BY <1>2, <1>3, <2>1, RowFacts
    <2>3. \A m : ~Clearing(s, m)
      BY <2>1 DEF Clearing
    <2>4. \A m : m # a.id /\ Holds(s, m) => Holds(s, m)'
      BY <2>1 DEF Holds
    <2>5. ASSUME NEW m \in Ids, row'[m].status = "running", row'[m].missed # Never
          PROVE  RowIsSince(s, m)'
      <3>1. m # a.id /\ row'[m] = row[m] /\ RowIsSince(s, m)
        BY <1>4, <2>2, <2>5 DEF SinceMissed
      <3> QED BY <2>1, <2>3, <2>4, <3>1 DEF RowIsSince
    <2> QED BY <1>4, <2>1, <2>3, <2>5 DEF SinceMissed
  <1>7. ASSUME NEW p \in Producers, Probe(s, p) PROVE SinceMissed(s)'
    <2>1. /\ row' = row /\ pc[s] = "sorting" /\ pc'[s] = "judging" /\ endpoint'[s] = p
          /\ \E a \in found[s] : a.endpoint = p
          /\ \/ /\ advertised'[s].ok /\ advertised'[s].ids = open[p]
                /\ \A m \in Ids : answered'[m] = IF m \in open[p] THEN now ELSE answered[m]
             \/ answered' = answered
          /\ found'[s] = found[s] /\ began'[s] = began[s]
      BY <1>7, ProbeFacts
    <2>2. \A m : ~Clearing(s, m)
      BY <2>1 DEF Clearing
    <2>3. \A m : Holds(s, m) <=> \E a \in found[s] : a.id = m
      BY <2>1 DEF Holds
    <2>4. \A m : Holds(s, m)' <=> Holds(s, m)
      BY <2>1 DEF Holds
    <2>5. ASSUME NEW a \in found[s]
          PROVE  \/ answered'[a.id] = answered[a.id]
                 \/ Clearing(s, a.id)'
      <3>1. CASE a.id \in open[p] /\ advertised'[s].ok /\ advertised'[s].ids = open[p]
        <4>1. a.endpoint = p
          BY <1>1, <3>1 DEF PresentRun
        <4> QED BY <2>1, <3>1, <4>1 DEF Clearing, Probed
      <3> QED BY <1>2, <2>1, <3>1
    <2>6. ASSUME NEW m \in Ids, row[m].status = "running", row[m].missed # Never
          PROVE  RowIsSince(s, m)'
      <3>1. RowIsSince(s, m)
        BY <1>4, <2>6 DEF SinceMissed
      <3>2. answered'[m] = answered[m] \/ Clearing(s, m)'
        <4>1. CASE Holds(s, m)
          BY <2>3, <2>5, <4>1
        <4>2. CASE ~Holds(s, m)
          <5>1. row[m].endpoint # p
            BY <2>1, <3>1, <4>2 DEF RowIsSince
          <5>2. m \notin open[p]
            BY <2>6, <5>1 DEF ProducersAreShaped
          <5> QED BY <2>1, <5>2
        <4> QED BY <4>1, <4>2
      <3> QED BY <2>1, <2>2, <2>4, <3>1, <3>2 DEF RowIsSince
    <2> QED BY <1>4, <2>1, <2>2, <2>5, <2>6 DEF SinceMissed
  <1>8. ASSUME NEW a \in found[s], Judge(s, a) PROVE SinceMissed(s)'
    <2>1. /\ pc[s] = "judging" /\ a \in Probed(s) /\ answered' = answered
          /\ \/ /\ advertised[s].ok /\ pc'[s] = "judging" /\ subject'[s] = subject[s]
                /\ row'[a.id] \in {note_reachable(row[a.id]), end_measurement(row[a.id])}
                /\ \A n \in Ids : n # a.id => row'[n] = row[n]
             \/ /\ ~advertised[s].ok /\ pc'[s] = "missing" /\ row' = row
                /\ subject'[s].id = a.id /\ subject'[s].missed = row[a.id].missed
          /\ found'[s] = found[s] \ {a} /\ began'[s] = began[s]
          /\ endpoint'[s] = endpoint[s] /\ advertised'[s] = advertised[s]
      BY <1>8, JudgeFacts
    <2>2. CASE advertised[s].ok
      <3>1. \A m \in Ids : row'[m].status = "running" /\ row'[m].missed # Never
                             => m # a.id /\ row'[m] = row[m]
        BY <1>2, <1>3, <2>1, <2>2, RowFacts
      <3>2. \A m : m # a.id => /\ Holds(s, m) => Holds(s, m)'
                               /\ Clearing(s, m) => Clearing(s, m)'
        BY <2>1, <2>2 DEF Holds, Clearing, Probed
      <3>3. ASSUME NEW m \in Ids, row'[m].status = "running", row'[m].missed # Never
            PROVE  RowIsSince(s, m)'
        <4>1. m # a.id /\ row'[m] = row[m] /\ RowIsSince(s, m)
          BY <1>4, <3>1, <3>3 DEF SinceMissed
        <4> QED BY <2>1, <2>2, <3>2, <4>1 DEF RowIsSince
      <3>4. \A b \in found'[s] : b \in found[s] /\ b.id # a.id
        BY <1>1, <2>1 DEF SweepIsShaped
      <3> QED BY <1>4, <2>1, <2>2, <3>2, <3>3, <3>4 DEF SinceMissed
    <2>3. CASE ~advertised[s].ok
      <3>1. \A m : ~Clearing(s, m)
        BY <2>3 DEF Clearing
      <3>2. \A m : Holds(s, m) => Holds(s, m)'
        BY <2>1, <2>3 DEF Holds
      <3>3. ASSUME NEW m \in Ids, row[m].status = "running", row[m].missed # Never
            PROVE  RowIsSince(s, m)' /\ answered[m] <= row[m].missed
        <4>1. RowIsSince(s, m)
          BY <1>4, <3>3 DEF SinceMissed
        <4> QED BY <2>1, <2>3, <3>1, <3>2, <4>1 DEF RowIsSince
      <3> QED BY <1>2, <1>4, <2>1, <2>3, <3>1, <3>3 DEF SinceMissed
    <2> QED BY <2>2, <2>3
  <1>9. CASE Miss(s)
    <2> DEFINE k == subject[s].id
    <2>1. /\ pc[s] = "missing" /\ pc'[s] = "judging" /\ k \in Ids /\ answered' = answered
          /\ row'[k].endpoint = row[k].endpoint
          /\ row'[k].status = "running" => row[k].status = "running"
          /\ row[k].status = "running" =>
                row'[k].missed = IF subject[s].missed = Never THEN began[s] ELSE row[k].missed
          /\ \A n \in Ids : n # k => row'[n] = row[n]
          /\ found'[s] = found[s] /\ began'[s] = began[s]
          /\ endpoint'[s] = endpoint[s] /\ advertised'[s] = advertised[s]
          /\ ~advertised[s].ok
      <3>1. \A m \in Ids : row'[m].status = "running" => row[m].status = "running"
        BY <1>9, SweepsPresent
      <3>2. ~advertised[s].ok
        BY <1>9, MissFacts DEF SweepIsShaped
      <3> QED BY <1>9, <3>1, <3>2, MissFacts
    <2>2. /\ answered[k] <= began[s]
          /\ row[k].status = "running" => row[k].endpoint = endpoint[s]
      BY <1>1, <1>4, <2>1 DEF SinceMissed, PresentRun
    <2> HIDE DEF k
    <2>3. \A m : ~Clearing(s, m) /\ ~Clearing(s, m)'
      BY <2>1 DEF Clearing
    <2>4. \A m : m # k /\ Holds(s, m) => Holds(s, m)'
      BY <2>1 DEF Holds, k
    <2>5. ASSUME NEW m \in Ids, row'[m].status = "running", row'[m].missed # Never
          PROVE  RowIsSince(s, m)'
      <3>1. CASE m # k
        <4>1. row'[m] = row[m] /\ RowIsSince(s, m)
          BY <1>4, <2>1, <2>5, <3>1 DEF SinceMissed
        <4> QED BY <2>1, <2>3, <2>4, <3>1, <4>1 DEF RowIsSince
      <3>2. CASE m = k
        <4>1. row[k].status = "running" /\ row[k].endpoint = endpoint[s]
          BY <2>1, <2>2, <2>5, <3>2
        <4>2. answered[k] <= row'[k].missed
          <5>1. CASE subject[s].missed = Never
            BY <2>1, <2>2, <4>1, <5>1
          <5>2. CASE subject[s].missed # Never
            <6>1. row[k].missed # Never /\ row'[k].missed = row[k].missed
              BY <2>1, <2>5, <3>2, <4>1, <5>2
            <6> QED BY <1>4, <2>1, <2>3, <4>1, <6>1 DEF SinceMissed, RowIsSince
          <5> QED BY <5>1, <5>2
        <4> QED BY <2>1, <3>2, <4>1, <4>2 DEF RowIsSince
      <3> QED BY <3>1, <3>2
    <2> QED BY <1>4, <2>1, <2>3, <2>5 DEF SinceMissed
  <1>10. CASE NextEndpoint(s)
    <2>1. /\ row' = row /\ answered' = answered /\ pc[s] = "judging" /\ Probed(s) = {}
          /\ pc'[s] = "sorting" /\ found'[s] = found[s] /\ began'[s] = began[s]
      BY <1>10, NextEndpointFacts
    <2>2. \A m : ~Clearing(s, m) /\ (Holds(s, m) => Holds(s, m)')
      BY <2>1 DEF Clearing, Holds
    <2>3. \A a \in found[s] : a.endpoint # endpoint[s]
      BY <2>1 DEF Probed
    <2>4. ASSUME NEW m \in Ids, row[m].status = "running", row[m].missed # Never
          PROVE  RowIsSince(s, m)'
      <3>1. RowIsSince(s, m)
        BY <1>4, <2>4 DEF SinceMissed
      <3> QED BY <2>1, <2>2, <2>3, <3>1 DEF RowIsSince
    <2> QED BY <1>4, <2>1, <2>2, <2>4 DEF SinceMissed
  <1>11. CASE Cleanup(s)
    <2>1. /\ answered' = answered /\ pc[s] = "sorting" /\ pc'[s] = "idle" /\ found'[s] = {}
          /\ \A m \in Ids : \/ row'[m] = row[m]
                            \/ row[m].status = "ended" /\ row'[m] = NoRow
      BY <1>11, CleanupFacts
    <2>2. \A m \in Ids : row'[m].status = "running" => row'[m] = row[m]
      BY <2>1 DEF NoRow
    <2>3. \A m : ~Clearing(s, m)
      BY <2>1 DEF Clearing
    <2> QED BY <1>4, <2>1, <2>2, <2>3 DEF SinceMissed, RowIsSince
  <1> QED BY <1>5, <1>6, <1>7, <1>8, <1>9, <1>10, <1>11 DEF Sweep

(* A row is ended for want of an answer only when the endpoint has not      *)
(* answered for the grace period, if no other process sweeps in between and *)
(* an identifier is registered once (registry.py:447-453, 606-609).         *)
THEOREM GraceRespected ==
  ASSUME OneSweeper, RegisteredOnce PROVE Spec => GraceIsRespected
  <1> DEFINE IInv == RegistryInvariant /\ RunsAreSingle /\ MissesAreSince
             Step == \A s \in Sweepers :
                        EndedUnanswered(s) => now - answered[subject[s].id] >= Grace
  <1>1. Init => IInv
    <2> SUFFICES ASSUME Init PROVE IInv
      OBVIOUS
    <2>1. RegistryInvariant
      BY InitRegistry
    <2> QED BY <2>1 DEF Init, RunsAreSingle, PresentRun, Holds, Probed, MissesAreSince,
                        SinceMissed, NoRow
  <1>2. IInv /\ [Next]_vars => IInv'
    <2> SUFFICES ASSUME RegistryInvariant, RunsAreSingle, MissesAreSince, [Next]_vars
                 PROVE  IInv'
      OBVIOUS
    <2>1. RegistryInvariant' /\ RunsAreSingle'
      BY NextRegistry, NextSingle
    <2>2. ASSUME Tick PROVE MissesAreSince'
      BY <2>2, SinceStays DEF Tick, producerVars
    <2>3. ASSUME UNCHANGED vars PROVE MissesAreSince'
      BY <2>3, SinceStays DEF vars, sweepVars
    <2>4. MissesAreSince'
      BY <2>2, <2>3, ProduceSince, SweepsSince DEF Next
    <2> QED BY <2>1, <2>4
  <1>3. IInv /\ [Next]_vars => [Step]_vars
    <2> SUFFICES ASSUME RegistryInvariant, RunsAreSingle, MissesAreSince, [Next]_vars,
                        NEW s \in Sweepers, EndedUnanswered(s)
                 PROVE  now - answered[subject[s].id] >= Grace
      OBVIOUS
    <2>1. Miss(s)
      <3>1. pc[s] = "missing" /\ pc'[s] # pc[s]
        BY DEF EndedUnanswered
      <3>2. Sweep(s)
        BY <3>1, OneSweeper DEF Next, Produce, Register, FirstBeat, Beat, Close, Crash, Restart,
           Tick, sweepVars, vars, OneSweeper
      <3> QED BY <3>1, <3>2 DEF Sweep, BeginSweep, NextEndpoint, Cleanup, Sort, Judge, Probe
    <2>2. /\ pc[s] = "missing" /\ subject[s].id \in Ids
          /\ Unanswered(s) < Grace
                => row'[subject[s].id].status = row[subject[s].id].status
      BY <2>1, MissFacts
    <2>3. /\ answered[subject[s].id] \in Int /\ answered[subject[s].id] <= now
          /\ began[s] \in Int /\ began[s] <= now /\ now \in Int /\ Grace \in Int
          /\ subject[s].missed \in Int
      BY <2>2, Typed DEF RegistryInvariant, ProducersAreShaped, SweepIsShaped, TypeOK
    <2>4. Unanswered(s) >= Grace
      BY <2>2, <2>3 DEF EndedUnanswered, Unanswered
    <2>5. subject[s].missed # Never => answered[subject[s].id] <= subject[s].missed
      BY <2>2 DEF EndedUnanswered, MissesAreSince, SinceMissed
    <2> QED BY <2>3, <2>4, <2>5 DEF Unanswered
  <1> QED BY <1>1, <1>2, <1>3, PTL DEF Spec, GraceIsRespected
=============================================================================
