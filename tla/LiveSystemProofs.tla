--------------------------- MODULE LiveSystemProofs ---------------------------
(* Proofs about LiveSystem, for every value of its constants.               *)
EXTENDS LiveSystem, ReconcileProofs

(* Giving up sweep s leaves it idle and the others as they are. *)
LEMMA AbandonFacts ==
  ASSUME LiveInvariant, NEW s \in Sweepers, AbandonSweep(s),
         \A m \in Ids : run'[m] = run[m], now' = now
  PROVE  /\ pc' \in [Sweepers -> {"idle", "sorting", "judging", "missing"}]
         /\ began' \in [Sweepers -> Times] /\ found' \in [Sweepers -> SUBSET FoundRow]
         /\ endpoint' \in [Sweepers -> Producers \cup {None}]
         /\ advertised' \in [Sweepers -> [ok : BOOLEAN, ids : SUBSET Ids]]
         /\ subject' \in [Sweepers -> [id : Ids \cup {None}, missed : Times]]
         /\ due' \in [Sweepers -> SUBSET (Ids \X (0..MaxRuns))]
         /\ \A t \in Sweepers : SweepIsShaped(t)'
         /\ waited' \in [Sweepers -> 0..ProbeTime]
         /\ \A t \in Sweepers : waited'[t] > 0 => Sweeping(t)'
         /\ ~Sweeping(s)' /\ \A t \in Sweepers : t # s => pc'[t] = pc[t]
  <1> USE ProbeTimeAssumption DEF LiveInvariant, RegistryInvariant
  <1>1. /\ pc' = [pc EXCEPT ![s] = "idle"] /\ began' = [began EXCEPT ![s] = Never]
        /\ found' = [found EXCEPT ![s] = {}] /\ endpoint' = [endpoint EXCEPT ![s] = None]
        /\ advertised' = [advertised EXCEPT ![s] = NoAnswer]
        /\ subject' = [subject EXCEPT ![s] = NoSubject] /\ due' = [due EXCEPT ![s] = {}]
        /\ waited' = [waited EXCEPT ![s] = 0]
    BY DEF AbandonSweep
  <1>2. /\ Never \in Times /\ 0 \in 0..ProbeTime
        /\ NoAnswer \in [ok : BOOLEAN, ids : SUBSET Ids]
        /\ NoSubject \in [id : Ids \cup {None}, missed : Times]
    BY Typed DEF NoAnswer, NoSubject
  <1>3. /\ pc' \in [Sweepers -> {"idle", "sorting", "judging", "missing"}]
        /\ began' \in [Sweepers -> Times] /\ found' \in [Sweepers -> SUBSET FoundRow]
        /\ endpoint' \in [Sweepers -> Producers \cup {None}]
        /\ due' \in [Sweepers -> SUBSET (Ids \X (0..MaxRuns))]
        /\ waited' \in [Sweepers -> 0..ProbeTime]
    BY <1>1, <1>2 DEF TypeOK
  <1>4. /\ advertised' \in [Sweepers -> [ok : BOOLEAN, ids : SUBSET Ids]]
        /\ subject' \in [Sweepers -> [id : Ids \cup {None}, missed : Times]]
    BY <1>1, <1>2 DEF TypeOK
  <1>5. /\ pc'[s] = "idle" /\ began'[s] = Never /\ found'[s] = {} /\ due'[s] = {}
        /\ waited'[s] = 0
        /\ \A t \in Sweepers : t # s =>
              /\ pc'[t] = pc[t] /\ began'[t] = began[t] /\ found'[t] = found[t]
              /\ advertised'[t] = advertised[t] /\ subject'[t] = subject[t]
              /\ due'[t] = due[t] /\ waited'[t] = waited[t]
    BY <1>1 DEF TypeOK
  <1>6. SweepIsShaped(s)'
    BY <1>5, Typed DEF SweepIsShaped, ProducersAreShaped, Never
  <1>7. ASSUME NEW t \in Sweepers, t # s PROVE SweepIsShaped(t)'
    <2>1. /\ \A m \in Ids : run[m] <= run'[m] /\ run'[m] \in Int
          /\ now <= now' /\ now' \in Int
      BY Typed
    <2> QED BY <1>5, <1>7, <2>1, SweepStays
  <1> QED BY <1>3, <1>4, <1>5, <1>6, <1>7 DEF Sweeping

(* The registry is as shaped as it is without claims. *)
LEMMA LiveRegistry ==
  ASSUME LiveInvariant, [LiveNext]_liveVars PROVE RegistryInvariant'
  <1> USE DEF LiveInvariant
  <1>1. ASSUME [Next]_vars PROVE RegistryInvariant'
    BY <1>1, NextRegistry
  <1>2. ASSUME NEW p \in Producers, Die(p) PROVE RegistryInvariant'
    <2>1. /\ UNCHANGED <<row, run, answered, now>> /\ up' = up \ {p}
          /\ open' = [open EXCEPT ![p] = {}] /\ settling' = [settling EXCEPT ![p] = None]
          /\ AbandonSweep(p) \/ UNCHANGED sweepVars
      BY <1>2 DEF Die
    <2>2. p \in Sweepers
      BY SweepersAssumption
    <2>3. /\ open' \in [Producers -> SUBSET Ids] /\ settling' \in [Producers -> Ids \cup {None}]
          /\ open'[p] = {} /\ settling'[p] = None
          /\ \A q \in Producers : q # p => open'[q] = open[q] /\ settling'[q] = settling[q]
      BY <2>1 DEF RegistryInvariant, TypeOK
    <2>4. ProducersAreShaped'
      BY <2>1, <2>3 DEF RegistryInvariant, ProducersAreShaped
    <2>5. TypeOK' /\ \A s \in Sweepers : SweepIsShaped(s)'
      <3>1. CASE AbandonSweep(p)
        BY <2>1, <2>2, <2>3, <3>1, AbandonFacts DEF RegistryInvariant, TypeOK
      <3>2. CASE UNCHANGED sweepVars
        BY <2>1, <2>3, <3>2 DEF RegistryInvariant, TypeOK, SweepIsShaped, sweepVars
      <3> QED BY <2>1, <3>1, <3>2
    <2> QED BY <2>4, <2>5 DEF RegistryInvariant
  <1>3. ASSUME NEW s \in Sweepers, AbandonSweep(s),
               UNCHANGED <<row, producerVars, answered, now>>
        PROVE  RegistryInvariant'
    <2>1. /\ TypeOK' /\ \A t \in Sweepers : SweepIsShaped(t)'
      BY <1>3, AbandonFacts DEF RegistryInvariant, TypeOK, producerVars
    <2>2. ProducersAreShaped'
      BY <1>3 DEF RegistryInvariant, ProducersAreShaped, producerVars
    <2> QED BY <2>1, <2>2 DEF RegistryInvariant
  <1>4. CASE LiveTick
    <2>1. /\ now < MaxClock /\ now' = now + 1
          /\ UNCHANGED <<row, producerVars, answered, sweepVars>>
      BY <1>4 DEF LiveTick
    <2>2. now' \in Times
      BY <2>1, TimesAssumption DEF RegistryInvariant, TypeOK, Times
    <2>3. TypeOK'
      BY <2>1, <2>2 DEF RegistryInvariant, TypeOK, producerVars, sweepVars
    <2>4. ProducersAreShaped'
      BY <2>1, Typed DEF RegistryInvariant, ProducersAreShaped, producerVars, Never
    <2>5. \A s \in Sweepers : SweepIsShaped(s)'
      <3>1. /\ \A n \in Ids : run[n] <= run'[n] /\ run'[n] \in Int
            /\ now <= now' /\ now' \in Int
        BY <2>1, Typed DEF RegistryInvariant, producerVars
      <3> QED BY <2>1, <3>1, SweepStays DEF RegistryInvariant, sweepVars
    <2> QED BY <2>3, <2>4, <2>5 DEF RegistryInvariant
  <1>5. CASE UNCHANGED liveVars
    BY <1>1, <1>5 DEF liveVars
  <1>6. ASSUME NEW p \in Producers, NEW m \in Ids, BeginRegister(p, m) PROVE [Next]_vars
    BY <1>6, SweepersAssumption DEF BeginRegister, Next, Sweep
  <1>7. ASSUME NEW p \in Producers, NEW m \in Ids, BeatOrClose(p, m) PROVE Next
    BY <1>7 DEF BeatOrClose, Next, Produce
  <1>8. ASSUME NEW p \in Producers, Publish(p) PROVE Next
    <2>1. claim[p] \in Ids /\ Register(p, claim[p])
      BY <1>8 DEF Publish
    <2> QED BY <2>1 DEF Next, Produce
  <1>9. ASSUME NEW p \in Producers, Stamp(p) \/ Restart(p) PROVE Next
    BY <1>9 DEF Stamp, Next, Produce
  <1>10. ASSUME NEW s \in Sweepers, cleanup(s) \/ SweepOn(s) PROVE Next
    BY <1>10 DEF cleanup, SweepOn, Next, Sweep
  <1> QED BY <1>1, <1>2, <1>3, <1>4, <1>5, <1>6, <1>7, <1>8, <1>9, <1>10 DEF LiveNext

(* What the other conjuncts are about. *)
Claims ==
  /\ ClaimsAreOwn
  /\ claim \in [Producers -> Ids \cup {None}]
  /\ waited \in [Sweepers -> 0..ProbeTime]
  /\ \A s \in Sweepers : waited[s] > 0 => Sweeping(s)

LEMMA ProduceClaims ==
  ASSUME LiveInvariant, NEW p \in Producers,
         \/ \E m \in Ids : BeginRegister(p, m) \/ BeatOrClose(p, m)
         \/ Publish(p) \/ Stamp(p) \/ Die(p)
         \/ Restart(p) /\ UNCHANGED <<claim, waited>>
  PROVE  Claims'
  <1> USE NoneAssumption, SweepersAssumption DEF LiveInvariant
  <1>0. TypeOK /\ \A q \in Producers : open[q] \subseteq Ids
    BY DEF RegistryInvariant, TypeOK
  <1>1. ASSUME NEW m \in Ids, BeginRegister(p, m) PROVE Claims'
    <2>1. /\ p \in up /\ claim[p] = None
          /\ \A q \in Producers : m \notin open[q] /\ claim[q] # m
          /\ claim' = [claim EXCEPT ![p] = m] /\ waited' = waited
          /\ UNCHANGED producerVars
      BY <1>1 DEF BeginRegister, BeginSweep, vars, producerVars, Claim
    <2>2. \A s \in Sweepers : /\ s # p => pc'[s] = pc[s]
                              /\ Sweeping(s) => Sweeping(s)'
      <3>1. CASE BeginSweep(p)
        BY <1>0, <3>1, BeginSweepFacts DEF SweepStep, Sweeping
      <3>2. CASE UNCHANGED vars
        BY <3>2 DEF vars, Sweeping
      <3> QED BY <1>1, <3>1, <3>2 DEF BeginRegister
    <2>3. /\ claim' \in [Producers -> Ids \cup {None}] /\ claim'[p] = m
          /\ \A q \in Producers : q # p => claim'[q] = claim[q]
      BY <2>1
    <2>4. settling[p] = None
      BY <2>1 DEF ClaimsAreOwn
    <2>5. ClaimsAreOwn'
      BY <2>1, <2>2, <2>3, <2>4 DEF ClaimsAreOwn, producerVars, Sweeping
    <2> QED BY <2>1, <2>2, <2>3, <2>5 DEF Claims
  <1>2. ASSUME NEW m \in Ids, BeatOrClose(p, m) PROVE Claims'
    <2>1. /\ UNCHANGED <<up, settling, pc, claim, waited>>
          /\ \A q \in Producers : open'[q] \subseteq open[q]
      <3>1. CASE Beat(p, m)
        BY <1>2, <3>1 DEF BeatOrClose, Beat, producerVars, sweepVars
      <3>2. CASE Close(p, m)
        BY <1>0, <1>2, <3>2, CloseFacts DEF BeatOrClose, sweepVars
      <3> QED BY <1>2, <3>1, <3>2 DEF BeatOrClose
    <2> QED BY <2>1 DEF Claims, ClaimsAreOwn, Sweeping
  <1>3. CASE Publish(p)
    <2> DEFINE m == claim[p]
    <2>1. /\ m # None /\ m \in Ids /\ ~Sweeping(p) /\ Register(p, m) /\ waited' = waited
          /\ IF p \in Beating THEN claim' = claim ELSE claim' = [claim EXCEPT ![p] = None]
      BY <1>3 DEF Publish, Claim
    <2>2. /\ UNCHANGED <<up, sweepVars>>
          /\ open'[p] = open[p] \cup {m} /\ settling'[p] = IF p \in Beating THEN m ELSE None
          /\ \A q \in Producers : q # p => open'[q] = open[q] /\ settling'[q] = settling[q]
      BY <1>0, <2>1, RegisterFacts
    <2>3. /\ claim' \in [Producers -> Ids \cup {None}]
          /\ claim'[p] = IF p \in Beating THEN m ELSE None
          /\ \A q \in Producers : q # p => claim'[q] = claim[q]
      BY <2>1
    <2>4. \A q \in Producers : q # p => claim[q] # m
      BY <2>1 DEF ClaimsAreOwn
    <2> HIDE DEF m
    <2>5. pc' = pc
      BY <2>2 DEF sweepVars
    <2>6. ASSUME NEW q \in Producers, claim'[q] # None
          PROVE  /\ q \in up'
                 /\ \A r \in Producers : r # q => claim'[r] # claim'[q]
                 /\ settling'[q] = None => \A r \in Producers : claim'[q] \notin open'[r]
      <3>1. claim[q] = claim'[q]
        BY <2>1, <2>3, <2>6 DEF m
      <3>2. /\ q \in up
            /\ \A r \in Producers : r # q => claim[r] # claim[q]
            /\ settling[q] = None => \A r \in Producers : claim[q] \notin open[r]
        BY <2>6, <3>1 DEF ClaimsAreOwn
      <3>3. \A r \in Producers : claim'[r] = claim[r] \/ claim'[r] = None
        BY <2>3 DEF m
      <3>4. ASSUME settling'[q] = None PROVE \A r \in Producers : claim'[q] \notin open'[r]
        <4>1. q # p
          BY <2>1, <2>2, <2>3, <2>6, <3>4
        <4> QED BY <2>2, <2>4, <3>1, <3>2, <3>4, <4>1
      <3> QED BY <2>2, <2>6, <3>1, <3>2, <3>3, <3>4
    <2>7. \A q \in Producers : settling'[q] # None => claim'[q] = settling'[q] /\ ~Sweeping(q)'
      BY <2>1, <2>2, <2>3, <2>5 DEF ClaimsAreOwn, Sweeping
    <2>8. \A q \in Producers : Sweeping(q)' => claim'[q] # None
      BY <2>1, <2>3, <2>5 DEF ClaimsAreOwn, Sweeping
    <2> QED BY <2>1, <2>3, <2>5, <2>6, <2>7, <2>8 DEF Claims, ClaimsAreOwn, Sweeping
  <1>4. CASE Stamp(p)
    <2>1. /\ UNCHANGED <<up, open, pc, waited>> /\ settling[p] # None
          /\ claim' = [claim EXCEPT ![p] = None] /\ settling' = [settling EXCEPT ![p] = None]
      BY <1>4 DEF Stamp, FirstBeat, Claim, sweepVars
    <2>2. /\ claim' \in [Producers -> Ids \cup {None}] /\ claim'[p] = None /\ settling'[p] = None
          /\ \A q \in Producers : q # p => claim'[q] = claim[q] /\ settling'[q] = settling[q]
      BY <1>0, <2>1 DEF TypeOK
    <2> QED BY <2>1, <2>2 DEF Claims, ClaimsAreOwn, Sweeping
  <1>5. CASE Die(p)
    <2>1. /\ up' = up \ {p} /\ open' = [open EXCEPT ![p] = {}]
          /\ settling' = [settling EXCEPT ![p] = None] /\ claim' = [claim EXCEPT ![p] = None]
          /\ UNCHANGED <<run, now>>
          /\ IF Sweeping(p) THEN AbandonSweep(p) ELSE UNCHANGED <<sweepVars, waited>>
      BY <1>5 DEF Die, Claim
    <2>2. /\ claim' \in [Producers -> Ids \cup {None}] /\ claim'[p] = None /\ settling'[p] = None
          /\ open'[p] = {}
          /\ \A q \in Producers : q # p => /\ claim'[q] = claim[q] /\ settling'[q] = settling[q]
                                           /\ open'[q] = open[q]
      BY <1>0, <2>1 DEF TypeOK
    <2>3. /\ waited' \in [Sweepers -> 0..ProbeTime]
          /\ \A t \in Sweepers : waited'[t] > 0 => Sweeping(t)'
          /\ ~Sweeping(p)' /\ \A t \in Sweepers : t # p => pc'[t] = pc[t]
      <3>1. CASE Sweeping(p)
        BY <2>1, <3>1, AbandonFacts
      <3>2. CASE ~Sweeping(p)
        BY <2>1, <3>2 DEF sweepVars, Sweeping
      <3> QED BY <3>1, <3>2
    <2> QED BY <2>1, <2>2, <2>3 DEF Claims, ClaimsAreOwn, Sweeping
  <1>6. CASE Restart(p) /\ UNCHANGED <<claim, waited>>
    BY <1>6 DEF Restart, Claims, ClaimsAreOwn, Sweeping, sweepVars
  <1> QED BY <1>1, <1>2, <1>3, <1>4, <1>5, <1>6

LEMMA SweepClaims ==
  ASSUME LiveInvariant, NEW s \in Sweepers,
         \/ cleanup(s) \/ SweepOn(s)
         \/ AbandonSweep(s) /\ UNCHANGED <<row, producerVars, answered, now, claim>>
  PROVE  Claims'
  <1> USE ProbeTimeAssumption DEF LiveInvariant
  <1>0. TypeOK /\ RegistryInvariant
    BY DEF RegistryInvariant
  <1>1. UNCHANGED <<up, open, settling, claim>>
    <2>1. CASE cleanup(s)
      BY <2>1 DEF cleanup, BeginSweep, producerVars
    <2>2. CASE SweepOn(s)
      BY <1>0, <2>2, BeginSweepFacts, SortFacts, ProbeFacts, JudgeFacts, MissFacts,
         NextEndpointFacts, CleanupFacts DEF SweepOn, Sweep, SweepStep, producerVars
    <2> QED BY <2>1, <2>2 DEF producerVars
  <1>2. \A t \in Sweepers : t # s => pc'[t] = pc[t]
    <2>1. CASE cleanup(s)
      BY <1>0, <2>1, BeginSweepFacts DEF cleanup, SweepStep
    <2>2. CASE SweepOn(s)
      BY <1>0, <2>2, BeginSweepFacts, SortFacts, ProbeFacts, JudgeFacts, MissFacts,
         NextEndpointFacts, CleanupFacts DEF SweepOn, Sweep, SweepStep
    <2>3. CASE AbandonSweep(s)
      BY <1>0, <2>3 DEF AbandonSweep, TypeOK
    <2> QED BY <2>1, <2>2, <2>3
  <1>3. /\ waited' \in [Sweepers -> 0..ProbeTime]
        /\ \A t \in Sweepers : waited'[t] > 0 => Sweeping(t)'
    <2>1. CASE cleanup(s)
      <3>1. waited' = waited /\ pc'[s] = "sorting"
        BY <1>0, <2>1, BeginSweepFacts DEF cleanup
      <3> QED BY <1>2, <3>1 DEF Sweeping
    <2>2. CASE waited' = [waited EXCEPT ![s] = 0]
      BY <1>2, <2>2 DEF Sweeping
    <2> QED BY <2>1, <2>2 DEF SweepOn, AbandonSweep
  <1>4. \A p \in Producers : Sweeping(p)' => Sweeping(p)
    <2>1. s \in Producers => Sweeping(s)
      BY DEF cleanup, SweepOn, AbandonSweep
    <2> QED BY <1>2, <2>1, SweepersAssumption DEF Sweeping
  <1>5. ClaimsAreOwn'
    BY <1>1, <1>4 DEF ClaimsAreOwn
  <1> QED BY <1>1, <1>3, <1>5 DEF Claims

LEMMA TickClaims ==
  ASSUME LiveInvariant, LiveTick PROVE Claims'
  <1> USE ProbeTimeAssumption DEF LiveInvariant
  <1>1. /\ UNCHANGED <<producerVars, sweepVars, claim>> /\ \A p \in up : TickFor(p)
        /\ waited' = [s \in Sweepers |-> IF s \in Producers /\ Waiting(s)
                                         THEN waited[s] + 1 ELSE waited[s]]
    BY DEF LiveTick
  <1>2. ASSUME NEW s \in Sweepers
        PROVE  waited'[s] \in 0..ProbeTime /\ (waited'[s] > 0 => Sweeping(s)')
    <2>1. CASE s \in Producers /\ Waiting(s)
      <3>1. Sweeping(s)
        BY <2>1 DEF Waiting, Sweeping
      <3>2. claim[s] # None /\ s \in up
        BY <2>1, <3>1 DEF ClaimsAreOwn
      <3>3. waited[s] < ProbeTime
        BY <1>1, <3>2 DEF TickFor
      <3> QED BY <1>1, <2>1, <3>1, <3>3 DEF Sweeping, sweepVars
    <2>2. CASE ~(s \in Producers /\ Waiting(s))
      BY <1>1, <2>2 DEF Sweeping, sweepVars
    <2> QED BY <2>1, <2>2
  <1>3. ClaimsAreOwn'
    BY <1>1 DEF ClaimsAreOwn, Sweeping, producerVars, sweepVars
  <1> QED BY <1>1, <1>2, <1>3 DEF Claims

(* Types; a producer registers what no producer publishes, and a sweep      *)
(* waits for an endpoint as long as the probe may take, and only then       *)
(* (producer.py:486-554, registry.py:456-502).                              *)
THEOREM LiveTypeCorrect == LiveSpec => []LiveTypeOK
  <1>1. LiveInit => LiveInvariant
    <2> SUFFICES ASSUME LiveInit PROVE LiveInvariant
      OBVIOUS
    <2>1. RegistryInvariant
      BY InitRegistry DEF LiveInit
    <2> QED BY <2>1, ProbeTimeAssumption, SweepersAssumption
            DEF LiveInit, Init, LiveInvariant, ClaimsAreOwn, Sweeping
  <1>2. LiveInvariant /\ [LiveNext]_liveVars => LiveInvariant'
    <2> SUFFICES ASSUME LiveInvariant, [LiveNext]_liveVars PROVE LiveInvariant'
      OBVIOUS
    <2>1. RegistryInvariant'
      BY LiveRegistry
    <2>2. ASSUME UNCHANGED liveVars PROVE Claims'
      BY <2>2 DEF liveVars, vars, LiveInvariant, Claims, ClaimsAreOwn, Sweeping
    <2>3. Claims'
      BY <2>2, ProduceClaims, SweepClaims, TickClaims DEF LiveNext
    <2> QED BY <2>1, <2>3 DEF LiveInvariant, Claims
  <1>3. LiveInvariant => LiveTypeOK
    BY NoneAssumption DEF LiveInvariant, RegistryInvariant, ClaimsAreOwn, LiveTypeOK
  <1> QED BY <1>1, <1>2, <1>3, PTL DEF LiveSpec
=============================================================================
