----------------------------- MODULE LiveSystem -----------------------------
(****************************************************************************)
(* Producers that sweep the registry while they publish, and the command    *)
(* line that sweeps it as well: Reconcile composed with                     *)
(* register_live_measurement and the heartbeat of                           *)
(* src/qimchi_connect/producer.py, and with cli.py.                         *)
(*                                                                          *)
(* A registration sweeps with the registration lock held.  The heartbeat    *)
(* thread needs that lock for every round, so a producer does not beat      *)
(* while its own sweep waits for an endpoint.                               *)
(****************************************************************************)
EXTENDS Reconcile

(* The Sweepers that are not Producers are runs of the command line.        *)
CONSTANT ProbeTime      \* the longest a sweep waits for one endpoint

ASSUME SweepersAssumption == Producers \subseteq Sweepers

ASSUME ProbeTimeAssumption == ProbeTime \in Nat

VARIABLES
    claim,      \* the identifier each producer registers, with the lock held
    waited      \* how long each sweep has waited for its present endpoint

liveVars == <<vars, claim, waited>>

LiveInit ==
    /\ Init
    /\ claim = [p \in Producers |-> None]
    /\ waited = [s \in Sweepers |-> 0]

Sweeping(s) == pc[s] # "idle"
Claim(p, m) == claim' = [claim EXCEPT ![p] = m]

(* A definition below whose name ends in a fault's description is a faulty  *)
(* variant of the one that follows it; no specification uses it.            *)

----------------------------------------------------------------------------
(* The thread that waits for the lock gets it: no beat is overdue when the  *)
(* next registration takes it.                                              *)
NoBeatOverdue(p) ==
    p \in Beating => \A m \in open[p] : now - row[m].seen <= Interval

(* With maintain=True or maintain=False.                                    *)
BeginRegister(p, m) ==
    /\ p \in up /\ claim[p] = None
    /\ NoBeatOverdue(p)
    /\ \A q \in Producers : m \notin open[q] /\ claim[q] # m
    /\ run[m] < MaxRuns
    /\ Claim(p, m)
    /\ BeginSweep(p) \/ UNCHANGED vars
    /\ UNCHANGED waited

(* Maintenance raises, which is logged, or the command is interrupted.      *)
AbandonSweep(s) ==
    /\ Sweeping(s)
    /\ pc' = [pc EXCEPT ![s] = "idle"]
    /\ began' = [began EXCEPT ![s] = Never]
    /\ found' = [found EXCEPT ![s] = {}]
    /\ endpoint' = [endpoint EXCEPT ![s] = None]
    /\ advertised' = [advertised EXCEPT ![s] = NoAnswer]
    /\ subject' = [subject EXCEPT ![s] = NoSubject]
    /\ due' = [due EXCEPT ![s] = {}]
    /\ waited' = [waited EXCEPT ![s] = 0]

(* The row is written once the sweep is over, and stamped before the lock   *)
(* is given back.                                                           *)
Publish(p) ==
    /\ claim[p] # None /\ ~Sweeping(p)
    /\ Register(p, claim[p])
    /\ IF p \in Beating THEN UNCHANGED claim ELSE Claim(p, None)
    /\ UNCHANGED waited

Stamp(p) == FirstBeat(p) /\ Claim(p, None) /\ UNCHANGED waited

(* A round that has its copy of the identifiers stamps without the lock.    *)
BeatOrClose(p, m) ==
    /\ Beat(p, m) \/ (claim[p] = None /\ Close(p, m))
    /\ UNCHANGED <<claim, waited>>

(* The end of a process ends its sweep.                                     *)
Die(p) ==
    /\ p \in up
    /\ up' = up \ {p}
    /\ open' = [open EXCEPT ![p] = {}]
    /\ settling' = [settling EXCEPT ![p] = None]
    /\ Claim(p, None)
    /\ IF Sweeping(p) THEN AbandonSweep(p) ELSE UNCHANGED <<sweepVars, waited>>
    /\ UNCHANGED <<row, run, answered, now>>

(* qimchi-connect cleanup.                                                  *)
cleanup(s) == s \notin Producers /\ BeginSweep(s) /\ UNCHANGED <<claim, waited>>

SweepOn(s) ==
    /\ Sweeping(s)
    /\ Sweep(s)
    /\ waited' = [waited EXCEPT ![s] = 0]
    /\ UNCHANGED claim

----------------------------------------------------------------------------
(* A sweep waits for an endpoint when no other row is left to work on.      *)
Waiting(s) ==
    /\ pc[s] = "sorting" /\ found[s] # {}
    /\ \A record \in found[s] : record.liveness = "unknown"

(* Time passes as long as running producers are in time with their beats,   *)
(* or wait in a registration for an endpoint.                               *)
TickForUnlimited(p) ==
    IF claim[p] = None
    THEN p \in Beating => \A m \in open[p] : now + 1 - row[m].seen <= Interval
    ELSE Sweeping(p) /\ Waiting(p)

TickFor(p) ==
    IF claim[p] = None
    THEN p \in Beating => \A m \in open[p] : now + 1 - row[m].seen <= Interval
    ELSE Sweeping(p) /\ Waiting(p) /\ waited[p] < ProbeTime

LiveTick ==
    /\ now < MaxClock
    /\ \A p \in up : TickFor(p)
    /\ now' = now + 1
    /\ waited' = [s \in Sweepers |-> IF s \in Producers /\ Waiting(s)
                                     THEN waited[s] + 1 ELSE waited[s]]
    /\ UNCHANGED <<row, producerVars, answered, sweepVars, claim>>

----------------------------------------------------------------------------
LiveNext ==
    \/ \E p \in Producers :
          \/ \E m \in Ids : BeginRegister(p, m) \/ BeatOrClose(p, m)
          \/ Publish(p) \/ Stamp(p) \/ Die(p)
          \/ Restart(p) /\ UNCHANGED <<claim, waited>>
    \/ \E s \in Sweepers :
          \/ cleanup(s) \/ SweepOn(s)
          \/ AbandonSweep(s) /\ UNCHANGED <<row, producerVars, answered, now, claim>>
    \/ LiveTick

LiveSpec == LiveInit /\ [][LiveNext]_liveVars

----------------------------------------------------------------------------
(* Types; a producer registers what no producer publishes, and a sweep      *)
(* waits for an endpoint as long as the probe may take, and only then.      *)
LiveTypeOK ==
    /\ TypeOK
    /\ claim \in [Producers -> Ids \cup {None}]
    /\ \A p \in Producers, m \in Ids :
          m = claim[p] /\ settling[p] # m => \A q \in Producers : m \notin open[q]
    /\ waited \in [Sweepers -> 0..ProbeTime]
    /\ \A s \in Sweepers : waited[s] > 0 => Sweeping(s)

(* What makes it inductive: a claim is its producer's own, a producer with  *)
(* a claim is settling that one or has yet to publish it, and only a        *)
(* producer with a claim sweeps.                                            *)
ClaimsAreOwn ==
    /\ \A p \in Producers : claim[p] # None =>
          /\ p \in up
          /\ \A q \in Producers : q # p => claim[q] # claim[p]
          /\ settling[p] = None => \A q \in Producers : claim[p] \notin open[q]
    /\ \A p \in Producers : settling[p] # None => claim[p] = settling[p] /\ ~Sweeping(p)
    /\ \A p \in Producers : Sweeping(p) => claim[p] # None

LiveInvariant ==
    /\ RegistryInvariant /\ ClaimsAreOwn
    /\ claim \in [Producers -> Ids \cup {None}]
    /\ waited \in [Sweepers -> 0..ProbeTime]
    /\ \A s \in Sweepers : waited[s] > 0 => Sweeping(s)
=============================================================================
