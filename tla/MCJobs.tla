--------------------------------- MODULE MCJobs ---------------------------------
(* Finite instances of two parts of the worker: the boundary every scheduled job *)
(* runs in, and the drain of the recovery outbox that one of these jobs does.    *)
(* A behaviour is one of the one or of the other.                                *)
EXTENDS JobExecution, TLC

CONSTANTS i1, i2, j1, j2, k1, s1, w1, w2, nobody

TwoInstances == {i1, i2}
TwoJobs      == {j1, j2}
OneKey       == {k1}
SharedKey    == [j \in TwoJobs |-> k1]

TwoDays == 1..2
DayOf   == (0 :> 1) @@ (1 :> 2)

VARIABLES part, now, request, action, assignment, capacity, work, session,
          poolLock, drain, lease, runFaults

Recovery == INSTANCE CapacityRecovery WITH
  faults <- runFaults, MaxFaults <- 2, Sessions <- {s1}, Recoverers <- {w1, w2},
  Nobody <- nobody, Requests <- {1}, Operations <- {"approve", "change", "reject"},
  Kinds <- {"checklist"}, MaxQty <- 1, MaxAttempts <- 1, MaxTime <- 1,
  Days <- TwoDays, OperatingDay <- DayOf

poolVars == <<now, request, action, assignment, capacity, work, session, poolLock,
              drain, lease, runFaults>>

\* Jobs that were given up: nothing is left to do in the other part.
Ended ==
  /\ boss = [j \in Jobs |-> [state |-> "failed", tries |-> 0]]
  /\ row = [k \in Keys |-> "none"] /\ lock = [k \in Keys |-> NoOne]
  /\ exec = [d \in Deliveries |-> NoExec]
  /\ effects = [k \in Keys |-> 0] /\ unrecorded = [k \in Keys |-> 0]
  /\ faults = 0

MCInit ==
  /\ Recovery!RecoveryInit
  /\ \/ part = "jobs" /\ Init /\ \A c \in capacity : c.qty = 0
     \/ part = "recovery" /\ Ended

MCNext ==
  \/ part = "jobs" /\ Next /\ UNCHANGED <<part, poolVars>>
  \/ part = "recovery" /\ Recovery!RecoveryNext /\ UNCHANGED <<part, vars>>

MCSpec ==
  /\ MCInit /\ [][MCNext]_<<part, vars, poolVars>>
  /\ Fairness /\ Recovery!RecoveryFairness

\* Recovery work that is due is completed in the end, by its run or by another
\* after its run failed, died, or lost its lease (capacity-recovery.ts:60).
DueWorkCompletes == Recovery!DueWorkCompletes
=================================================================================
