------------------------------ MODULE JobExecution ------------------------------
(***************************************************************************)
(* How the worker runs a scheduled job: pg-boss hands the job to a worker   *)
(* at least once, and the idempotency boundary (idempotency.ts) makes the   *)
(* repeated deliveries of one key run its handler one after the other, and  *)
(* never again once a success is recorded.  Only the handlers that were     *)
(* interrupted between their work and its record are run twice.             *)
(***************************************************************************)
EXTENDS Naturals, FiniteSets

CONSTANTS
  Instances,   \* worker processes
  Jobs,        \* jobs of one pg-boss queue
  Keys,        \* idempotency keys
  KeyOf,       \* the key of each job: scheduled and manual jobs may share one
  RetryLimit,  \* QUEUE_OPTIONS.retryLimit
  MaxFaults    \* bound: crashes, lost connections, overruns, failing statements

None  == "none"

ASSUME JobAssumption ==
  /\ KeyOf \in [Jobs -> Keys] /\ None \notin Jobs
  /\ RetryLimit \in Nat /\ MaxFaults \in Nat

Tries == 0..RetryLimit
NoOne == <<None, 0>>

VARIABLES
  boss,        \* the pg-boss row of each job: state and retryCount
  row,         \* worker_job_execution.status of each key ("skipped" counts as success)
  exec,        \* what each delivery of a job is doing, and where
  lock,        \* the delivery whose connection holds the advisory lock of a key
  effects,     \* history: runs of the handler that did their work, for each key
  unrecorded,  \* history: of these, how many a fault kept from being recorded
  faults       \* history: faults so far

vars == <<boss, row, exec, lock, effects, unrecorded, faults>>

Deliveries == Jobs \X Tries
KeyFor(d)  == KeyOf[d[1]]

Phases   == {"none", "waiting", "running", "ran", "told", "gone"}
Outcomes == {"pending", "succeeded", "failed"}

NoExec == [phase |-> "none", on |-> None, session |-> TRUE, outcome |-> "pending"]

TypeOK ==
  /\ boss \in [Jobs -> [state : {"created", "active", "retry", "completed", "failed"},
                        tries : Tries]]
  /\ row \in [Keys -> {"none", "running", "succeeded", "failed"}]
  /\ exec \in [Deliveries -> [phase : Phases, on : Instances \cup {None},
                              session : BOOLEAN, outcome : Outcomes]]
  /\ lock \in [Keys -> Deliveries \cup {NoOne}]
  /\ effects \in [Keys -> Nat]
  /\ unrecorded \in [Keys -> Nat]
  /\ faults \in 0..MaxFaults

-------------------------------------------------------------------------------

Alive(d)   == exec[d].phase \in {"waiting", "running", "ran", "told"}
Working(d) == exec[d].phase \in {"running", "ran"}
Current(d) == boss[d[1]].state = "active" /\ boss[d[1]].tries = d[2]

\* A worker fetches one job at a time; a run that pg-boss gave up on does not count.
Busy(i) == \E d \in Deliveries : Alive(d) /\ exec[d].on = i /\ Current(d)

Unlock(k, d) == lock' = [lock EXCEPT ![k] = IF @ = d THEN NoOne ELSE @]

\* Mutant: the boundary looks only for a run in progress.
SettledNever(k) == FALSE

\* A recorded result is replayed, whatever delivery asks.
Settled(k) == row[k] = "succeeded"

\* Mutant: the lock is not waited for.
FreeAlways(k) == TRUE

\* Mutant: the row of a run that died keeps others out.
FreeAndUnclaimed(k) == lock[k] = NoOne /\ row[k] # "running"

Free(k) == lock[k] = NoOne

-------------------------------------------------------------------------------
(* pg-boss *)

\* The queue hands the job to a worker that is free (batchSize 1).
Fetch(i, j) ==
  /\ boss[j].state \in {"created", "retry"} /\ ~Busy(i)
  /\ boss' = [boss EXCEPT ![j].state = "active"]
  /\ exec' = [exec EXCEPT ![<<j, boss[j].tries>>] =
                [NoExec EXCEPT !.phase = "waiting", !.on = i]]
  /\ UNCHANGED <<row, lock, effects, unrecorded, faults>>

\* What becomes of a job whose delivery failed: another try, up to the limit.
AfterFailure(j) ==
  IF boss[j].tries < RetryLimit
    THEN [state |-> "retry", tries |-> boss[j].tries + 1]
    ELSE [state |-> "failed", tries |-> boss[j].tries]

\* An active job that is not settled in time is taken from its worker, which may
\* be dead, or still at work.
Expire(j) ==
  /\ boss[j].state = "active"
  /\ faults' = IF Alive(<<j, boss[j].tries>>) THEN faults + 1 ELSE faults
  /\ faults' <= MaxFaults
  /\ boss' = [boss EXCEPT ![j] = AfterFailure(j)]
  /\ UNCHANGED <<row, exec, lock, effects, unrecorded>>

\* The delivery tells pg-boss how it ended; one that has expired is not heard.
Settle(d) ==
  /\ exec[d].phase = "told"
  /\ exec' = [exec EXCEPT ![d].phase = "gone"]
  /\ boss' = IF ~Current(d) THEN boss
             ELSE [boss EXCEPT ![d[1]] =
                     IF exec[d].outcome = "succeeded"
                       THEN [@ EXCEPT !.state = "completed"] ELSE AfterFailure(d[1])]
  /\ UNCHANGED <<row, lock, effects, unrecorded, faults>>

-------------------------------------------------------------------------------
(* The idempotency boundary *)

\* The session lock of the key, the stored result, or the claim 'running'.
Begin(d) ==
  /\ exec[d].phase = "waiting" /\ Free(KeyFor(d))
  /\ LET k == KeyFor(d) IN
     \/ /\ Settled(k)
        /\ exec' = [exec EXCEPT ![d].phase = "told", ![d].outcome = "succeeded"]
        /\ UNCHANGED <<row, lock>>
     \/ /\ ~Settled(k)
        /\ exec' = [exec EXCEPT ![d].phase = "running"]
        /\ row' = [row EXCEPT ![k] = "running"]
        /\ lock' = [lock EXCEPT ![k] = d]
  /\ UNCHANGED <<boss, effects, unrecorded, faults>>

\* The handler returns a result, returns a failure, or throws.
RunHandler(d) ==
  /\ exec[d].phase = "running"
  /\ \E outcome \in {"succeeded", "failed"} :
       /\ exec' = [exec EXCEPT ![d].phase = "ran", ![d].outcome = outcome]
       /\ effects' = [effects EXCEPT ![KeyFor(d)] = IF outcome = "succeeded" THEN @ + 1 ELSE @]
       /\ faults' = IF outcome = "failed" THEN faults + 1 ELSE faults
       /\ faults' <= MaxFaults
  /\ UNCHANGED <<boss, row, lock, unrecorded>>

\* The result is written on the connection that took the lock.  A write that
\* fails is answered with the status 'failed'; on a lost connection both fail.
Record(d) ==
  /\ exec[d].phase = "ran"
  /\ LET k == KeyFor(d)
         unsaved(n) == unrecorded' = [unrecorded EXCEPT ![k] =
                         IF exec[d].outcome = "succeeded" THEN @ + n ELSE @] IN
     \/ /\ exec[d].session
        /\ row' = [row EXCEPT ![k] = exec[d].outcome]
        /\ exec' = [exec EXCEPT ![d].phase = "told"]
        /\ Unlock(k, d) /\ UNCHANGED <<unrecorded, faults>>
     \/ /\ exec[d].session /\ faults < MaxFaults /\ faults' = faults + 1
        /\ row' = [row EXCEPT ![k] = "failed"]
        /\ exec' = [exec EXCEPT ![d].phase = "told", ![d].outcome = "failed"]
        /\ Unlock(k, d) /\ unsaved(1)
     \/ /\ ~exec[d].session
        /\ exec' = [exec EXCEPT ![d].phase = "told", ![d].outcome = "failed"]
        /\ unsaved(1) /\ UNCHANGED <<row, lock, faults>>
  /\ UNCHANGED <<boss, effects>>

-------------------------------------------------------------------------------
(* Faults *)

\* A process dies with everything it runs, and starts again; its locks are free.
Crash(i) ==
  /\ faults < MaxFaults /\ faults' = faults + 1
  /\ LET dead == {d \in Deliveries : Alive(d) /\ exec[d].on = i} IN
     /\ dead # {}
     /\ exec' = [d \in Deliveries |->
                   IF d \in dead THEN [exec[d] EXCEPT !.phase = "gone"] ELSE exec[d]]
     /\ lock' = [k \in Keys |-> IF lock[k] \in dead THEN NoOne ELSE lock[k]]
     /\ unrecorded' = [k \in Keys |-> unrecorded[k] + Cardinality(
          {d \in dead : KeyFor(d) = k /\ exec[d].phase = "ran"
                        /\ exec[d].outcome = "succeeded"})]
  /\ UNCHANGED <<boss, row, effects>>

\* The database closes the session of a run that goes on without noticing.
LoseSession(d) ==
  /\ faults < MaxFaults /\ faults' = faults + 1
  /\ Working(d) /\ exec[d].session
  /\ exec' = [exec EXCEPT ![d].session = FALSE]
  /\ Unlock(KeyFor(d), d)
  /\ UNCHANGED <<boss, row, effects, unrecorded>>

-------------------------------------------------------------------------------

Init ==
  /\ boss = [j \in Jobs |-> [state |-> "created", tries |-> 0]]
  /\ row = [k \in Keys |-> "none"]
  /\ exec = [d \in Deliveries |-> NoExec]
  /\ lock = [k \in Keys |-> NoOne]
  /\ effects = [k \in Keys |-> 0]
  /\ unrecorded = [k \in Keys |-> 0]
  /\ faults = 0

Deliver(d) == Begin(d) \/ RunHandler(d) \/ Record(d) \/ Settle(d)

Next ==
  \/ \E i \in Instances, j \in Jobs : Fetch(i, j)
  \/ \E j \in Jobs : Expire(j)
  \/ \E d \in Deliveries : Deliver(d) \/ LoseSession(d)
  \/ \E i \in Instances : Crash(i)

Spec == Init /\ [][Next]_vars

\* The queue polls, a free lock is granted to a waiting connection, a handler
\* ends, and the supervision of pg-boss expires the jobs of dead workers.
Fairness ==
  /\ \A j \in Jobs :
       /\ WF_vars(\E i \in Instances : Fetch(i, j))
       /\ WF_vars(Expire(j) /\ faults' = faults)
  /\ \A d \in Deliveries : WF_vars(RunHandler(d) \/ Record(d) \/ Settle(d)) /\ SF_vars(Begin(d))

FairSpec == Spec /\ Fairness

-------------------------------------------------------------------------------

\* A handler is run again after it did its work only where a fault kept the work
\* from being recorded (idempotency.ts:73): a crash, a lost connection, or a
\* failing statement, one repetition for each.
RepeatsExplained ==
  \A k \in Keys :
    effects[k] <= 1 + unrecorded[k]
      + Cardinality({d \in Deliveries : KeyFor(d) = k /\ exec[d].phase = "ran"
                                        /\ exec[d].outcome = "succeeded" /\ ~exec[d].session})

\* Two handlers of one key work side by side only when the connection that held
\* the lock of one of them was lost.
OneAtATime ==
  \A d, e \in Deliveries :
    d # e /\ KeyFor(d) = KeyFor(e) /\ Working(d) /\ Working(e) =>
      ~exec[d].session \/ ~exec[e].session

\* Every job ends: completed, or given up after the last try.
JobsEnd == \A j \in Jobs : <>(boss[j].state \in {"completed", "failed"})
=================================================================================
