--------------------------- MODULE JobExecutionProofs ---------------------------
(***************************************************************************)
(* Proofs about JobExecution, for every number of workers, jobs, keys,     *)
(* retries and faults: the handlers of a key exclude each other, and a run *)
(* that is repeated after it did its work was kept from its record.        *)
(***************************************************************************)
EXTENDS JobExecution, FiniteSetTheorems, TLAPS

\* A handler that ended has an outcome.
RanInv == \A d \in Deliveries : exec[d].phase = "ran" => exec[d].outcome # "pending"

\* A delivery that has not been fetched yet is the next one of its job.
FetchInv ==
  \A d \in Deliveries : exec[d].phase # "none" =>
    \/ d[2] < boss[d[1]].tries
    \/ d[2] = boss[d[1]].tries /\ boss[d[1]].state \notin {"created", "retry"}

\* Who works on a connection that is still there holds the lock of the key, and
\* the row says that the key is being worked on.
LockInv ==
  \A d \in Deliveries : Working(d) /\ exec[d].session =>
    lock[KeyFor(d)] = d /\ row[KeyFor(d)] = "running"

\* The runs that did their work and have not been recorded yet.
Done(k) == {d \in Deliveries : /\ KeyFor(d) = k
                               /\ exec[d].phase = "ran" /\ exec[d].outcome = "succeeded"}

Recorded(k) == IF row[k] = "succeeded" THEN 1 ELSE 0

\* Every run that did its work is recorded, was kept from its record, or is on
\* the way to it.
BalanceInv ==
  \A k \in Keys :
    /\ IsFiniteSet(Done(k))
    /\ effects[k] = Recorded(k) + unrecorded[k] + Cardinality(Done(k))

IInv == TypeOK /\ RanInv /\ FetchInv /\ LockInv /\ BalanceInv

-------------------------------------------------------------------------------
(* Type correctness *)

ExecRow == [phase : Phases, on : Instances \cup {None}, session : BOOLEAN, outcome : Outcomes]
BossRow == [state : {"created", "active", "retry", "completed", "failed"}, tries : Tries]

LEMMA DeliveryParts ==
  /\ \A d \in Deliveries : /\ d[1] \in Jobs /\ d[2] \in Tries /\ d = <<d[1], d[2]>>
                           /\ KeyFor(d) \in Keys /\ d # NoOne
  /\ \A j \in Jobs, t \in Tries : <<j, t>> \in Deliveries
BY JobAssumption DEF Deliveries, KeyFor, NoOne

LEMMA TriesAreNaturals == 0 \in Tries /\ \A t \in Tries : t \in Nat /\ t <= RetryLimit
BY JobAssumption DEF Tries

LEMMA InitTyped == Init => TypeOK
BY JobAssumption, TriesAreNaturals DEF Init, TypeOK, NoExec, Phases, Outcomes

LEMMA FailureTyped ==
  ASSUME TypeOK, NEW j \in Jobs
  PROVE  /\ AfterFailure(j) \in BossRow
         /\ AfterFailure(j).tries >= boss[j].tries
         /\ \/ AfterFailure(j).tries > boss[j].tries
            \/ AfterFailure(j).tries = boss[j].tries /\ AfterFailure(j).state = "failed"
<1>1. boss[j] \in BossRow /\ boss[j].tries \in Tries
  BY DEF TypeOK, BossRow
<1>2. boss[j].tries < RetryLimit => boss[j].tries + 1 \in Tries
  BY <1>1, JobAssumption DEF Tries
<1> QED
  BY <1>1, <1>2, TriesAreNaturals DEF AfterFailure, BossRow

\* What a step does to its own delivery, and to no other.
LEMMA PhaseUpdate ==
  ASSUME TypeOK, NEW d \in Deliveries, NEW phase \in Phases,
         exec' = [exec EXCEPT ![d].phase = phase]
  PROVE  /\ exec' \in [Deliveries -> ExecRow]
         /\ exec'[d].phase = phase /\ exec'[d].on = exec[d].on
         /\ exec'[d].session = exec[d].session /\ exec'[d].outcome = exec[d].outcome
         /\ \A e \in Deliveries \ {d} : exec'[e] = exec[e]
<1>1. exec \in [Deliveries -> ExecRow]
  BY DEF TypeOK, ExecRow
<1>2. exec[d] \in ExecRow
  BY <1>1
<1>3. exec'[d] = [exec[d] EXCEPT !.phase = phase]
  BY <1>1
<1>4. [exec[d] EXCEPT !.phase = phase] \in ExecRow
  BY <1>2 DEF ExecRow
<1> QED
  BY <1>1, <1>2, <1>3, <1>4 DEF ExecRow

LEMMA OutcomeUpdate ==
  ASSUME TypeOK, NEW d \in Deliveries, NEW phase \in Phases, NEW outcome \in Outcomes,
         exec' = [exec EXCEPT ![d].phase = phase, ![d].outcome = outcome]
  PROVE  /\ exec' \in [Deliveries -> ExecRow]
         /\ exec'[d].phase = phase /\ exec'[d].on = exec[d].on
         /\ exec'[d].session = exec[d].session /\ exec'[d].outcome = outcome
         /\ \A e \in Deliveries \ {d} : exec'[e] = exec[e]
<1>1. exec \in [Deliveries -> ExecRow]
  BY DEF TypeOK, ExecRow
<1>2. exec[d] \in ExecRow
  BY <1>1
<1>3. exec'[d] = [exec[d] EXCEPT !.phase = phase, !.outcome = outcome]
  BY <1>1
<1>4. [exec[d] EXCEPT !.phase = phase, !.outcome = outcome] \in ExecRow
  BY <1>2 DEF ExecRow
<1>5. exec' \in [Deliveries -> ExecRow]
  BY <1>1, <1>3, <1>4
<1>6. \A e \in Deliveries \ {d} : exec'[e] = exec[e]
  BY <1>1
<1> QED
  BY <1>2, <1>3, <1>5, <1>6 DEF ExecRow

LEMMA FetchTyped ==
  ASSUME TypeOK, NEW i \in Instances, NEW j \in Jobs, Fetch(i, j)
  PROVE  TypeOK'
<1>1. boss' \in [Jobs -> BossRow]
  BY DEF Fetch, TypeOK, BossRow
<1>2. [NoExec EXCEPT !.phase = "waiting", !.on = i] \in ExecRow
  BY DEF NoExec, ExecRow, Phases, Outcomes
<1>3. exec' \in [Deliveries -> ExecRow]
  BY <1>2 DEF Fetch, TypeOK, ExecRow
<1> QED
  BY <1>1, <1>3 DEF Fetch, TypeOK, ExecRow, BossRow

LEMMA ExpireTyped ==
  ASSUME TypeOK, NEW j \in Jobs, Expire(j)
  PROVE  TypeOK'
<1>1. boss' \in [Jobs -> BossRow]
  BY FailureTyped DEF Expire, TypeOK, BossRow
<1>2. faults' \in 0..MaxFaults
  BY JobAssumption DEF Expire, TypeOK
<1> QED
  BY <1>1, <1>2 DEF Expire, TypeOK, BossRow

LEMMA DeliverTyped ==
  ASSUME TypeOK, RanInv, NEW d \in Deliveries, Deliver(d)
  PROVE  TypeOK'
<1>0. KeyFor(d) \in Keys /\ d[1] \in Jobs
  BY DeliveryParts
<1>1. exec' \in [Deliveries -> ExecRow]
  <2>1. CASE Begin(d)
    BY <2>1, PhaseUpdate, OutcomeUpdate DEF Begin, Phases, Outcomes
  <2>2. CASE RunHandler(d)
    BY <2>2, OutcomeUpdate DEF RunHandler, Phases, Outcomes
  <2>3. CASE Record(d)
    BY <2>3, PhaseUpdate, OutcomeUpdate DEF Record, Phases, Outcomes
  <2>4. CASE Settle(d)
    BY <2>4, PhaseUpdate DEF Settle, Phases
  <2> QED
    BY <2>1, <2>2, <2>3, <2>4 DEF Deliver
<1>2. boss' \in [Jobs -> BossRow]
  <2>1. CASE Settle(d)
    BY <1>0, <2>1, FailureTyped DEF Settle, TypeOK, BossRow
  <2> QED
    BY <2>1 DEF Deliver, Begin, RunHandler, Record, TypeOK, BossRow
<1>3. row' \in [Keys -> {"none", "running", "succeeded", "failed"}]
  <2>1. CASE Record(d)
    <3>1. exec[d].outcome \in {"succeeded", "failed"}
      BY <2>1 DEF TypeOK, RanInv, Record, Outcomes
    <3> QED
      BY <1>0, <2>1, <3>1 DEF Record, TypeOK
  <2> QED
    BY <1>0, <2>1 DEF Deliver, Begin, RunHandler, Settle, TypeOK
<1>4. lock' \in [Keys -> Deliveries \cup {NoOne}]
  BY <1>0 DEF Deliver, Begin, RunHandler, Record, Settle, TypeOK, Unlock
<1>5. effects' \in [Keys -> Nat] /\ unrecorded' \in [Keys -> Nat]
  BY <1>0 DEF Deliver, Begin, RunHandler, Record, Settle, TypeOK
<1>6. faults' \in 0..MaxFaults
  BY JobAssumption DEF Deliver, Begin, RunHandler, Record, Settle, TypeOK
<1> QED
  BY <1>1, <1>2, <1>3, <1>4, <1>5, <1>6 DEF TypeOK, ExecRow, BossRow

LEMMA FaultTyped ==
  /\ TypeOK /\ (\E d \in Deliveries : LoseSession(d)) => TypeOK'
  /\ TypeOK /\ (\A k \in Keys : IsFiniteSet(Done(k))) /\ (\E i \in Instances : Crash(i)) => TypeOK'
<1>1. ASSUME TypeOK, NEW d \in Deliveries, LoseSession(d) PROVE TypeOK'
  <2>1. exec' \in [Deliveries -> ExecRow]
    BY <1>1 DEF LoseSession, TypeOK, ExecRow
  <2> QED
    BY <1>1, <2>1, DeliveryParts, JobAssumption DEF LoseSession, TypeOK, ExecRow, Unlock
<1>2. ASSUME TypeOK, \A k \in Keys : IsFiniteSet(Done(k)), NEW i \in Instances, Crash(i)
      PROVE TypeOK'
  <2> DEFINE dead == {d \in Deliveries : Alive(d) /\ exec[d].on = i}
             lost(k) == {d \in dead : KeyFor(d) = k /\ exec[d].phase = "ran"
                                      /\ exec[d].outcome = "succeeded"}
  <2>1. \A k \in Keys : Cardinality(lost(k)) \in Nat
    <3>1. \A k \in Keys : lost(k) \subseteq Done(k)
      BY DEF Done
    <3> QED
      BY <1>2, <3>1, FS_Subset, FS_CardinalityType
  <2>2. unrecorded' = [k \in Keys |-> unrecorded[k] + Cardinality(lost(k))]
    BY <1>2 DEF Crash
  <2>3. unrecorded' \in [Keys -> Nat]
    BY <2>1, <2>2, <1>2 DEF TypeOK
  <2>4. exec' \in [Deliveries -> ExecRow]
    BY <1>2 DEF Crash, TypeOK, ExecRow, Phases
  <2>5. lock' \in [Keys -> Deliveries \cup {NoOne}]
    BY <1>2 DEF Crash, TypeOK
  <2>6. faults' \in 0..MaxFaults
    BY <1>2, JobAssumption DEF Crash, TypeOK
  <2> QED
    BY <1>2, <2>3, <2>4, <2>5, <2>6 DEF Crash, TypeOK, ExecRow
<1> QED
  BY <1>1, <1>2

-------------------------------------------------------------------------------
(* One delivery at a time                                                  *)

\* The delivery that is fetched is a new one, whatever became of the earlier tries.
LEMMA FetchedIsNew ==
  ASSUME TypeOK, FetchInv, NEW j \in Jobs, boss[j].state \in {"created", "retry"}
  PROVE  <<j, boss[j].tries>> \in Deliveries /\ exec[<<j, boss[j].tries>>].phase = "none"
<1>1. boss[j].tries \in Tries
  BY DEF TypeOK
<1>2. <<j, boss[j].tries>> \in Deliveries
  BY <1>1, DeliveryParts
<1> QED
  BY <1>1, <1>2, TriesAreNaturals DEF FetchInv

LEMMA FetchStep ==
  ASSUME TypeOK, FetchInv, NEW i \in Instances, NEW j \in Jobs, Fetch(i, j)
  PROVE  LET f == <<j, boss[j].tries>> IN
         /\ f \in Deliveries /\ exec[f].phase = "none" /\ exec'[f].phase = "waiting"
         /\ \A e \in Deliveries \ {f} : exec'[e] = exec[e]
         /\ boss'[j].tries = boss[j].tries /\ boss'[j].state = "active"
         /\ \A h \in Jobs \ {j} : boss'[h] = boss[h]
<1> DEFINE f == <<j, boss[j].tries>>
<1>1. f \in Deliveries /\ exec[f].phase = "none"
  BY FetchedIsNew DEF Fetch
<1>2. [NoExec EXCEPT !.phase = "waiting", !.on = i].phase = "waiting"
  BY DEF NoExec
<1>3. /\ exec' = [exec EXCEPT ![f] = [NoExec EXCEPT !.phase = "waiting", !.on = i]]
      /\ boss' = [boss EXCEPT ![j].state = "active"]
  BY DEF Fetch
<1>4. exec'[f].phase = "waiting" /\ \A e \in Deliveries \ {f} : exec'[e] = exec[e]
  BY <1>1, <1>2, <1>3 DEF TypeOK
<1>5. boss'[j].tries = boss[j].tries /\ boss'[j].state = "active"
      /\ \A h \in Jobs \ {j} : boss'[h] = boss[h]
  BY <1>3 DEF TypeOK
<1> QED
  BY <1>1, <1>4, <1>5

\* The steps of a delivery: what each does to its own row, and to its key.
LEMMA BeginCases ==
  ASSUME TypeOK, NEW d \in Deliveries, Begin(d)
  PROVE  /\ exec[d].phase = "waiting" /\ exec'[d].session = exec[d].session
         /\ \A e \in Deliveries \ {d} : exec'[e] = exec[e]
         /\ \/ exec'[d].phase = "told" /\ UNCHANGED <<row, lock>>
            \/ /\ exec'[d].phase = "running"
               /\ lock[KeyFor(d)] = NoOne /\ lock' = [lock EXCEPT ![KeyFor(d)] = d]
               /\ row[KeyFor(d)] # "succeeded" /\ row' = [row EXCEPT ![KeyFor(d)] = "running"]
<1>1. CASE exec' = [exec EXCEPT ![d].phase = "told", ![d].outcome = "succeeded"]
           /\ UNCHANGED <<row, lock>>
  BY <1>1, OutcomeUpdate DEF Begin, Phases, Outcomes
<1>2. CASE exec' = [exec EXCEPT ![d].phase = "running"] /\ ~Settled(KeyFor(d))
           /\ row' = [row EXCEPT ![KeyFor(d)] = "running"]
           /\ lock' = [lock EXCEPT ![KeyFor(d)] = d]
  BY <1>2, PhaseUpdate DEF Begin, Phases, Free, Settled
<1> QED
  BY <1>1, <1>2 DEF Begin

LEMMA RunCases ==
  ASSUME TypeOK, NEW d \in Deliveries, RunHandler(d)
  PROVE  /\ exec[d].phase = "running" /\ exec'[d].phase = "ran"
         /\ exec'[d].session = exec[d].session
         /\ \A e \in Deliveries \ {d} : exec'[e] = exec[e]
         /\ exec'[d].outcome \in {"succeeded", "failed"}
         /\ effects' = [effects EXCEPT ![KeyFor(d)] =
                          IF exec'[d].outcome = "succeeded" THEN @ + 1 ELSE @]
<1>1. PICK outcome \in {"succeeded", "failed"} :
        /\ exec' = [exec EXCEPT ![d].phase = "ran", ![d].outcome = outcome]
        /\ effects' = [effects EXCEPT ![KeyFor(d)] = IF outcome = "succeeded" THEN @ + 1 ELSE @]
  BY DEF RunHandler
<1>3. /\ exec'[d].phase = "ran" /\ exec'[d].session = exec[d].session
      /\ exec'[d].outcome = outcome /\ \A e \in Deliveries \ {d} : exec'[e] = exec[e]
  BY <1>1 DEF TypeOK
<1> QED
  BY <1>1, <1>3 DEF RunHandler

LEMMA RecordCases ==
  ASSUME TypeOK, NEW d \in Deliveries, Record(d)
  PROVE  /\ exec[d].phase = "ran" /\ exec'[d].phase = "told"
         /\ exec'[d].session = exec[d].session
         /\ \A e \in Deliveries \ {d} : exec'[e] = exec[e]
         /\ \/ exec[d].session /\ Unlock(KeyFor(d), d) /\ UNCHANGED unrecorded
               /\ row' = [row EXCEPT ![KeyFor(d)] = exec[d].outcome]
            \/ /\ \/ exec[d].session /\ Unlock(KeyFor(d), d)
                     /\ row' = [row EXCEPT ![KeyFor(d)] = "failed"]
                  \/ ~exec[d].session /\ UNCHANGED <<row, lock>>
               /\ unrecorded' = [unrecorded EXCEPT ![KeyFor(d)] =
                                   IF exec[d].outcome = "succeeded" THEN @ + 1 ELSE @]
<1>1. CASE exec' = [exec EXCEPT ![d].phase = "told"]
  <2>1. /\ exec'[d].phase = "told" /\ exec'[d].session = exec[d].session
        /\ \A e \in Deliveries \ {d} : exec'[e] = exec[e]
    BY <1>1, PhaseUpdate DEF Phases
  <2> QED
    BY <2>1 DEF Record
<1>2. CASE exec' = [exec EXCEPT ![d].phase = "told", ![d].outcome = "failed"]
  <2>1. /\ exec'[d].phase = "told" /\ exec'[d].session = exec[d].session
        /\ \A e \in Deliveries \ {d} : exec'[e] = exec[e]
    BY <1>2, OutcomeUpdate DEF Phases, Outcomes
  <2> QED
    BY <2>1 DEF Record
<1> QED
  BY <1>1, <1>2 DEF Record

LEMMA SettleCases ==
  ASSUME TypeOK, NEW d \in Deliveries, Settle(d)
  PROVE  /\ exec[d].phase = "told" /\ exec'[d].phase = "gone"
         /\ exec'[d].session = exec[d].session
         /\ \A e \in Deliveries \ {d} : exec'[e] = exec[e]
         /\ UNCHANGED <<row, lock, effects, unrecorded>>
<1>1. exec' = [exec EXCEPT ![d].phase = "gone"] /\ "gone" \in Phases
  BY DEF Settle, Phases
<1> QED
  BY <1>1, PhaseUpdate DEF Settle

LEMMA LoseSessionCases ==
  ASSUME TypeOK, NEW d \in Deliveries, LoseSession(d)
  PROVE  /\ Working(d) /\ exec[d].session /\ ~exec'[d].session
         /\ exec'[d].phase = exec[d].phase /\ exec'[d].outcome = exec[d].outcome
         /\ \A e \in Deliveries \ {d} : exec'[e] = exec[e]
         /\ Unlock(KeyFor(d), d) /\ UNCHANGED <<boss, row, effects, unrecorded>>
BY DEF LoseSession, TypeOK

LEMMA CrashCases ==
  ASSUME TypeOK, NEW i \in Instances, Crash(i)
  PROVE  LET dead == {d \in Deliveries : Alive(d) /\ exec[d].on = i} IN
         /\ \A d \in dead : exec'[d].phase = "gone"
         /\ \A d \in Deliveries \ dead : exec'[d] = exec[d]
         /\ \A k \in Keys : lock'[k] = IF lock[k] \in dead THEN NoOne ELSE lock[k]
         /\ UNCHANGED <<boss, row, effects>>
BY DEF Crash, TypeOK

LEMMA RanStep ==
  ASSUME TypeOK, RanInv, FetchInv, Next
  PROVE  RanInv'
<1>1. ASSUME NEW i \in Instances, NEW j \in Jobs, Fetch(i, j) PROVE RanInv'
  BY <1>1, FetchStep DEF RanInv
<1>2. ASSUME NEW j \in Jobs, Expire(j) PROVE RanInv'
  BY <1>2 DEF Expire, RanInv
<1>3. ASSUME NEW d \in Deliveries, Deliver(d) PROVE RanInv'
  BY <1>3, BeginCases, RunCases, RecordCases, SettleCases DEF Deliver, RanInv
<1>4. ASSUME NEW d \in Deliveries, LoseSession(d) PROVE RanInv'
  BY <1>4, LoseSessionCases DEF RanInv
<1>5. ASSUME NEW i \in Instances, Crash(i) PROVE RanInv'
  BY <1>5, CrashCases DEF RanInv
<1> QED
  BY <1>1, <1>2, <1>3, <1>4, <1>5 DEF Next

LEMMA FetchInvStep ==
  ASSUME TypeOK, FetchInv, Next
  PROVE  FetchInv'
<1>0. \A j \in Jobs : boss[j].tries \in Nat /\ \A d \in Deliveries : d[1] \in Jobs /\ d[2] \in Nat
  BY DeliveryParts, TriesAreNaturals DEF TypeOK
<1>1. ASSUME NEW i \in Instances, NEW j \in Jobs, Fetch(i, j) PROVE FetchInv'
  <2> DEFINE f == <<j, boss[j].tries>>
  <2>1. /\ f \in Deliveries
        /\ \A e \in Deliveries \ {f} : exec'[e] = exec[e]
        /\ boss'[j].tries = boss[j].tries /\ boss'[j].state = "active"
        /\ \A h \in Jobs \ {j} : boss'[h] = boss[h]
    BY <1>1, FetchStep
  <2> SUFFICES ASSUME NEW e \in Deliveries, exec'[e].phase # "none"
               PROVE  \/ e[2] < boss'[e[1]].tries
                      \/ e[2] = boss'[e[1]].tries /\ boss'[e[1]].state \notin {"created", "retry"}
    BY DEF FetchInv
  <2>2. CASE e = f
    BY <2>1, <2>2
  <2>3. CASE e # f
    BY <1>0, <2>1, <2>3 DEF FetchInv
  <2> QED
    BY <2>2, <2>3
<1>2. ASSUME NEW j \in Jobs, Expire(j) PROVE FetchInv'
  <2>1. boss' = [boss EXCEPT ![j] = AfterFailure(j)] /\ boss[j].state = "active" /\ exec' = exec
    BY <1>2 DEF Expire
  <2>2. AfterFailure(j).tries \in Nat
    BY FailureTyped, TriesAreNaturals DEF BossRow
  <2>3. boss'[j] = AfterFailure(j) /\ \A h \in Jobs \ {j} : boss'[h] = boss[h]
    BY <2>1 DEF TypeOK
  <2>4. \A d \in Deliveries : d[1] = j /\ exec[d].phase # "none" => d[2] <= boss[j].tries
    BY <1>0 DEF FetchInv
  <2> QED
    BY <1>0, <2>1, <2>2, <2>3, <2>4, FailureTyped DEF FetchInv
<1>3. ASSUME NEW d \in Deliveries, Deliver(d) PROVE FetchInv'
  <2>1. /\ exec[d].phase # "none"
        /\ \A e \in Deliveries \ {d} : exec'[e] = exec[e]
    BY <1>3, BeginCases, RunCases, RecordCases, SettleCases DEF Deliver
  <2>2. CASE boss' = boss
    BY <2>1, <2>2 DEF FetchInv
  <2>3. CASE Settle(d) /\ Current(d)
    <3> DEFINE j == d[1]
    <3>1. /\ boss[j].state = "active" /\ j \in Jobs
          /\ \/ boss'[j].state = "completed" /\ boss'[j].tries = boss[j].tries
             \/ boss'[j] = AfterFailure(j)
          /\ \A h \in Jobs \ {j} : boss'[h] = boss[h]
      BY <2>3, DeliveryParts DEF Settle, Current, TypeOK
    <3>2. AfterFailure(j).tries \in Nat
      BY <3>1, FailureTyped, TriesAreNaturals DEF BossRow
    <3> QED
      BY <1>0, <2>1, <3>1, <3>2, FailureTyped DEF FetchInv
  <2> QED
    BY <1>3, <2>2, <2>3 DEF Deliver, Begin, RunHandler, Record, Settle
<1>4. ASSUME NEW d \in Deliveries, LoseSession(d) PROVE FetchInv'
  BY <1>4, LoseSessionCases DEF FetchInv
<1>5. ASSUME NEW i \in Instances, Crash(i) PROVE FetchInv'
  BY <1>5, CrashCases DEF FetchInv, Alive
<1> QED
  BY <1>1, <1>2, <1>3, <1>4, <1>5 DEF Next

\* The lock of a working delivery survives what the others do.
LEMMA LockStep ==
  ASSUME TypeOK, FetchInv, LockInv, Next
  PROVE  LockInv'
<1> USE DEF Working
<1>0. \A d \in Deliveries : KeyFor(d) \in Keys /\ d # NoOne
  BY DeliveryParts
<1>1. ASSUME NEW i \in Instances, NEW j \in Jobs, Fetch(i, j) PROVE LockInv'
  <2>1. UNCHANGED <<row, lock>>
    BY <1>1 DEF Fetch
  <2> QED
    BY <1>1, <2>1, FetchStep DEF LockInv
<1>2. ASSUME NEW j \in Jobs, Expire(j) PROVE LockInv'
  BY <1>2 DEF Expire, LockInv
<1>3. ASSUME NEW d \in Deliveries, Begin(d) PROVE LockInv'
  <2> DEFINE k == KeyFor(d)
  <2>1. CASE exec'[d].phase = "told" /\ UNCHANGED <<row, lock>>
    BY <1>3, <2>1, BeginCases DEF LockInv
  <2>2. CASE /\ exec'[d].phase = "running"
             /\ lock[k] = NoOne /\ lock' = [lock EXCEPT ![k] = d]
             /\ row' = [row EXCEPT ![k] = "running"]
    <3>1. /\ lock'[k] = d /\ row'[k] = "running"
          /\ \A m \in Keys \ {k} : lock'[m] = lock[m] /\ row'[m] = row[m]
      BY <1>0, <2>2 DEF TypeOK
    <3>2. \A e \in Deliveries : Working(e) /\ exec[e].session => KeyFor(e) # k
      BY <1>0, <2>2 DEF LockInv
    <3> QED
      BY <1>0, <1>3, <3>1, <3>2, BeginCases DEF LockInv
  <2> QED
    BY <1>3, <2>1, <2>2, BeginCases
<1>4. ASSUME NEW d \in Deliveries, RunHandler(d) PROVE LockInv'
  <2>1. UNCHANGED <<row, lock>>
    BY <1>4 DEF RunHandler
  <2> QED
    BY <1>4, <2>1, RunCases DEF LockInv
<1>5. ASSUME NEW d \in Deliveries, Record(d) PROVE LockInv'
  <2> DEFINE k == KeyFor(d)
  <2>1. CASE UNCHANGED <<row, lock>>
    BY <1>5, <2>1, RecordCases DEF LockInv
  <2>2. CASE exec[d].session /\ Unlock(k, d) /\ \A m \in Keys \ {k} : row'[m] = row[m]
    <3>1. lock[k] = d
      BY <1>5, <2>2, RecordCases DEF LockInv
    <3>2. \A m \in Keys \ {k} : lock'[m] = lock[m] /\ row'[m] = row[m]
      BY <2>2 DEF Unlock, TypeOK
    <3>3. \A e \in Deliveries \ {d} : Working(e) /\ exec[e].session => KeyFor(e) # k
      BY <3>1 DEF LockInv
    <3> QED
      BY <1>0, <1>5, <3>2, <3>3, RecordCases DEF LockInv
  <2>3. \A v : row' = [row EXCEPT ![k] = v] => \A m \in Keys \ {k} : row'[m] = row[m]
    BY DEF TypeOK
  <2> QED
    BY <1>5, <2>1, <2>2, <2>3, RecordCases
<1>6. ASSUME NEW d \in Deliveries, Settle(d) PROVE LockInv'
  BY <1>6, SettleCases DEF LockInv
<1>7. ASSUME NEW d \in Deliveries, LoseSession(d) PROVE LockInv'
  <2>1. lock[KeyFor(d)] = d
    BY <1>7, LoseSessionCases DEF LockInv
  <2>2. \A m \in Keys \ {KeyFor(d)} : lock'[m] = lock[m]
    BY <1>7, LoseSessionCases DEF Unlock, TypeOK
  <2>3. \A e \in Deliveries \ {d} : Working(e) /\ exec[e].session => KeyFor(e) # KeyFor(d)
    BY <2>1 DEF LockInv
  <2> QED
    BY <1>0, <1>7, <2>2, <2>3, LoseSessionCases DEF LockInv
<1>8. ASSUME NEW i \in Instances, Crash(i) PROVE LockInv'
  BY <1>0, <1>8, CrashCases DEF LockInv
<1> QED
  BY <1>1, <1>2, <1>3, <1>4, <1>5, <1>6, <1>7, <1>8 DEF Next, Deliver

-------------------------------------------------------------------------------
(* What was done is recorded, kept from its record, or on the way to it    *)

LEMMA SameDone ==
  ASSUME NEW k \in Keys,
         \A d \in Deliveries : d \in Done(k)' <=> d \in Done(k)
  PROVE  Done(k)' = Done(k)
BY DEF Done

LEMMA BalanceStep ==
  ASSUME TypeOK, RanInv, FetchInv, LockInv, BalanceInv, Next
  PROVE  BalanceInv'
<1>0. \A d \in Deliveries : KeyFor(d) \in Keys
  BY DeliveryParts
<1>1. ASSUME NEW i \in Instances, NEW j \in Jobs, Fetch(i, j) PROVE BalanceInv'
  <2>1. UNCHANGED <<row, effects, unrecorded>>
    BY <1>1 DEF Fetch
  <2>2. \A k \in Keys : Done(k)' = Done(k)
    BY <1>1, FetchStep DEF Done
  <2> QED
    BY <2>1, <2>2 DEF BalanceInv, Recorded
<1>2. ASSUME NEW j \in Jobs, Expire(j) PROVE BalanceInv'
  BY <1>2 DEF Expire, BalanceInv, Recorded, Done
<1>3. ASSUME NEW d \in Deliveries, Begin(d) PROVE BalanceInv'
  <2>1. UNCHANGED <<effects, unrecorded>>
    BY <1>3 DEF Begin
  <2>2. \A k \in Keys : Done(k)' = Done(k)
    BY <1>3, BeginCases DEF Done
  <2>3. \A k \in Keys : Recorded(k)' = Recorded(k)
    BY <1>0, <1>3, BeginCases DEF Recorded, TypeOK
  <2> QED
    BY <2>1, <2>2, <2>3 DEF BalanceInv
<1>4. ASSUME NEW d \in Deliveries, RunHandler(d) PROVE BalanceInv'
  <2> DEFINE m == KeyFor(d)
  <2>1. UNCHANGED <<row, unrecorded>>
    BY <1>4 DEF RunHandler
  <2>2. \A k \in Keys \ {m} : Done(k)' = Done(k) /\ effects'[k] = effects[k]
    BY <1>0, <1>4, RunCases DEF Done, TypeOK
  <2>3. d \notin Done(m)
    BY <1>4, RunCases DEF Done
  <2>4. CASE exec'[d].outcome = "succeeded"
    <3>1. Done(m)' = Done(m) \cup {d} /\ effects'[m] = effects[m] + 1
      BY <1>0, <1>4, <2>4, RunCases DEF Done, TypeOK
    <3>2. IsFiniteSet(Done(m)') /\ Cardinality(Done(m)') = Cardinality(Done(m)) + 1
      BY <1>0, <2>3, <3>1, FS_AddElement DEF BalanceInv
    <3>3. Cardinality(Done(m)) \in Nat /\ Recorded(m) \in Nat /\ unrecorded[m] \in Nat
      BY <1>0, FS_CardinalityType DEF BalanceInv, Recorded, TypeOK
    <3>4. \A k \in Keys : Recorded(k)' = Recorded(k) /\ unrecorded'[k] = unrecorded[k]
      BY <2>1 DEF Recorded
    <3>5. effects'[m] = Recorded(m) + unrecorded[m] + Cardinality(Done(m)')
      BY <1>0, <3>1, <3>2, <3>3 DEF BalanceInv
    <3> QED
      BY <2>2, <3>2, <3>4, <3>5 DEF BalanceInv
  <2>5. CASE exec'[d].outcome # "succeeded"
    <3>1. Done(m)' = Done(m)
      BY <1>4, <2>3, <2>5, RunCases DEF Done
    <3>2. effects'[m] = effects[m]
      BY <1>0, <1>4, <2>5, RunCases DEF TypeOK
    <3> QED
      BY <2>1, <2>2, <3>1, <3>2 DEF BalanceInv, Recorded
  <2> QED
    BY <2>4, <2>5
<1>5. ASSUME NEW d \in Deliveries, Record(d) PROVE BalanceInv'
  <2> DEFINE m == KeyFor(d)
  <2>1. UNCHANGED effects
    BY <1>5 DEF Record
  <2>2. \A k \in Keys \ {m} : Done(k)' = Done(k) /\ unrecorded'[k] = unrecorded[k] /\ row'[k] = row[k]
    BY <1>0, <1>5, RecordCases DEF Done, TypeOK
  <2>3. \A k \in Keys \ {m} : Recorded(k)' = Recorded(k)
    BY <2>2 DEF Recorded
  <2>4. /\ m \in Keys /\ IsFiniteSet(Done(m)) /\ Cardinality(Done(m)) \in Nat
        /\ Recorded(m) \in Nat /\ unrecorded[m] \in Nat
        /\ effects[m] = Recorded(m) + unrecorded[m] + Cardinality(Done(m))
    BY <1>0, FS_CardinalityType DEF BalanceInv, Recorded, TypeOK
  <2>5. exec[d].session => Recorded(m) = 0
    BY <1>5, RecordCases DEF LockInv, Working, Recorded
  <2>6. Done(m)' = Done(m) \ {d}
    BY <1>5, RecordCases DEF Done
  <2>7. /\ IsFiniteSet(Done(m)')
        /\ Cardinality(Done(m)') = IF d \in Done(m) THEN Cardinality(Done(m)) - 1
                                                    ELSE Cardinality(Done(m))
    BY <2>4, <2>6, FS_RemoveElement
  <2>8. Recorded(m)' + unrecorded'[m] + Cardinality(Done(m)')
          = Recorded(m) + unrecorded[m] + Cardinality(Done(m))
    <3>1. CASE exec[d].outcome = "succeeded"
      <4>1. d \in Done(m)
        BY <1>5, <3>1, RecordCases DEF Done
      <4>2. \/ unrecorded'[m] = unrecorded[m] /\ Recorded(m) = 0 /\ Recorded(m)' = 1
            \/ unrecorded'[m] = unrecorded[m] + 1 /\ Recorded(m)' = Recorded(m)
        BY <1>5, <2>4, <2>5, <3>1, RecordCases DEF Recorded, TypeOK
      <4> QED
        BY <2>4, <2>7, <4>1, <4>2
    <3>2. CASE exec[d].outcome # "succeeded"
      <4>1. d \notin Done(m)
        BY <3>2 DEF Done
      <4>2. unrecorded'[m] = unrecorded[m] /\ Recorded(m)' = Recorded(m)
        BY <1>5, <2>4, <2>5, <3>2, RecordCases DEF Recorded, TypeOK
      <4> QED
        BY <2>4, <2>7, <4>1, <4>2
    <3> QED
      BY <3>1, <3>2
  <2> QED
    BY <2>1, <2>2, <2>3, <2>4, <2>7, <2>8 DEF BalanceInv
<1>6. ASSUME NEW d \in Deliveries, Settle(d) PROVE BalanceInv'
  <2>1. \A k \in Keys : Done(k)' = Done(k)
    BY <1>6, SettleCases DEF Done
  <2> QED
    BY <1>6, <2>1, SettleCases DEF BalanceInv, Recorded
<1>7. ASSUME NEW d \in Deliveries, LoseSession(d) PROVE BalanceInv'
  <2>1. \A k \in Keys : Done(k)' = Done(k)
    BY <1>7, LoseSessionCases DEF Done
  <2> QED
    BY <1>7, <2>1, LoseSessionCases DEF BalanceInv, Recorded
<1>8. ASSUME NEW i \in Instances, Crash(i) PROVE BalanceInv'
  <2> DEFINE dead == {d \in Deliveries : Alive(d) /\ exec[d].on = i}
             lost(k) == {d \in dead : KeyFor(d) = k /\ exec[d].phase = "ran"
                                      /\ exec[d].outcome = "succeeded"}
  <2>1. UNCHANGED <<row, effects>> /\ \A k \in Keys : unrecorded'[k] = unrecorded[k] + Cardinality(lost(k))
    BY <1>8 DEF Crash
  <2>2. ASSUME NEW k \in Keys
        PROVE  /\ IsFiniteSet(Done(k)')
               /\ effects'[k] = Recorded(k)' + unrecorded'[k] + Cardinality(Done(k)')
    <3>1. Done(k) \cap dead = lost(k)
      BY DEF Done
    <3>2. Done(k)' = Done(k) \ dead
      BY <1>8, CrashCases DEF Done
    <3>3. /\ IsFiniteSet(Done(k)) /\ Cardinality(Done(k)) \in Nat
          /\ effects[k] = Recorded(k) + unrecorded[k] + Cardinality(Done(k))
          /\ Recorded(k) \in Nat /\ unrecorded[k] \in Nat
      BY FS_CardinalityType DEF BalanceInv, Recorded, TypeOK
    <3>4. IsFiniteSet(lost(k)) /\ Cardinality(lost(k)) \in Nat
      BY <3>1, <3>3, FS_Subset, FS_CardinalityType
    <3>5. /\ IsFiniteSet(Done(k) \ dead)
          /\ Cardinality(Done(k) \ dead) = Cardinality(Done(k)) - Cardinality(Done(k) \cap dead)
      BY <3>3, FS_Difference
    <3> HIDE DEF dead, lost
    <3>6. Recorded(k)' = Recorded(k)
      BY <2>1 DEF Recorded
    <3>7. /\ IsFiniteSet(Done(k)')
          /\ Cardinality(Done(k)') = Cardinality(Done(k)) - Cardinality(lost(k))
      BY <3>1, <3>2, <3>5
    <3>8. effects'[k] = effects[k] /\ unrecorded'[k] = unrecorded[k] + Cardinality(lost(k))
      BY <2>1
    <3> QED
      BY <3>3, <3>4, <3>6, <3>7, <3>8
  <2> QED
    BY <2>2 DEF BalanceInv
<1> QED
  BY <1>1, <1>2, <1>3, <1>4, <1>5, <1>6, <1>7, <1>8 DEF Next, Deliver

-------------------------------------------------------------------------------
(* The theorems                                                            *)

LEMMA IInvInitial == Init => IInv
<1> SUFFICES ASSUME Init PROVE IInv
  OBVIOUS
<1>1. \A d \in Deliveries : exec[d] = NoExec
  BY DEF Init
<1>2. RanInv /\ FetchInv /\ LockInv
  BY <1>1 DEF RanInv, FetchInv, LockInv, NoExec, Working
<1>3. \A k \in Keys : Done(k) = {}
  BY <1>1 DEF Done, NoExec
<1>4. BalanceInv
  BY <1>3, FS_EmptySet DEF Init, BalanceInv, Recorded
<1> QED
  BY <1>2, <1>4, InitTyped DEF IInv

LEMMA IInvStep == IInv /\ [Next]_vars => IInv'
<1> SUFFICES ASSUME IInv, [Next]_vars PROVE IInv'
  OBVIOUS
<1>1. CASE UNCHANGED vars
  <2>1. TypeOK' /\ RanInv' /\ FetchInv' /\ LockInv'
    BY <1>1 DEF IInv, vars, TypeOK, RanInv, FetchInv, LockInv, Working
  <2>2. BalanceInv'
    BY <1>1 DEF IInv, vars, BalanceInv, Recorded, Done
  <2> QED
    BY <2>1, <2>2 DEF IInv
<1>2. CASE Next
  <2>1. TypeOK'
    BY <1>2, FetchTyped, ExpireTyped, DeliverTyped, FaultTyped DEF IInv, Next, BalanceInv
  <2> QED
    BY <1>2, <2>1, RanStep, FetchInvStep, LockStep, BalanceStep DEF IInv
<1> QED
  BY <1>1, <1>2

LEMMA IInvAlways == Spec => []IInv
BY IInvInitial, IInvStep, PTL DEF Spec

\* The queue's rows, the idempotency rows and the state of every delivery keep
\* their types.
THEOREM TypeCorrect == Spec => []TypeOK
<1>1. IInv => TypeOK
  BY DEF IInv
<1> QED
  BY <1>1, IInvAlways, PTL

\* Two handlers of one key work side by side only when the connection that held
\* the lock of one of them was lost: for every number of workers, jobs, shared
\* keys, retries and faults.
THEOREM HandlersExcludeEachOther == Spec => []OneAtATime
<1>1. IInv => OneAtATime
  BY DEF IInv, LockInv, OneAtATime, TypeOK
<1> QED
  BY <1>1, IInvAlways, PTL

\* A run is recorded at most once, so that a key's handler did its work at most
\* once more often than faults kept it from being recorded.
LEMMA BalanceExplains == IInv => RepeatsExplained
<1> SUFFICES ASSUME IInv, NEW k \in Keys
             PROVE  effects[k] <= 1 + unrecorded[k]
                      + Cardinality({d \in Deliveries :
                          KeyFor(d) = k /\ exec[d].phase = "ran"
                          /\ exec[d].outcome = "succeeded" /\ ~exec[d].session})
  BY DEF RepeatsExplained
<1> DEFINE away == {d \in Deliveries : KeyFor(d) = k /\ exec[d].phase = "ran"
                      /\ exec[d].outcome = "succeeded" /\ ~exec[d].session}
           held == {d \in Done(k) : exec[d].session}
<1>1. /\ IsFiniteSet(Done(k)) /\ Cardinality(Done(k)) \in Nat
      /\ effects[k] = Recorded(k) + unrecorded[k] + Cardinality(Done(k))
      /\ unrecorded[k] \in Nat /\ Recorded(k) \in {0, 1}
  BY FS_CardinalityType DEF IInv, BalanceInv, TypeOK, Recorded
<1>2. /\ away \subseteq Done(k) /\ held \subseteq Done(k)
      /\ Done(k) = away \cup held /\ away \cap held = {}
  BY DEF Done, IInv, TypeOK
<1>3. IsFiniteSet(away) /\ IsFiniteSet(held)
  BY <1>1, <1>2, FS_Subset
<1>4. Cardinality(Done(k)) = Cardinality(away) + Cardinality(held)
  <2>1. Cardinality(Done(k)) = Cardinality(away) + Cardinality(held) - Cardinality(away \cap held)
    BY <1>2, <1>3, FS_Union
  <2>2. Cardinality(away \cap held) = 0
    BY <1>2, FS_EmptySet
  <2>3. Cardinality(away) \in Nat /\ Cardinality(held) \in Nat
    BY <1>3, FS_CardinalityType
  <2> HIDE DEF away, held
  <2> QED
    BY <2>1, <2>2, <2>3
<1>5. Recorded(k) + Cardinality(held) <= 1
  <2>1. CASE held = {}
    BY <1>1, <2>1, FS_EmptySet
  <2>2. CASE held # {}
    <3>1. PICK d : d \in held
      BY <2>2
    <3>2. \A e \in held : e = d
      BY <3>1 DEF IInv, LockInv, Done, Working
    <3>3. held = {d}
      BY <3>1, <3>2
    <3>4. Cardinality(held) = 1
      BY <3>3, FS_Singleton
    <3>5. row[k] = "running"
      BY <3>1 DEF IInv, LockInv, Done, Working
    <3> QED
      BY <3>4, <3>5 DEF Recorded
  <2> QED
    BY <2>1, <2>2
<1>6. Cardinality(away) \in Nat /\ Cardinality(held) \in Nat
  BY <1>3, FS_CardinalityType
<1> HIDE DEF away, held
<1>7. effects[k] <= 1 + unrecorded[k] + Cardinality(away)
  BY <1>1, <1>4, <1>5, <1>6
<1> QED
  BY <1>7 DEF away

\* A handler is run again after it did its work only where a crash, a lost
\* connection or a failing statement kept that work from being recorded, one
\* repetition for each.
THEOREM RepeatsAreExplained == Spec => []RepeatsExplained
BY BalanceExplains, IInvAlways, PTL
====
