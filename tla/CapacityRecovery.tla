--------------------------- MODULE CapacityRecovery ---------------------------
(***************************************************************************)
(* The capacity-recovery job of the worker                                 *)
(* (apps/worker/src/jobs/capacity-recovery.ts) running beside the          *)
(* transactions of SeatPool: runs claim the due work of the outbox under a *)
(* lease, resume blocked requests under the lock of the pool, and mark the *)
(* work completed if the lease is still theirs.  Runs may fail between any *)
(* two steps, and a lease may run out under a run that is still alive.     *)
(***************************************************************************)
EXTENDS SeatPool

CONSTANT MaxFaults     \* bound: runs that fail, crash or outlive their lease

ASSUME FaultsAssumption == MaxFaults \in Nat

VARIABLES
  drain,    \* what each run of the job knows
  lease,    \* lease_token and whether lease_expires_at has passed, per work row
  faults    \* how many runs have failed, crashed or outlived a lease

recoveryVars == <<drain, lease, faults>>
allVars == <<vars, recoveryVars>>

DrainState ==
  {Idle}
  \cup [phase : {"claimed"}, at : Times, todo : SUBSET Days]
  \cup [phase : {"evaluated"}, at : Times, todo : SUBSET Days, day : Days,
         picks : SUBSET Requests, skipped : SUBSET Requests]
  \cup [phase : {"recovered"}, at : Times, todo : SUBSET Days, day : Days]

NoLease == [token |-> Nobody, expired |-> FALSE]

RecoveryTypeOK ==
  /\ TypeOK
  /\ drain \in [Recoverers -> DrainState]
  /\ lease \in [Days -> [token : Recoverers \cup {Nobody}, expired : BOOLEAN]]
  /\ faults \in 0..MaxFaults

-------------------------------------------------------------------------------

\* available_at = the later of created_at and the first instant of the day.
Due(d, at) == work[d].createdAt <= at /\ d <= OperatingDay[at]

\* Mutant: work whose run died is never claimed again.
ClaimableOnce(d, at) == Due(d, at) /\ work[d].status = "pending"

Claimable(d, at) ==
  /\ Due(d, at)
  /\ \/ work[d].status = "pending"
     \/ work[d].status = "processing" /\ lease[d].expired

\* One statement claims the due rows that nobody holds (at most ten; an instance
\* has fewer days); at is the time the job was enqueued, a retried job keeps it.
Claim(c, at) ==
  LET claimed == {d \in Days : Claimable(d, at)} IN
  /\ drain[c] = Idle
  /\ at <= now
  /\ claimed # {}
  /\ drain' = [drain EXCEPT ![c] = [phase |-> "claimed", at |-> at, todo |-> claimed]]
  /\ work' = [d \in Days |->
       IF d \in claimed THEN [work[d] EXCEPT !.status = "processing"] ELSE work[d]]
  /\ lease' = [d \in Days |->
       IF d \in claimed THEN [token |-> c, expired |-> FALSE] ELSE lease[d]]
  /\ UNCHANGED <<now, request, action, assignment, capacity, session, poolLock, faults>>

Blocked == {r \in Requests : request[r] = "blocked_no_seat"}

\* Those whose rows no other transaction holds (SKIP LOCKED).
Lockable(held) == Blocked \ held

\* Mutant: every blocked request is resumed, however few seats are free.
WithoutLimit(n, held) == IF n > 0 THEN Lockable(held) ELSE {}
\* Mutant: the newest blocked requests first.
Newest(n, held) ==
  {r \in Lockable(held) : Cardinality({q \in Lockable(held) : q > r}) < n}
\* Mutant: one seat is always left idle.
AllButOne(n, held) ==
  {r \in Lockable(held) : Cardinality({q \in Lockable(held) : q < r}) < n - 1}

\* The n oldest of them, or all of them.
Oldest(n, held) ==
  {r \in Lockable(held) : Cardinality({q \in Lockable(held) : q < r}) < n}

\* held: the rows of blocked requests that another transaction has locked at this
\* moment, be it a command that will find its request blocked and refuse, or an
\* insert that refers to the request.  Without a free seat nothing is selected.
Recover(c, d) ==
  LET run == drain[c]
      n   == Free(OperatingDay[run.at])
  IN
  /\ run.phase = "claimed"
  /\ d \in run.todo
  /\ PoolFree
  /\ \E held \in IF n > 0 THEN SUBSET Blocked ELSE {{}} :
       /\ drain' = [drain EXCEPT ![c] =
            [phase |-> "evaluated", at |-> run.at, todo |-> run.todo \ {d},
             day |-> d, picks |-> Oldest(n, held), skipped |-> held]]
       /\ poolLock' = [owner |-> c, rows |-> Oldest(n, held)]
  /\ UNCHANGED <<now, request, action, assignment, capacity, work, session, lease, faults>>

\* Every picked request gets its pending action in the one transaction.
CommitRecovery(c) ==
  LET run == drain[c] IN
  /\ run.phase = "evaluated"
  /\ \E kindOf \in [run.picks -> Kinds] :
       /\ \A r \in run.picks : Plannable(r, kindOf[r])
       /\ action' = [r \in Requests |->
            IF r \notin run.picks THEN action[r]
            ELSE [action[r] EXCEPT ![NextAttempt(r)] = Issued(kindOf[r], run.at)]]
  /\ request' = [r \in Requests |->
       IF r \in run.picks THEN "provisioning" ELSE request[r]]
  /\ drain' = [drain EXCEPT ![c] =
       [phase |-> "recovered", at |-> run.at, todo |-> run.todo, day |-> run.day]]
  /\ poolLock' = Unlocked
  /\ UNCHANGED <<now, assignment, capacity, work, session, lease, faults>>

\* Only the holder of the lease completes the work.
Complete(c) ==
  LET run == drain[c]
      held == lease[run.day].token = c
  IN
  /\ run.phase = "recovered"
  /\ work' = IF held THEN [work EXCEPT ![run.day].status = "completed"] ELSE work
  /\ lease' = IF held THEN [lease EXCEPT ![run.day] = NoLease] ELSE lease
  /\ drain' = [drain EXCEPT ![c] =
       IF run.todo = {} THEN Idle
       ELSE [phase |-> "claimed", at |-> run.at, todo |-> run.todo]]
  /\ UNCHANGED <<now, request, action, assignment, capacity, session, poolLock, faults>>

Unlock(c) == poolLock' = IF poolLock.owner = c THEN Unlocked ELSE poolLock

\* A token that died with its run: nobody matches it, and it runs out in time.
Orphaned(days) ==
  [d \in Days |-> IF d \in days THEN [lease[d] EXCEPT !.token = Nobody] ELSE lease[d]]
HeldBy(c) == {d \in Days : lease[d].token = c}

\* recover or the completing UPDATE throws: this work goes back to pending if the
\* lease is still held; the error leaves the loop, so the rest stays claimed.
RecoveryFails(c) ==
  LET run == drain[c] IN
  /\ run.phase \in {"claimed", "evaluated", "recovered"}
  /\ faults < MaxFaults                            \* bound: MaxFaults
  /\ \E d \in IF run.phase = "claimed" THEN run.todo ELSE {run.day} :
       IF lease[d].token = c
       THEN /\ work' = [work EXCEPT ![d].status = "pending"]
            /\ lease' = [Orphaned(HeldBy(c)) EXCEPT ![d] = NoLease]
       ELSE lease' = Orphaned(HeldBy(c)) /\ UNCHANGED work
  /\ drain' = [drain EXCEPT ![c] = Idle]
  /\ Unlock(c)
  /\ faults' = faults + 1
  /\ UNCHANGED <<now, request, action, assignment, capacity, session>>

\* The worker process dies; its transaction rolls back, its leases remain.
CrashWorker(c) ==
  /\ drain[c] # Idle
  /\ faults < MaxFaults                            \* bound: MaxFaults
  /\ drain' = [drain EXCEPT ![c] = Idle]
  /\ lease' = Orphaned(HeldBy(c))
  /\ Unlock(c)
  /\ faults' = faults + 1
  /\ UNCHANGED <<now, request, action, assignment, capacity, work, session>>

\* Five minutes pass: over a lease whose run is gone, or under a run that takes
\* longer than that, which counts as a fault.
ExpireLease(d) ==
  /\ work[d].status = "processing"
  /\ ~lease[d].expired
  /\ \/ lease[d].token = Nobody /\ UNCHANGED faults
     \/ /\ lease[d].token # Nobody
        /\ faults < MaxFaults                      \* bound: MaxFaults
        /\ faults' = faults + 1
  /\ lease' = [lease EXCEPT ![d].expired = TRUE]
  /\ UNCHANGED <<vars, drain>>

-------------------------------------------------------------------------------

RecoveryInit ==
  /\ Init
  /\ drain = [c \in Recoverers |-> Idle]
  /\ lease = [d \in Days |-> NoLease]
  /\ faults = 0

DrainStep(c) ==
  \/ \E at \in Times : Claim(c, at)
  \/ \E d \in Days : Recover(c, d)
  \/ CommitRecovery(c) \/ Complete(c) \/ RecoveryFails(c) \/ CrashWorker(c)

RecoveryNext ==
  \/ PoolNext /\ UNCHANGED recoveryVars
  \/ \E c \in Recoverers : DrainStep(c)
  \/ \E d \in Days : ExpireLease(d)

RecoverySpec == RecoveryInit /\ [][RecoveryNext]_allVars

\* The job is scheduled again and again, its statements end, leases run out,
\* transactions close, and PostgreSQL serves the waiters of an advisory lock in
\* turn (hence strong fairness for the step that needs the lock).
Closes(s) == session[s].phase = "evaluated" /\ SessionStep(s)

RecoveryFairness ==
  /\ \A c \in Recoverers :
       /\ WF_allVars(Claim(c, now))
       /\ SF_allVars(\E d \in Days : Recover(c, d))
       /\ WF_allVars(CommitRecovery(c))
       /\ WF_allVars(Complete(c))
  /\ \A d \in Days : WF_allVars(lease[d].token = Nobody /\ ExpireLease(d))
  /\ \A s \in Sessions : WF_allVars(Closes(s) /\ UNCHANGED recoveryVars)

FairRecoverySpec == RecoverySpec /\ RecoveryFairness

-------------------------------------------------------------------------------
(* Properties *)

\* A run that resumes requests never over-commits the pool on the operating day
\* of its clock, with other runs, stale runs and stale approvals around it.
RecoveryFits ==
  [][\A c \in Recoverers, at \in Times :
       /\ drain[c].phase = "evaluated" /\ drain'[c].phase = "recovered"
       /\ drain[c].picks # {} /\ drain[c].at = at
       => Free(OperatingDay[at])' >= 0]_allVars

\* Without releases between its count and its commit, a run leaves no request
\* blocked while the pool has a free seat on the operating day of its clock, save
\* the requests whose rows another transaction held when the run selected.
UsesEverySeat ==
  \A c \in Recoverers, at \in Times :
    /\ drain[c].phase = "evaluated" /\ drain'[c].phase = "recovered"
    /\ drain[c].at = at
    => Blocked' \subseteq drain[c].skipped \/ Free(OperatingDay[at])' <= 0

\* The provider has refused an invitation of the request for want of seats.
Refused(r) == \E k \in Attempts : action[r][k].reason = "capacity_unavailable"

\* The run that chose r passed q over, because another transaction held its row.
PassedOver(q, r) ==
  \E c \in Recoverers : /\ drain[c].phase = "evaluated"
                        /\ r \in drain[c].picks /\ q \in drain[c].skipped

\* Blocked requests are resumed in the order they were created: no step takes
\* one out of the queue for provisioning while an older one stays, with two
\* exceptions.  The row of the older one was held when the run selected (SKIP
\* LOCKED), or the provider has refused it: a refusal does not wait for the lock
\* of the pool, and may put its request back behind the choice of a run.
ResumeInOrder ==
  [][\A q, r \in Requests :
       /\ q < r /\ request[q] = "blocked_no_seat" /\ request[r] = "blocked_no_seat"
       /\ request'[r] = "provisioning"
       => request'[q] # "blocked_no_seat" \/ Refused(q) \/ PassedOver(q, r)]_allVars

\* Work that is due is completed in the end: by its run, or by another after
\* its run failed, died, or lost its lease.
DueWorkCompletes ==
  \A d \in Days :
    work[d].status \in {"pending", "processing"} /\ Due(d, now)
      ~> work[d].status = "completed"

\* The story's promise (r1_misc_us_023, AC3): a request does not stay blocked
\* for ever while its pool has a free seat.
BlockedAutoResume ==
  ~ <>[](Blocked # {} /\ Free(OperatingDay[now]) > 0)
===============================================================================
