------------------------ MODULE CapacityRecoveryProofs ------------------------
(***************************************************************************)
(* The pool with the recovery job beside the transactions of the web, for  *)
(* every number of requests, sessions and runs.  What SeatPoolProofs       *)
(* proves of the pool alone still holds, and a run resumes the oldest      *)
(* requests it can lock, without over-committing the pool and, where       *)
(* nothing is released, without leaving a seat idle (a scenario of         *)
(* MCCapacityRecovery, which is why this module extends it).               *)
(***************************************************************************)
EXTENDS MCCapacityRecovery, SeatPoolProofs

-------------------------------------------------------------------------------
(* The oldest n of the queue *)

LEMMA LockableFinite ==
  ASSUME NEW held, NEW r \in Requests
  PROVE  /\ IsFiniteSet(Lockable(held))
         /\ IsFiniteSet({q \in Lockable(held) : q < r})
         /\ Cardinality({q \in Lockable(held) : q < r}) \in Nat
<1>1. IsFiniteSet(Lockable(held))
  BY RequestsAssumption, FS_Subset DEF Lockable, Blocked
<1>2. IsFiniteSet({q \in Lockable(held) : q < r})
  BY <1>1, FS_Subset
<1> QED
  BY <1>1, <1>2, FS_CardinalityType

LEMMA OlderTransitive ==
  ASSUME NEW held, NEW q \in Nat, NEW r \in Nat, q < r, Lockable(held) \subseteq Nat
  PROVE  {b \in Lockable(held) : b < q} \subseteq {b \in Lockable(held) : b < r}
<1>1. \A b \in Lockable(held) : b < q => b < r
  <2> SUFFICES ASSUME NEW b \in Lockable(held), b < q PROVE b < r
    OBVIOUS
  <2>1. b \in Nat
    OBVIOUS
  <2> QED
    BY <2>1
<1> QED
  BY <1>1

\* A request older than one of the oldest n is itself one of them.
LEMMA OldestFirst ==
  ASSUME NEW n \in Int, NEW held, NEW r \in Oldest(n, held), NEW q \in Lockable(held), q < r
  PROVE  q \in Oldest(n, held)
<1> DEFINE Before(p) == {b \in Lockable(held) : b < p}
<1>1. q \in Nat /\ r \in Nat /\ q \in Requests /\ r \in Requests /\ Lockable(held) \subseteq Nat
  BY RequestsAssumption DEF Oldest, Lockable, Blocked
<1>2. Before(q) \subseteq Before(r)
  BY <1>1, OlderTransitive
<1>3. /\ IsFiniteSet(Before(r))
      /\ Cardinality(Before(q)) \in Nat /\ Cardinality(Before(r)) \in Nat
  BY <1>1, LockableFinite
<1>4. Cardinality(Before(r)) < n
  BY DEF Oldest
<1>5. Cardinality(Before(q)) <= Cardinality(Before(r))
  <2> HIDE DEF Before
  <2> QED
    BY <1>2, <1>3, FS_Subset
<1>6. Cardinality(Before(q)) < n
  <2> HIDE DEF Before
  <2> QED
    BY <1>3, <1>4, <1>5
<1> QED
  BY <1>6 DEF Oldest

\* They are at most n: no two have the same number of older requests.
LEMMA OldestFew ==
  ASSUME NEW n \in Int, NEW held, Oldest(n, held) # {}
  PROVE  /\ IsFiniteSet(Oldest(n, held))
         /\ Cardinality(Oldest(n, held)) \in Nat
         /\ Cardinality(Oldest(n, held)) <= n
<1> DEFINE Before(p) == {b \in Lockable(held) : b < p}
           rank == [p \in Oldest(n, held) |-> Cardinality(Before(p))]
<1>1. Oldest(n, held) \subseteq Requests /\ Oldest(n, held) \subseteq Lockable(held)
  BY DEF Oldest, Lockable, Blocked
<1>2. Requests \subseteq Nat /\ Lockable(held) \subseteq Nat
  BY RequestsAssumption DEF Lockable, Blocked
<1>3. \A p \in Oldest(n, held) : /\ IsFiniteSet(Before(p))
                                 /\ Cardinality(Before(p)) \in Nat
                                 /\ Cardinality(Before(p)) < n
  BY <1>1, LockableFinite DEF Oldest
<1>4. n \in Nat
  <2>1. PICK p \in Oldest(n, held) : TRUE
    OBVIOUS
  <2>2. Cardinality(Before(p)) \in Nat /\ Cardinality(Before(p)) < n
    BY <1>3
  <2> HIDE DEF Before
  <2> QED
    BY <2>2
<1>5. IsFiniteSet(Oldest(n, held)) /\ Cardinality(Oldest(n, held)) \in Nat
  <2>1. IsFiniteSet(Oldest(n, held))
    BY <1>1, RequestsAssumption, FS_Subset
  <2> QED
    BY <2>1, FS_CardinalityType
<1>6. rank \in [Oldest(n, held) -> 0..(n - 1)]
  <2> HIDE DEF Before
  <2> QED
    BY <1>3
<1>7. ASSUME NEW p \in Oldest(n, held), NEW q \in Oldest(n, held), p < q
      PROVE  Cardinality(Before(p)) < Cardinality(Before(q))
  <2>1. p \in Nat /\ q \in Nat /\ p \in Lockable(held)
    BY <1>1, <1>2
  <2>2. Before(p) \subseteq Before(q)
    BY <1>2, <1>7, <2>1, OlderTransitive
  <2>8. p \in Before(q) /\ p \notin Before(p)
    BY <1>7, <2>1
  <2> HIDE DEF Before
  <2>3. IsFiniteSet(Before(p)) /\ IsFiniteSet(Before(q))
    BY <1>3
  <2>4. IsFiniteSet(Before(p) \cup {p})
        /\ Cardinality(Before(p) \cup {p}) = Cardinality(Before(p)) + 1
    BY <2>3, <2>8, FS_AddElement
  <2>5. Before(p) \cup {p} \subseteq Before(q)
    BY <2>2, <2>8
  <2>6. Cardinality(Before(p) \cup {p}) <= Cardinality(Before(q))
    BY <2>3, <2>5, FS_Subset
  <2>7. Cardinality(Before(p)) \in Nat /\ Cardinality(Before(q)) \in Nat
    BY <1>3
  <2> QED
    BY <2>4, <2>6, <2>7
<1>8. \A p, q \in Oldest(n, held) : p # q => rank[p] # rank[q]
  <2> SUFFICES ASSUME NEW p \in Oldest(n, held), NEW q \in Oldest(n, held), p # q
               PROVE  rank[p] # rank[q]
    OBVIOUS
  <2>1. p \in Nat /\ q \in Nat
    BY <1>1, <1>2
  <2>2. p < q \/ q < p
    BY <2>1
  <2>3. Cardinality(Before(p)) \in Nat /\ Cardinality(Before(q)) \in Nat
    BY <1>3
  <2>4. rank[p] = Cardinality(Before(p)) /\ rank[q] = Cardinality(Before(q))
    OBVIOUS
  <2> HIDE DEF Before, rank
  <2> QED
    BY <1>7, <2>2, <2>3, <2>4
<1>9. IsFiniteSet(0..(n - 1)) /\ Cardinality(0..(n - 1)) = n
  <2>1. /\ IsFiniteSet(0..(n - 1))
        /\ Cardinality(0..(n - 1)) = IF 0 > n - 1 THEN 0 ELSE (n - 1) - 0 + 1
    BY <1>4, FS_Interval
  <2> QED
    BY <1>4, <2>1
<1> HIDE DEF rank
<1>10. ~(Cardinality(0..(n - 1)) < Cardinality(Oldest(n, held)))
  BY <1>5, <1>6, <1>8, <1>9, FS_PigeonHole
<1> QED
  BY <1>4, <1>5, <1>9, <1>10

-------------------------------------------------------------------------------
(* The steps of the job *)

\* Every step is one of the pool's, which leaves the runs alone (a lease that
\* expires stutters there), or one of a run.
LEMMA StepCases ==
  [RecoveryNext]_allVars =>
    ([PoolNext]_vars /\ drain' = drain) \/ \E c \in Recoverers : DrainStep(c)
BY DEF RecoveryNext, ExpireLease, allVars, recoveryVars

LEMMA DrainTyped ==
  ASSUME RecoveryTypeOK, NEW c \in Recoverers, drain[c] # Idle
  PROVE  /\ drain[c].phase \in {"claimed", "evaluated", "recovered"}
         /\ drain[c].at \in Times /\ drain[c].todo \in SUBSET Days
         /\ drain[c].phase \in {"evaluated", "recovered"} => drain[c].day \in Days
         /\ drain[c].phase = "evaluated" =>
              drain[c].picks \in SUBSET Requests /\ drain[c].skipped \in SUBSET Requests
BY DEF RecoveryTypeOK, DrainState, Idle

\* What a step of run c leaves alone.
LEMMA DrainFrame ==
  ASSUME RecoveryTypeOK, NEW c \in Recoverers, DrainStep(c)
  PROVE  /\ UNCHANGED <<now, assignment, capacity, session>>
         /\ CommitRecovery(c) \/ UNCHANGED <<request, action>>
         /\ \A b \in Recoverers \ {c} : drain'[b] = drain[b]
         /\ \/ CommitRecovery(c)
            \/ \E d \in Days : Recover(c, d)
            \/ UNCHANGED poolLock
            \/ Unlock(c)
BY DEF RecoveryTypeOK, DrainStep, Claim, Recover, CommitRecovery, Complete, RecoveryFails,
       CrashWorker

LEMMA ResumeTyped ==
  ASSUME RecoveryTypeOK, NEW c \in Recoverers, CommitRecovery(c)
  PROVE  /\ action' \in [Requests -> [Attempts -> ActionRow]]
         /\ request' \in [Requests -> RequestState]
<1> DEFINE run == drain[c]
<1>1. run.phase = "evaluated" /\ run.at \in Times
  BY DrainTyped DEF CommitRecovery, Idle
<1>2. PICK kindOf \in [run.picks -> Kinds] :
        action' = [r \in Requests |->
            IF r \notin run.picks THEN action[r]
            ELSE [action[r] EXCEPT ![NextAttempt(r)] = Issued(kindOf[r], run.at)]]
  BY DEF CommitRecovery
<1>3. \A r \in run.picks : Issued(kindOf[r], run.at) \in ActionRow
  BY <1>1, KindsAssumption DEF Issued, ActionRow
<1>4. action' \in [Requests -> [Attempts -> ActionRow]]
  BY <1>2, <1>3 DEF RecoveryTypeOK, TypeOK
<1>5. request' \in [Requests -> RequestState]
  BY DEF CommitRecovery, RecoveryTypeOK, TypeOK, RequestState
<1> QED
  BY <1>4, <1>5

LEMMA RecoveryInitTyped == RecoveryInit => RecoveryTypeOK
BY InitTyped, FaultsAssumption
DEF RecoveryInit, RecoveryTypeOK, DrainState, NoLease

\* What a run chooses under the lock: the oldest of the requests it could lock.
LEMMA ChoiceOf ==
  ASSUME NEW c \in Recoverers, NEW d \in Days, Recover(c, d)
  PROVE  \E held \in SUBSET Requests, picks \in SUBSET Requests :
           /\ picks = Oldest(Free(OperatingDay[drain[c].at]), held)
           /\ drain' = [drain EXCEPT ![c] =
                [phase |-> "evaluated", at |-> drain[c].at, todo |-> drain[c].todo \ {d},
                 day |-> d, picks |-> picks, skipped |-> held]]
           /\ poolLock' = [owner |-> c, rows |-> picks]
<1> DEFINE n == Free(OperatingDay[drain[c].at])
<1>1. PICK held \in SUBSET Requests :
        /\ drain' = [drain EXCEPT ![c] =
             [phase |-> "evaluated", at |-> drain[c].at, todo |-> drain[c].todo \ {d},
              day |-> d, picks |-> Oldest(n, held), skipped |-> held]]
        /\ poolLock' = [owner |-> c, rows |-> Oldest(n, held)]
  BY DEF Recover, Blocked
<1>2. Oldest(n, held) \in SUBSET Requests
  BY DEF Oldest, Lockable, Blocked
<1> QED
  BY <1>1, <1>2

LEMMA DrainStepTyped ==
  ASSUME RecoveryTypeOK, NEW c \in Recoverers, DrainStep(c)
  PROVE  RecoveryTypeOK'
<1>0. /\ drain \in [Recoverers -> DrainState] /\ faults \in 0..MaxFaults /\ MaxFaults \in Nat
      /\ lease \in [Days -> [token : Recoverers \cup {Nobody}, expired : BOOLEAN]]
      /\ TypeOK
  BY FaultsAssumption DEF RecoveryTypeOK
<1>1. ASSUME NEW at \in Times, Claim(c, at) PROVE RecoveryTypeOK'
  <2>1. drain' \in [Recoverers -> DrainState]
    BY <1>0, <1>1 DEF Claim, DrainState
  <2>2. work' \in [Days -> WorkRow]
    BY <1>0, <1>1 DEF Claim, TypeOK, WorkRow
  <2>3. lease' \in [Days -> [token : Recoverers \cup {Nobody}, expired : BOOLEAN]]
    BY <1>0, <1>1 DEF Claim
  <2> QED
    BY <1>0, <1>1, <2>1, <2>2, <2>3 DEF Claim, RecoveryTypeOK, TypeOK
<1>2. ASSUME NEW d \in Days, Recover(c, d) PROVE RecoveryTypeOK'
  <2>1. /\ drain[c].at \in Times /\ drain[c].todo \in SUBSET Days
    BY <1>2, DrainTyped DEF Recover, Idle
  <2>2. PICK held \in SUBSET Requests, picks \in SUBSET Requests :
          /\ drain' = [drain EXCEPT ![c] =
               [phase |-> "evaluated", at |-> drain[c].at, todo |-> drain[c].todo \ {d},
                day |-> d, picks |-> picks, skipped |-> held]]
          /\ poolLock' = [owner |-> c, rows |-> picks]
    BY <1>2, ChoiceOf
  <2>3. drain' \in [Recoverers -> DrainState]
    BY <1>0, <2>1, <2>2 DEF DrainState
  <2>4. poolLock' \in [owner : Owners \cup {Nobody}, rows : SUBSET Requests]
    BY <2>2 DEF Owners
  <2> QED
    BY <1>0, <1>2, <2>3, <2>4 DEF Recover, RecoveryTypeOK, TypeOK
<1>3. ASSUME CommitRecovery(c) PROVE RecoveryTypeOK'
  <2>1. /\ drain[c].at \in Times /\ drain[c].todo \in SUBSET Days /\ drain[c].day \in Days
    BY <1>3, DrainTyped DEF CommitRecovery, Idle
  <2>2. drain' \in [Recoverers -> DrainState]
    BY <1>0, <1>3, <2>1 DEF CommitRecovery, DrainState
  <2>3. poolLock' \in [owner : Owners \cup {Nobody}, rows : SUBSET Requests]
    BY <1>3 DEF CommitRecovery, Unlocked
  <2> QED
    BY <1>0, <1>3, <2>2, <2>3, ResumeTyped DEF CommitRecovery, RecoveryTypeOK, TypeOK
<1>4. ASSUME Complete(c) PROVE RecoveryTypeOK'
  <2>1. /\ drain[c].at \in Times /\ drain[c].todo \in SUBSET Days /\ drain[c].day \in Days
    BY <1>4, DrainTyped DEF Complete, Idle
  <2>2. drain' \in [Recoverers -> DrainState]
    BY <1>0, <1>4, <2>1 DEF Complete, DrainState
  <2>3. work' \in [Days -> WorkRow]
    BY <1>0, <1>4, <2>1 DEF Complete, TypeOK, WorkRow
  <2>4. lease' \in [Days -> [token : Recoverers \cup {Nobody}, expired : BOOLEAN]]
    BY <1>0, <1>4 DEF Complete, NoLease
  <2> QED
    BY <1>0, <1>4, <2>2, <2>3, <2>4 DEF Complete, RecoveryTypeOK, TypeOK
<1>5. drain' = [drain EXCEPT ![c] = Idle] => drain' \in [Recoverers -> DrainState]
  BY <1>0 DEF DrainState
<1>6. Unlock(c) => poolLock' \in [owner : Owners \cup {Nobody}, rows : SUBSET Requests]
  BY <1>0 DEF Unlock, Unlocked, TypeOK
<1>7. faults < MaxFaults /\ faults' = faults + 1 => faults' \in 0..MaxFaults
  BY <1>0
<1>8. \A days : Orphaned(days) \in [Days -> [token : Recoverers \cup {Nobody}, expired : BOOLEAN]]
  BY <1>0 DEF Orphaned
<1>9. ASSUME RecoveryFails(c) PROVE RecoveryTypeOK'
  <2>1. /\ lease' \in [Days -> [token : Recoverers \cup {Nobody}, expired : BOOLEAN]]
        /\ work' \in [Days -> WorkRow]
    <3>1. PICK d \in IF drain[c].phase = "claimed" THEN drain[c].todo ELSE {drain[c].day} :
            \/ /\ work' = [work EXCEPT ![d].status = "pending"]
               /\ lease' = [Orphaned(HeldBy(c)) EXCEPT ![d] = NoLease]
            \/ lease' = Orphaned(HeldBy(c)) /\ UNCHANGED work
      BY <1>9 DEF RecoveryFails
    <3>2. [Orphaned(HeldBy(c)) EXCEPT ![d] = NoLease]
            \in [Days -> [token : Recoverers \cup {Nobody}, expired : BOOLEAN]]
      BY <1>8 DEF NoLease
    <3>3. [work EXCEPT ![d].status = "pending"] \in [Days -> WorkRow]
      BY <1>0 DEF TypeOK, WorkRow
    <3>4. Orphaned(HeldBy(c)) \in [Days -> [token : Recoverers \cup {Nobody}, expired : BOOLEAN]]
      BY <1>8
    <3>5. work \in [Days -> WorkRow]
      BY <1>0 DEF TypeOK
    <3> QED
      BY <3>1, <3>2, <3>3, <3>4, <3>5
  <2> QED
    BY <1>0, <1>5, <1>6, <1>7, <1>9, <2>1 DEF RecoveryFails, RecoveryTypeOK, TypeOK
<1>10. ASSUME CrashWorker(c) PROVE RecoveryTypeOK'
  BY <1>0, <1>5, <1>6, <1>7, <1>8, <1>10 DEF CrashWorker, RecoveryTypeOK, TypeOK
<1> QED
  BY <1>1, <1>2, <1>3, <1>4, <1>9, <1>10 DEF DrainStep

LEMMA RecoveryStepTyped == RecoveryTypeOK /\ [RecoveryNext]_allVars => RecoveryTypeOK'
<1> SUFFICES ASSUME RecoveryTypeOK, [RecoveryNext]_allVars PROVE RecoveryTypeOK'
  OBVIOUS
<1>1. CASE PoolNext /\ UNCHANGED recoveryVars
  BY <1>1, StepTyped DEF RecoveryTypeOK, recoveryVars
<1>2. ASSUME NEW d \in Days, ExpireLease(d) PROVE RecoveryTypeOK'
  <2>1. TypeOK' /\ drain' = drain
    BY <1>2, StepTyped DEF RecoveryTypeOK, ExpireLease
  <2>2. lease' \in [Days -> [token : Recoverers \cup {Nobody}, expired : BOOLEAN]]
    BY <1>2 DEF RecoveryTypeOK, ExpireLease
  <2>3. faults' \in 0..MaxFaults
    BY <1>2, FaultsAssumption DEF RecoveryTypeOK, ExpireLease
  <2> QED
    BY <2>1, <2>2, <2>3 DEF RecoveryTypeOK
<1>3. CASE UNCHANGED allVars
  BY <1>3, StepTyped DEF RecoveryTypeOK, allVars, recoveryVars
<1> QED
  BY <1>1, <1>2, <1>3, DrainStepTyped DEF RecoveryNext

\* The tables, the leases, and what the sessions and the runs have read keep
\* their types.
THEOREM RecoveryTypeCorrect == RecoverySpec => []RecoveryTypeOK
  BY RecoveryInitTyped, RecoveryStepTyped, PTL DEF RecoverySpec

-------------------------------------------------------------------------------
(* The lock: what a run read under it stays true until it commits *)

\* The requests a run has chosen are locked and blocked, fit into the seats that
\* are free, and are the oldest but for those whose rows were held, and those the
\* provider has refused since.
Choice(c) ==
  /\ poolLock.owner = c
  /\ poolLock.rows = drain[c].picks
  /\ drain[c].picks \subseteq Blocked
  /\ drain[c].picks # {} =>
       Cardinality(drain[c].picks) <= Free(OperatingDay[drain[c].at])
  /\ \A r \in drain[c].picks, q \in Blocked \ drain[c].picks :
       q < r => Refused(q) \/ q \in drain[c].skipped

ChoiceInv == \A c \in Recoverers : drain[c].phase = "evaluated" => Choice(c)

\* A blocked request has an unused action row for its next attempt.
QueueInv == \A r \in Requests : request[r] = "blocked_no_seat" => NextAttempts(r) # {}

LEMMA ChoiceInitial == RecoveryInit => ChoiceInv /\ QueueInv
BY DEF RecoveryInit, Init, ChoiceInv, QueueInv, Idle

\* While a run has evaluated, no transaction of the web and no other run has.
LEMMA RunIsAlone ==
  ASSUME LockInv, ChoiceInv, NEW c \in Recoverers, drain[c].phase = "evaluated"
  PROVE  /\ ~PoolFree
         /\ \A s \in Sessions : session[s].phase # "evaluated"
         /\ \A b \in Recoverers : drain[b].phase = "evaluated" => b = c
BY OwnersAssumption DEF LockInv, ChoiceInv, Choice, PoolFree, Owners

\* A step of run c does not disturb what another holder of the lock has read.
LEMMA HolderUndisturbed ==
  ASSUME RecoveryTypeOK, ChoiceInv, NEW c \in Recoverers, DrainStep(c),
         poolLock.owner \in Owners, poolLock.owner # c
  PROVE  UNCHANGED <<now, request, action, assignment, capacity, session, poolLock>>
<1>1. ~CommitRecovery(c)
  BY DEF CommitRecovery, ChoiceInv, Choice
<1>2. \A d \in Days : ~Recover(c, d)
  BY OwnersAssumption DEF Recover, PoolFree
<1>3. Unlock(c) => poolLock' = poolLock
  BY DEF Unlock
<1> QED
  BY <1>1, <1>2, <1>3, DrainFrame

LEMMA RecoveryLockStep ==
  RecoveryTypeOK /\ LockInv /\ ChoiceInv /\ [RecoveryNext]_allVars => LockInv'
<1> SUFFICES ASSUME RecoveryTypeOK, LockInv, ChoiceInv, [RecoveryNext]_allVars
             PROVE  LockInv'
  OBVIOUS
<1>1. CASE [PoolNext]_vars
  BY <1>1, LockStep DEF RecoveryTypeOK
<1>2. ASSUME NEW c \in Recoverers, DrainStep(c) PROVE LockInv'
  <2> SUFFICES ASSUME NEW s \in Sessions, session'[s].phase = "evaluated"
               PROVE  /\ poolLock'.owner = s
                      /\ Admissible(session[s])'
                      /\ session'[s].op \in SeatOperations => poolLock'.rows = {session'[s].r}
                      /\ session'[s].op = "retry" => NextAttempts(session[s].r)' # {}
    BY DEF LockInv
  <2>1. session' = session
    BY <1>2, DrainFrame
  <2>2. /\ session[s].phase = "evaluated" /\ poolLock.owner = s /\ s \in Owners /\ s # c
        /\ Admissible(session[s])
        /\ session[s].op \in SeatOperations => poolLock.rows = {session[s].r}
        /\ session[s].op = "retry" => NextAttempts(session[s].r) # {}
    BY <2>1, OwnersAssumption DEF LockInv, Owners
  <2>3. UNCHANGED <<request, action, capacity, poolLock>>
    BY <1>2, <2>2, HolderUndisturbed
  <2>4. session[s].op \in SeatOperations \cup {"change"}
    BY <2>2, SessionTyped DEF RecoveryTypeOK
  <2>5. /\ Admissible(session[s])'
        /\ session[s].op \in SeatOperations =>
             NextAttempts(session[s].r)' = NextAttempts(session[s].r)
    BY <2>1, <2>2, <2>3, <2>4, AdmissibleKept
  <2>6. session[s].op = "retry" => NextAttempts(session[s].r)' # {}
    BY <2>2, <2>5 DEF SeatOperations
  <2> QED
    BY <2>1, <2>2, <2>3, <2>5, <2>6
<1> QED
  BY <1>1, <1>2, StepCases

-------------------------------------------------------------------------------
(* The queue beside the transactions of the web *)

LEMMA RequestStepQueue ==
  ASSUME TypeOK, NEW r \in Requests, RequestStep(r)
  PROVE  /\ request[r] # "blocked_no_seat"
         /\ request'[r] = "blocked_no_seat" => RefuseInviteNoSeat(r)
<1>1. CASE RefuseInviteNoSeat(r)
  BY <1>1 DEF RefuseInviteNoSeat
<1>2. CASE \/ Reject(r) \/ MarkChecklistNotDone(r) \/ DeliverInvite(r) \/ FailInvite(r)
           \/ WithdrawInvitation(r) \/ StartOffboarding(r)
  BY <1>2 DEF TypeOK, Reject, MarkChecklistNotDone, DeliverInvite, FailInvite,
              WithdrawInvitation, StartOffboarding, Drop
<1>3. ASSUME NEW at \in Times, ActivateMember(r, at) \/ CompleteOffboarding(r, at)
      PROVE  request[r] # "blocked_no_seat" /\ request'[r] # "blocked_no_seat"
  BY <1>3 DEF TypeOK, ActivateMember, CompleteOffboarding, Seat
<1> QED
  BY <1>1, <1>2, <1>3 DEF RequestStep

\* The web takes no request out of the queue, and puts one there at its approval
\* or when the provider refuses its invitation.
LEMMA QueueStep ==
  ASSUME TypeOK, LockInv, [PoolNext]_vars, NEW q \in Requests
  PROVE  /\ request[q] = "blocked_no_seat" =>
              request'[q] = "blocked_no_seat" /\ action'[q] = action[q]
         /\ request[q] # "blocked_no_seat" /\ request'[q] = "blocked_no_seat" =>
              \/ request[q] = "pending_approval" /\ action'[q] = action[q]
              \/ RefuseInviteNoSeat(q)
<1>1. ASSUME NEW s \in Sessions, CommitApproval(s) \/ CommitConfirmation(s) \/ CommitRetry(s)
      PROVE  /\ request[q] # "blocked_no_seat" \/ q # session[s].r
             /\ q = session[s].r /\ request'[q] = "blocked_no_seat" =>
                  request[q] = "pending_approval" /\ action'[q] = action[q]
  <2>1. CASE CommitApproval(s)
    <3>1. session[s].r \in Requests /\ request[session[s].r] = "pending_approval"
      BY <2>1, CommitLocal DEF Admissible, CommitApproval, Evaluated
    <3> QED
      BY <2>1, <3>1 DEF CommitApproval, Issue, Block, TypeOK
  <2>2. CASE CommitConfirmation(s)
    <3>1. session[s].r \in Requests /\ request[session[s].r] = "provisioning"
      BY <2>2, CommitLocal DEF Admissible, CommitConfirmation, Evaluated
    <3> QED
      BY <2>2, <3>1 DEF CommitConfirmation, Seat, TypeOK
  <2>3. CASE CommitRetry(s)
    <3>1. session[s].r \in Requests /\ request[session[s].r] = "failed"
      BY <2>3, CommitLocal DEF Admissible, Retryable, CommitRetry, Evaluated
    <3> QED
      BY <2>3, <3>1 DEF CommitRetry, Issue, TypeOK
  <2> QED
    BY <1>1, <2>1, <2>2, <2>3
<1>2. ASSUME NEW s \in Sessions, CommitApproval(s) \/ CommitConfirmation(s) \/ CommitRetry(s),
             q # session[s].r
      PROVE  request'[q] = request[q] /\ action'[q] = action[q]
  BY <1>2, CommitLocal
<1>3. ASSUME NEW s \in Sessions,
             Begin(s) \/ Evaluate(s) \/ Refuse(s) \/ Rollback(s) \/ CommitCapacity(s)
      PROVE  UNCHANGED <<request, action>>
  BY <1>3 DEF Begin, Evaluate, Refuse, Rollback, CommitCapacity
<1>4. ASSUME NEW r \in Requests, RequestStep(r), r # q
      PROVE  request'[q] = request[q] /\ action'[q] = action[q]
  BY <1>4, RequestStepLocal
<1>5. ASSUME RequestStep(q)
      PROVE  /\ request[q] # "blocked_no_seat"
             /\ request'[q] = "blocked_no_seat" => RefuseInviteNoSeat(q)
  BY <1>5, RequestStepQueue
<1>6. CASE Tick \/ UNCHANGED vars
  BY <1>6 DEF Tick, vars
<1> QED
  BY <1>1, <1>2, <1>3, <1>4, <1>5, <1>6 DEF PoolNext, SessionStep

\* What a refusal does to the action rows of its request.
LEMMA RefusalEffect ==
  ASSUME TypeOK, NEW r \in Requests, RefuseInviteNoSeat(r)
  PROVE  Refused(r)' /\ NextAttempts(r)' # {}
<1>1. PICK k \in Attempts :
        /\ action[r][k].status = "pending"
        /\ Drop(r, k, "failed", "capacity_unavailable", "blocked_no_seat")
  BY DEF RefuseInviteNoSeat, PendingInvites
<1>2. PICK n \in NextAttempts(r) : TRUE
  BY DEF RefuseInviteNoSeat
<1>3. action[r] \in [Attempts -> ActionRow] /\ action[r][k] \in ActionRow
  BY DEF TypeOK
<1>4. action'[r] = [action[r] EXCEPT ![k] = [@ EXCEPT !.status = "failed",
                                                      !.reason = "capacity_unavailable"]]
  BY <1>1 DEF Drop, TypeOK
<1>5. /\ action'[r][k].status = "failed" /\ action'[r][k].reason = "capacity_unavailable"
      /\ \A j \in Attempts \ {k} : action'[r][j] = action[r][j]
  BY <1>3, <1>4 DEF ActionRow
<1>6. Refused(r)'
  BY <1>5 DEF Refused
<1>7. n \in NextAttempts(r)'
  <2>1. /\ n \in Attempts /\ action[r][n].status = "none"
        /\ \A j \in 1..(n - 1) : action[r][j].status # "none"
    BY <1>2 DEF NextAttempts
  <2>2. n # k /\ action'[r][n].status = "none"
    BY <1>1, <1>5, <2>1
  <2>3. \A j \in 1..(n - 1) : j \in Attempts
    BY <2>1, BoundsAssumption DEF Attempts
  <2>4. \A j \in 1..(n - 1) : action'[r][j].status # "none"
    BY <1>5, <2>1, <2>3
  <2> QED
    BY <2>1, <2>2, <2>4 DEF NextAttempts
<1> QED
  BY <1>6, <1>7

\* Resuming a picked request makes an unused action row its only live one.
LEMMA ResumeEffect ==
  ASSUME RecoveryTypeOK, ChoiceInv, QueueInv, ActionInv,
         NEW c \in Recoverers, CommitRecovery(c), NEW r \in drain[c].picks
  PROVE  /\ r \in Requests /\ request[r] = "blocked_no_seat"
         /\ request'[r] = "provisioning"
         /\ NextAttempt(r) \in Attempts
         /\ action'[r][NextAttempt(r)].status = "pending"
         /\ \A j \in Attempts \ {NextAttempt(r)} : action'[r][j] = action[r][j]
         /\ LiveAttempts(r)' = {NextAttempt(r)}
<1> DEFINE k == NextAttempt(r)
<1>1. r \in Requests /\ request[r] = "blocked_no_seat"
  BY DEF CommitRecovery, ChoiceInv, Choice, Blocked
<1>2. request'[r] = "provisioning"
  BY <1>1 DEF CommitRecovery
<1>3. k \in Attempts /\ action[r][k].status = "none"
  BY <1>1 DEF QueueInv, NextAttempt, NextAttempts
<1>4. LiveAttempts(r) = {}
  BY <1>1 DEF ActionInv, ActionMatches
<1>5. PICK kindOf \in [drain[c].picks -> Kinds] :
        action' = [p \in Requests |->
            IF p \notin drain[c].picks THEN action[p]
            ELSE [action[p] EXCEPT ![NextAttempt(p)] = Issued(kindOf[p], drain[c].at)]]
  BY DEF CommitRecovery
<1>6. action'[r] = [action[r] EXCEPT ![k] = Issued(kindOf[r], drain[c].at)]
  BY <1>1, <1>5
<1> HIDE DEF k
<1>7. action[r] \in [Attempts -> ActionRow]
  BY <1>1 DEF RecoveryTypeOK, TypeOK
<1>8. /\ action'[r][k].status = "pending"
      /\ \A j \in Attempts \ {k} : action'[r][j] = action[r][j]
  BY <1>3, <1>6, <1>7 DEF Issued
<1>9. LiveAttempts(r)' = {k}
  BY <1>3, <1>4, <1>8 DEF LiveAttempts, Live
<1> QED
  BY <1>1, <1>2, <1>3, <1>8, <1>9 DEF k

\* The other requests are left as they are.
LEMMA ResumeLocal ==
  ASSUME RecoveryTypeOK, NEW c \in Recoverers, CommitRecovery(c),
         NEW r \in Requests \ drain[c].picks
  PROVE  request'[r] = request[r] /\ action'[r] = action[r]
BY DEF CommitRecovery, RecoveryTypeOK, TypeOK

\* Nothing but a commit of its own run takes a request out of the queue.
LEMMA DrainStepLocal ==
  ASSUME RecoveryTypeOK, NEW c \in Recoverers, DrainStep(c), NEW r \in Requests,
         ~CommitRecovery(c) \/ r \notin drain[c].picks
  PROVE  request'[r] = request[r] /\ action'[r] = action[r] /\ assignment'[r] = assignment[r]
BY DrainFrame, ResumeLocal

LEMMA QueueInvStep ==
  ASSUME RecoveryTypeOK, LockInv, ChoiceInv, ActionInv, QueueInv, [RecoveryNext]_allVars
  PROVE  QueueInv'
<1> SUFFICES ASSUME NEW r \in Requests, request'[r] = "blocked_no_seat"
             PROVE  NextAttempts(r)' # {}
  BY DEF QueueInv
<1>1. ASSUME request[r] = "blocked_no_seat", action'[r] = action[r]
      PROVE  NextAttempts(r)' # {}
  BY <1>1 DEF QueueInv, NextAttempts
<1>2. CASE [PoolNext]_vars
  <2>1. TypeOK
    BY DEF RecoveryTypeOK
  <2>2. CASE request[r] = "blocked_no_seat"
    BY <1>1, <1>2, <2>1, <2>2, QueueStep
  <2>3. CASE request[r] = "pending_approval" /\ action'[r] = action[r]
    <3>1. \A k \in Attempts : action[r][k].status = "none"
      BY <2>3 DEF ActionInv, ActionMatches
    <3>2. NextAttempts(r) # {}
      BY <3>1, FirstAttempt
    <3> QED
      BY <2>3, <3>2 DEF NextAttempts
  <2>4. CASE RefuseInviteNoSeat(r)
    BY <2>1, <2>4, RefusalEffect
  <2> QED
    BY <1>2, <2>1, <2>2, <2>3, <2>4, QueueStep
<1>3. ASSUME NEW c \in Recoverers, DrainStep(c) PROVE NextAttempts(r)' # {}
  <2>1. ~CommitRecovery(c) \/ r \notin drain[c].picks
    BY ResumeEffect
  <2> QED
    BY <1>1, <1>3, <2>1, DrainStepLocal
<1> QED
  BY <1>2, <1>3, StepCases

LEMMA RecoveryActionStep ==
  ASSUME RecoveryTypeOK, LockInv, ChoiceInv, ActionInv, QueueInv, [RecoveryNext]_allVars
  PROVE  ActionInv'
<1>1. CASE [PoolNext]_vars
  BY <1>1, ActionStep DEF RecoveryTypeOK
<1>2. ASSUME NEW c \in Recoverers, DrainStep(c), NEW r \in Requests PROVE ActionMatches(r)'
  <2>0. ActionMatches(r)
    BY DEF ActionInv
  <2>1. CASE CommitRecovery(c) /\ r \in drain[c].picks
    BY <2>1, ResumeEffect DEF ActionMatches
  <2>2. CASE ~(CommitRecovery(c) /\ r \in drain[c].picks)
    <3>1. request'[r] = request[r] /\ action'[r] = action[r]
      BY <1>2, <2>2, DrainStepLocal
    <3> QED
      BY <2>0, <3>1 DEF ActionMatches, LiveAttempts, Live, SentInvites
  <2> QED
    BY <2>1, <2>2
<1> QED
  BY <1>1, <1>2, StepCases DEF ActionInv

LEMMA RecoverySeatStep ==
  ASSUME RecoveryTypeOK, LockInv, ChoiceInv, ActionInv, QueueInv, SeatInv,
         [RecoveryNext]_allVars
  PROVE  SeatInv'
<1>1. CASE [PoolNext]_vars
  BY <1>1, SeatStep DEF RecoveryTypeOK
<1>2. ASSUME NEW c \in Recoverers, DrainStep(c), NEW r \in Requests PROVE SeatMatches(r)'
  <2>0. SeatMatches(r)
    BY DEF SeatInv
  <2>1. CASE CommitRecovery(c) /\ r \in drain[c].picks
    <3>1. assignment[r].status = "none" /\ \A k \in Attempts : action[r][k].status # "confirmed"
      BY <2>0, <2>1, ResumeEffect, NoSeatYet DEF RecoveryTypeOK
    <3>2. assignment'[r] = assignment[r] /\ request'[r] = "provisioning"
      BY <1>2, <2>1, ResumeEffect, DrainFrame
    <3>3. \A k \in Attempts : action'[r][k].status # "confirmed"
      BY <2>1, <3>1, ResumeEffect
    <3> QED
      BY <3>1, <3>2, <3>3 DEF SeatMatches
  <2>2. CASE ~(CommitRecovery(c) /\ r \in drain[c].picks)
    <3>1. request'[r] = request[r] /\ action'[r] = action[r] /\ assignment'[r] = assignment[r]
      BY <1>2, <2>2, DrainStepLocal
    <3> QED
      BY <2>0, <3>1 DEF SeatMatches
  <2> QED
    BY <2>1, <2>2
<1> QED
  BY <1>1, <1>2, StepCases DEF SeatInv

-------------------------------------------------------------------------------
(* The choice of a run stays good until it commits *)

LEMMA FreeNumber ==
  ASSUME TypeOK, NEW d
  PROVE  Free(d) \in Int
<1>1. /\ Purchased(d, Latest) \in Int
      /\ Cardinality(SeatsHeld(d, Latest)) \in Nat
      /\ Cardinality(Reservations(Latest) \ {}) \in Nat
  BY CountsAreNumbers
<1> QED
  BY <1>1 DEF Free, FreeSeats

LEMMA SameCount ==
  ASSUME UNCHANGED <<action, assignment, capacity>>, NEW d
  PROVE  Free(d)' = Free(d)
BY DEF Free, FreeSeats, SeatsHeld, Reservations, Live, Purchased, InForce

\* Beside a run that has evaluated, the web can only begin transactions and step
\* requests whose rows the run has not locked.
LEMMA BesideRun ==
  ASSUME RecoveryTypeOK, LockInv, ChoiceInv, [PoolNext]_vars,
         NEW c \in Recoverers, drain[c].phase = "evaluated"
  PROVE  /\ UNCHANGED <<capacity, poolLock>>
         /\ \/ UNCHANGED <<request, action, assignment>>
            \/ \E r \in Requests \ drain[c].picks : RequestStep(r)
<1>1. ~PoolFree /\ \A s \in Sessions : session[s].phase # "evaluated"
  BY RunIsAlone
<1>2. ASSUME NEW s \in Sessions, SessionStep(s)
      PROVE  UNCHANGED <<capacity, poolLock, request, action, assignment>>
  BY <1>1, <1>2 DEF SessionStep, Begin, Evaluate, Refuse, Rollback, CommitApproval,
                    CommitConfirmation, CommitRetry, CommitCapacity, Evaluated
<1>3. ASSUME NEW r \in Requests, RequestStep(r)
      PROVE  UNCHANGED <<capacity, poolLock>> /\ r \notin drain[c].picks
  BY <1>3, RequestStepLocal DEF RecoveryTypeOK, ChoiceInv, Choice, RowFree
<1>4. CASE Tick \/ UNCHANGED vars
  BY <1>4 DEF Tick, vars
<1> QED
  BY <1>2, <1>3, <1>4 DEF PoolNext

LEMMA ChoiceBesideWeb ==
  ASSUME RecoveryTypeOK, RecoveryTypeOK', LockInv, ChoiceInv, [PoolNext]_vars, drain' = drain,
         NEW c \in Recoverers, drain[c].phase = "evaluated"
  PROVE  Choice(c)'
<1> DEFINE picks == drain[c].picks
<1>0. PICK d : d = OperatingDay[drain[c].at]
  OBVIOUS
<1>1. Choice(c) /\ TypeOK /\ TypeOK'
  BY DEF ChoiceInv, RecoveryTypeOK
<1>2. /\ UNCHANGED <<capacity, poolLock>>
      /\ \/ UNCHANGED <<request, action, assignment>>
         \/ \E r \in Requests \ picks : RequestStep(r)
  BY BesideRun
<1>3. CASE UNCHANGED <<request, action, assignment>>
  BY <1>1, <1>2, <1>3, SameCount DEF Choice, Blocked, Refused
<1>4. ASSUME NEW r \in Requests \ picks, RequestStep(r)
      PROVE  Choice(c)'
  <2>1. \A q \in Requests \ {r} : request'[q] = request[q] /\ action'[q] = action[q]
    BY <1>1, <1>4, RequestStepLocal
  <2>2. picks \subseteq Blocked /\ picks \subseteq Blocked'
    BY <1>1, <1>4, <2>1 DEF Choice, Blocked
  <2>3. Free(d) \in Int /\ Free(d)' \in Int /\ Free(d) <= Free(d)'
    <3>1. \A k \in Attempts : <<r, k>> \notin {}
      OBVIOUS
    <3>2. /\ FreeSeats(d, Latest, {}) \in Int /\ FreeSeats(d, Latest, {})' \in Int
          /\ FreeSeats(d, Latest, {}) <= FreeSeats(d, Latest, {})'
      BY <1>1, <1>4, <3>1, StepsGiveBack
    <3> QED
      BY <3>2 DEF Free
  <2>4. picks # {} => Cardinality(picks) <= Free(d)'
    <3>1. IsFiniteSet(picks)
      BY <2>2, RequestsAssumption, FS_Subset DEF Blocked
    <3>2. Cardinality(picks) \in Nat
      BY <3>1, FS_CardinalityType
    <3>3. picks # {} => Cardinality(picks) <= Free(d)
      BY <1>0, <1>1 DEF Choice
    <3> HIDE DEF picks
    <3> QED
      BY <2>3, <3>2, <3>3
  <2>5. ASSUME NEW p \in picks, NEW q \in Blocked' \ picks, q < p
        PROVE  Refused(q)' \/ q \in drain[c].skipped
    <3>1. CASE q \in Blocked
      <4>1. Refused(q) \/ q \in drain[c].skipped
        BY <1>1, <2>5, <3>1 DEF Choice
      <4>2. q \in Requests /\ q # r
        BY <1>1, <1>4, <3>1, RequestStepQueue DEF Blocked
      <4> QED
        BY <2>1, <4>1, <4>2 DEF Refused
    <3>2. CASE q \notin Blocked
      <4>1. q = r /\ request'[q] = "blocked_no_seat"
        BY <2>1, <2>5, <3>2 DEF Blocked
      <4> QED
        BY <1>1, <1>4, <4>1, RequestStepQueue, RefusalEffect
    <3> QED
      BY <3>1, <3>2
  <2>6. drain'[c] = drain[c] /\ poolLock' = poolLock
    BY <1>2
  <2>7. drain[c].picks # {} => Cardinality(drain[c].picks) <= Free(OperatingDay[drain[c].at])'
    <3>1. Free(OperatingDay[drain[c].at])' = Free(d)'
      BY <1>0 DEF Free, FreeSeats, SeatsHeld, Reservations, Live, Purchased, InForce
    <3> QED
      BY <2>4, <3>1
  <2> HIDE DEF picks
  <2> QED
    BY <1>1, <2>2, <2>5, <2>6, <2>7 DEF Choice, picks
<1> QED
  BY <1>2, <1>3, <1>4

LEMMA ChoiceMade ==
  ASSUME RecoveryTypeOK, NEW c \in Recoverers, NEW d \in Days, Recover(c, d)
  PROVE  Choice(c)'
<1> DEFINE n == Free(OperatingDay[drain[c].at])
<1>1. n \in Int
  <2>1. TypeOK
    BY DEF RecoveryTypeOK
  <2> QED
    BY <2>1, FreeNumber
<1>2. PICK held, picks \in SUBSET Requests :
        /\ picks = Oldest(n, held) /\ drain'[c].picks = picks /\ drain'[c].skipped = held
        /\ drain'[c].at = drain[c].at /\ poolLock' = [owner |-> c, rows |-> picks]
  <2>1. PICK held \in SUBSET Requests, picks \in SUBSET Requests :
          /\ picks = Oldest(n, held)
          /\ drain' = [drain EXCEPT ![c] =
               [phase |-> "evaluated", at |-> drain[c].at, todo |-> drain[c].todo \ {d},
                day |-> d, picks |-> picks, skipped |-> held]]
          /\ poolLock' = [owner |-> c, rows |-> picks]
    BY ChoiceOf
  <2>2. PICK state : state = [phase |-> "evaluated", at |-> drain[c].at, todo |-> drain[c].todo \ {d},
                              day |-> d, picks |-> picks, skipped |-> held]
    OBVIOUS
  <2>3. drain' = [drain EXCEPT ![c] = state]
    BY <2>1, <2>2
  <2>4. drain'[c] = state
    BY <2>3 DEF RecoveryTypeOK
  <2> QED
    BY <2>1, <2>2, <2>4
<1>7. UNCHANGED <<request, action, assignment, capacity>>
  BY DEF Recover
<1>3. Free(OperatingDay[drain[c].at])' = n
  <2>1. PICK day : day = OperatingDay[drain[c].at] /\ day = OperatingDay[drain'[c].at]
    BY <1>2
  <2>2. Free(day)' = Free(day)
    BY <1>7, SameCount
  <2>3. OperatingDay[drain[c].at]' = day
    BY <1>2, <2>1
  <2> QED
    BY <2>1, <2>2, <2>3
<1>4. Blocked' = Blocked /\ picks \subseteq Blocked
  BY <1>2, <1>7 DEF Blocked, Oldest, Lockable
<1> HIDE DEF n
<1>5. picks # {} => Cardinality(picks) <= n
  BY <1>1, <1>2, OldestFew
<1>6. \A r \in picks, q \in Blocked : q < r => q \in picks \/ q \in held
  BY <1>1, <1>2, OldestFirst DEF Lockable
<1> QED
  BY <1>2, <1>3, <1>4, <1>5, <1>6 DEF Choice

LEMMA ChoiceStep ==
  ASSUME RecoveryTypeOK, RecoveryTypeOK', LockInv, ChoiceInv, [RecoveryNext]_allVars
  PROVE  ChoiceInv'
<1> SUFFICES ASSUME NEW c \in Recoverers, drain'[c].phase = "evaluated"
             PROVE  Choice(c)'
  BY DEF ChoiceInv
<1>1. CASE [PoolNext]_vars /\ drain' = drain
  BY <1>1, ChoiceBesideWeb
<1>2. ASSUME NEW b \in Recoverers, DrainStep(b) PROVE Choice(c)'
  <2>1. CASE c = b
    <3>1. \E d \in Days : Recover(c, d)
      BY <1>2, <2>1 DEF RecoveryTypeOK, DrainStep, Claim, CommitRecovery, Complete,
                        RecoveryFails, CrashWorker, Idle
    <3> QED
      BY <3>1, ChoiceMade
  <2>2. CASE c # b
    <3>1. drain'[c] = drain[c]
      BY <1>2, <2>2, DrainFrame
    <3>2. Choice(c) /\ poolLock.owner = c
      BY <3>1 DEF ChoiceInv, Choice
    <3>3. UNCHANGED <<request, action, assignment, capacity, poolLock>>
      BY <1>2, <2>2, <3>2, HolderUndisturbed DEF Owners
    <3>4. \A d : Free(d)' = Free(d)
      BY <3>3, SameCount
    <3>5. Free(OperatingDay[drain[c].at])' = Free(OperatingDay[drain[c].at])
      BY <3>1, <3>3 DEF Free, FreeSeats, SeatsHeld, Reservations, Live, Purchased, InForce
    <3> QED
      BY <3>1, <3>2, <3>3, <3>5 DEF Choice, Blocked, Refused
  <2> QED
    BY <2>1, <2>2
<1> QED
  BY <1>1, <1>2, StepCases

-------------------------------------------------------------------------------
(* The invariant *)

PoolInv == LockInv /\ ChoiceInv /\ QueueInv /\ ActionInv /\ SeatInv

LEMMA PoolInvInitial == RecoveryInit => PoolInv
BY LockInitial, ChoiceInitial, ActionInitial, SeatInitial DEF RecoveryInit, PoolInv

LEMMA PoolInvStep ==
  RecoveryTypeOK /\ RecoveryTypeOK' /\ PoolInv /\ [RecoveryNext]_allVars => PoolInv'
BY RecoveryLockStep, ChoiceStep, QueueInvStep, RecoveryActionStep, RecoverySeatStep DEF PoolInv

\* Under the lock of the pool, what a transaction or a run has read stays true
\* until it commits, and requests, actions and seats keep telling one story.
THEOREM RecoveryPoolHolds == RecoverySpec => []PoolInv
  BY PoolInvInitial, PoolInvStep, RecoveryTypeCorrect, PTL DEF RecoverySpec

\* Also beside the recovery job, a request carries exactly the provision action
\* its state promises.
THEOREM RecoveryActionsMatch == RecoverySpec => []ActionMatchesState
<1>1. PoolInv => ActionMatchesState
  BY ActionInvSuffices DEF PoolInv
<1> QED
  BY <1>1, RecoveryPoolHolds, PTL

\* Also beside the recovery job, a seat and the request that won it tell one
\* story.
THEOREM RecoverySeatsMatch == RecoverySpec => []SeatMatchesState
<1>1. PoolInv => SeatMatchesState
  BY DEF PoolInv, SeatInv, SeatMatches, SeatMatchesState
<1> QED
  BY <1>1, RecoveryPoolHolds, PTL

-------------------------------------------------------------------------------
(* The commit of a run *)

\* Only the commit of run c takes it from its choice to its end.
LEMMA OnlyCommitRecovers ==
  ASSUME RecoveryTypeOK, [RecoveryNext]_allVars, NEW c \in Recoverers,
         drain[c].phase = "evaluated", drain'[c].phase = "recovered"
  PROVE  CommitRecovery(c)
<1>1. drain' # drain
  OBVIOUS
<1>2. PICK b \in Recoverers : DrainStep(b)
  BY <1>1, StepCases
<1>3. b = c
  BY <1>2, DrainFrame
<1> QED
  BY <1>2, <1>3
  DEF RecoveryTypeOK, DrainStep, Claim, Recover, Complete, RecoveryFails, CrashWorker, Idle

\* A run reserves at most as many seats as it has picked requests.
LEMMA RecoveryAdds ==
  ASSUME RecoveryTypeOK, PoolInv, NEW c \in Recoverers, CommitRecovery(c), NEW d
  PROVE  /\ Free(d) \in Int /\ Free(d)' \in Int
         /\ Free(d)' >= Free(d) - Cardinality(drain[c].picks)
<1> DEFINE picks == drain[c].picks
           new == {<<r, NextAttempt(r)>> : r \in picks}
           R == Reservations(Latest)
<1>0. ChoiceInv /\ QueueInv /\ ActionInv /\ TypeOK
  BY DEF PoolInv, RecoveryTypeOK
<1>1. picks \subseteq Requests
  BY <1>0, ResumeEffect
<1>2. IsFiniteSet(picks) /\ Cardinality(picks) \in Nat
  <2>1. IsFiniteSet(picks)
    BY <1>1, RequestsAssumption, FS_Subset
  <2> QED
    BY <2>1, FS_CardinalityType
<1>3. Reservations(Latest)' \subseteq R \cup new
  <2> SUFFICES ASSUME NEW q \in Requests, NEW j \in Attempts, <<q, j>> \in Reservations(Latest)',
                      <<q, j>> \notin R
               PROVE  <<q, j>> \in new
    BY DEF Reservations
  <2>1. q \in picks
    <3>1. q \notin picks => action'[q] = action[q]
      BY ResumeLocal
    <3> QED
      BY <3>1 DEF Reservations, Live
  <2>2. action'[q][j] # action[q][j]
    BY DEF Reservations, Live
  <2> QED
    BY <1>0, <2>1, <2>2, ResumeEffect
<1>4. new \subseteq Requests \X Attempts
  BY <1>0, ResumeEffect
<1> HIDE DEF picks, R
<1>5. IsFiniteSet(new) /\ Cardinality(new) \in Nat /\ Cardinality(new) <= Cardinality(picks)
  <2>1. IsFiniteSet(new)
    BY <1>4, RowsFinite, FS_Subset
  <2>2. Cardinality(new) \in Nat
    BY <2>1, FS_CardinalityType
  <2>3. \A a \in new : a[1] \in picks /\ a = <<a[1], NextAttempt(a[1])>>
    OBVIOUS
  <2>4. PICK f \in [new -> picks] : \A a \in new : f[a] = a[1]
    <3>1. [a \in new |-> a[1]] \in [new -> picks]
      BY <2>3
    <3> QED
      BY <3>1
  <2>5. ~(Cardinality(picks) < Cardinality(new))
    <3>1. \A a, b \in new : f[a] = f[b] => a = b
      BY <2>3, <2>4
    <3> HIDE DEF new
    <3> QED
      BY <1>2, <2>1, <3>1, FS_PigeonHole
  <2> QED
    BY <1>2, <2>1, <2>2, <2>5
<1> HIDE DEF new
<1>6. IsFiniteSet(R) /\ Cardinality(R) \in Nat
  BY PoolFinite, FS_CardinalityType DEF R
<1>7. /\ IsFiniteSet(R \cup new) /\ Cardinality(R \cup new) \in Nat
      /\ Cardinality(R \cup new) <= Cardinality(R) + Cardinality(new)
  <2>1. /\ IsFiniteSet(R \cup new)
        /\ Cardinality(R \cup new) = Cardinality(R) + Cardinality(new) - Cardinality(R \cap new)
    BY <1>5, <1>6, FS_Union
  <2>2. IsFiniteSet(R \cap new)
    BY <1>6, FS_Subset
  <2>3. Cardinality(R \cap new) \in Nat /\ Cardinality(R \cup new) \in Nat
    BY <2>1, <2>2, FS_CardinalityType
  <2> QED
    BY <1>5, <1>6, <2>1, <2>3
<1>8. /\ Cardinality(Reservations(Latest)') \in Nat
      /\ Cardinality(Reservations(Latest)') <= Cardinality(R \cup new)
  <2>1. /\ IsFiniteSet(Reservations(Latest)')
        /\ Cardinality(Reservations(Latest)') <= Cardinality(R \cup new)
    BY <1>3, <1>7, FS_Subset
  <2> QED
    BY <2>1, FS_CardinalityType
<1>9. /\ Purchased(d, Latest) \in Int /\ Cardinality(SeatsHeld(d, Latest)) \in Nat
      /\ Purchased(d, Latest)' = Purchased(d, Latest)
      /\ SeatsHeld(d, Latest)' = SeatsHeld(d, Latest)
  <2>1. UNCHANGED <<assignment, capacity>>
    BY DEF CommitRecovery
  <2>2. Purchased(d, Latest)' = Purchased(d, Latest)
    BY <2>1 DEF Purchased, InForce
  <2>3. SeatsHeld(d, Latest)' = SeatsHeld(d, Latest)
    BY <2>1 DEF SeatsHeld
  <2> QED
    BY <1>0, <2>2, <2>3, CountsAreNumbers
<1>10. /\ Free(d) = Purchased(d, Latest) - Cardinality(SeatsHeld(d, Latest)) - Cardinality(R)
       /\ Free(d)' = Purchased(d, Latest)' - Cardinality(SeatsHeld(d, Latest)')
                       - Cardinality(Reservations(Latest)')
  BY DEF Free, FreeSeats, R
<1>11. /\ Free(d) \in Int /\ Free(d)' \in Int
       /\ Free(d)' >= Free(d) - Cardinality(picks)
  BY <1>2, <1>5, <1>6, <1>7, <1>8, <1>9, <1>10
<1> QED
  BY <1>11 DEF picks

LEMMA RunFits ==
  ASSUME RecoveryTypeOK, RecoveryTypeOK', PoolInv, [RecoveryNext]_allVars,
         NEW c \in Recoverers, NEW at \in Times,
         drain[c].phase = "evaluated", drain'[c].phase = "recovered",
         drain[c].picks # {}, drain[c].at = at
  PROVE  Free(OperatingDay[at])' >= 0
<1>1. CommitRecovery(c)
  BY OnlyCommitRecovers
<1>2. PICK d : d = OperatingDay[at]
  OBVIOUS
<1>3. /\ drain[c].picks \subseteq Requests
      /\ Cardinality(drain[c].picks) <= Free(d)
  BY <1>2 DEF PoolInv, ChoiceInv, Choice, Blocked
<1>4. Cardinality(drain[c].picks) \in Nat
  BY <1>3, RequestsAssumption, FS_Subset, FS_CardinalityType
<1>5. /\ Free(d) \in Int /\ Free(d)' \in Int
      /\ Free(d)' >= Free(d) - Cardinality(drain[c].picks)
  BY <1>1, RecoveryAdds
<1> QED
  BY <1>2, <1>3, <1>4, <1>5

\* A run that resumes requests leaves the pool within its purchased seats on the
\* operating day of its clock, in every interleaving, with any number of runs.
THEOREM RunsFit == RecoverySpec => RecoveryFits
<1>1. RecoveryTypeOK /\ RecoveryTypeOK' /\ PoolInv /\ [RecoveryNext]_allVars
        => [\A c \in Recoverers, at \in Times :
              /\ drain[c].phase = "evaluated" /\ drain'[c].phase = "recovered"
              /\ drain[c].picks # {} /\ drain[c].at = at
              => Free(OperatingDay[at])' >= 0]_allVars
  BY RunFits
<1> QED
  BY <1>1, RecoveryTypeCorrect, RecoveryPoolHolds, PTL DEF RecoverySpec, RecoveryFits

LEMMA LeavesQueueInOrder ==
  ASSUME RecoveryTypeOK, PoolInv, [RecoveryNext]_allVars,
         NEW q \in Requests, NEW r \in Requests, q < r,
         request[q] = "blocked_no_seat", request[r] = "blocked_no_seat",
         request'[r] = "provisioning"
  PROVE  request'[q] # "blocked_no_seat" \/ Refused(q) \/ PassedOver(q, r)
<1>0. TypeOK /\ LockInv /\ ChoiceInv /\ QueueInv /\ ActionInv
  BY DEF PoolInv, RecoveryTypeOK
<1>1. ~[PoolNext]_vars
  BY <1>0, QueueStep
<1>2. PICK c \in Recoverers : DrainStep(c)
  BY <1>1, StepCases
<1>3. CommitRecovery(c) /\ r \in drain[c].picks
  BY <1>2, DrainStepLocal
<1>4. CASE q \in drain[c].picks
  BY <1>0, <1>3, <1>4, ResumeEffect
<1>5. CASE q \notin drain[c].picks
  BY <1>0, <1>3, <1>5 DEF ChoiceInv, Choice, CommitRecovery, Blocked, PassedOver
<1> QED
  BY <1>4, <1>5

\* Blocked requests are resumed oldest first, except for those the provider has
\* refused and those whose rows were held when the run selected, in every
\* interleaving of runs and transactions.
THEOREM ResumesInOrder == RecoverySpec => ResumeInOrder
<1>1. RecoveryTypeOK /\ PoolInv /\ [RecoveryNext]_allVars
        => [\A q, r \in Requests :
              /\ q < r /\ request[q] = "blocked_no_seat" /\ request[r] = "blocked_no_seat"
              /\ request'[r] = "provisioning"
              => request'[q] # "blocked_no_seat" \/ Refused(q) \/ PassedOver(q, r)]_allVars
  BY LeavesQueueInOrder
<1> QED
  BY <1>1, RecoveryTypeCorrect, RecoveryPoolHolds, PTL DEF RecoverySpec, ResumeInOrder

-------------------------------------------------------------------------------
(* What was proved of the pool alone *)

\* Runs move requests along the transition table, several at a time.
LEMMA RecoveryLifecycleStep ==
  ASSUME RecoveryTypeOK, RecoveryTypeOK', PoolInv, [RecoveryNext]_allVars
  PROVE  [Lifecycle!Next]_request
<1>0. TypeOK /\ LockInv /\ ChoiceInv /\ QueueInv /\ ActionInv
  BY DEF PoolInv, RecoveryTypeOK
<1>1. CASE [PoolNext]_vars
  BY <1>0, <1>1, LifecycleStep
<1>2. ASSUME NEW c \in Recoverers, DrainStep(c) PROVE [Lifecycle!Next]_request
  <2>1. CASE UNCHANGED request
    BY <2>1
  <2>2. CASE CommitRecovery(c)
    <3>1. "provisioning" \in Lifecycle!Moves("blocked_no_seat")
      <4>1. "blocked_no_seat" \in Lifecycle!State
        BY DEF Lifecycle!State
      <4>2. Lifecycle!Transitions["blocked_no_seat"] = {"provisioning", "rejected"}
        BY <4>1 DEF Lifecycle!Transitions
      <4> QED
        BY <4>2 DEF Lifecycle!Moves
    <3>2. \A r \in Requests :
            request'[r] = request[r] \/ request'[r] \in Lifecycle!Moves(request[r])
      BY <1>0, <2>2, <3>1, ResumeEffect, ResumeLocal
    <3>3. request' \in [Requests -> Lifecycle!State]
      BY DEF RecoveryTypeOK, TypeOK, RequestState, Lifecycle!State
    <3> QED
      BY <3>2, <3>3 DEF Lifecycle!Next
  <2> QED
    BY <1>2, <2>1, <2>2, DrainFrame
<1> QED
  BY <1>1, <1>2, StepCases

\* The pool with the recovery job implements the abstract life of a request.
THEOREM RecoveryImplementsLifecycle == RecoverySpec => LifecycleIsLegal
<1>1. RecoveryInit => Lifecycle!Init
  BY DEF RecoveryInit, Init, Lifecycle!Init
<1>2. RecoveryTypeOK /\ RecoveryTypeOK' /\ PoolInv /\ [RecoveryNext]_allVars
        => [Lifecycle!Next]_request
  BY RecoveryLifecycleStep
<1> QED
  BY <1>1, <1>2, RecoveryTypeCorrect, RecoveryPoolHolds, PTL
  DEF RecoverySpec, LifecycleIsLegal, Lifecycle!Spec

\* A run never makes the pool fuller under a transaction that has counted it.
LEMMA RecoveryGrantStep ==
  ASSUME RecoveryTypeOK, RecoveryTypeOK', PoolInv, GrantInv, [RecoveryNext]_allVars
  PROVE  GrantInv'
<1>0. TypeOK /\ TypeOK' /\ LockInv /\ ChoiceInv
  BY DEF PoolInv, RecoveryTypeOK
<1>1. CASE [PoolNext]_vars
  BY <1>0, <1>1, GrantStep
<1>2. ASSUME NEW c \in Recoverers, DrainStep(c) PROVE GrantInv'
  <2> SUFFICES ASSUME NEW s \in Sessions, Granted(s)'
               PROVE  (FreeSeats(OperatingDay[session[s].at], Latest, Own(session[s])) > 0)'
    BY DEF GrantInv
  <2>1. session' = session /\ session[s].phase = "evaluated"
    BY <1>2, DrainFrame DEF Granted
  <2>2. poolLock.owner = s /\ s \in Owners /\ s # c
    BY <1>0, <2>1, OwnersAssumption DEF LockInv, Owners
  <2>3. UNCHANGED <<request, action, assignment, capacity, session>>
    BY <1>2, <1>0, <2>2, HolderUndisturbed
  <2>4. Granted(s)
    BY <2>3 DEF Granted, Fresh
  <2>5. FreeSeats(OperatingDay[session[s].at], Latest, Own(session[s])) > 0
    BY <2>4 DEF GrantInv
  <2> QED
    BY <2>3, <2>5
    DEF FreeSeats, Own, ChecklistOf, LiveAttempts, Live, SeatsHeld, Reservations, Purchased,
        InForce
<1> QED
  BY <1>1, <1>2, StepCases

LEMMA RecoveryTakeFits ==
  ASSUME RecoveryTypeOK, RecoveryTypeOK', PoolInv, GrantInv, [RecoveryNext]_allVars,
         NEW s \in Sessions, NEW at \in Times,
         TakesSeat(s), session[s].at = at, Fresh(at)
  PROVE  Free(OperatingDay[at])' >= 0
<1>1. session' # session
  BY DEF TakesSeat, Idle
<1>2. [PoolNext]_vars
  BY <1>1, StepCases, DrainFrame
<1> QED
  BY <1>2, TakeFits DEF PoolInv, RecoveryTypeOK

\* Also beside the recovery job, a decision whose clock is fresh leaves the pool
\* within its purchased seats.
THEOREM FreshTakesFitBesideRuns == RecoverySpec => FreshTakeFits
<1>1. RecoveryInit => GrantInv
  BY GrantInitial DEF RecoveryInit
<1>2. RecoveryTypeOK /\ RecoveryTypeOK' /\ PoolInv /\ GrantInv /\ [RecoveryNext]_allVars
        => GrantInv'
  BY RecoveryGrantStep
<1>3. RecoveryTypeOK /\ RecoveryTypeOK' /\ PoolInv /\ GrantInv /\ [RecoveryNext]_allVars
        => [\A s \in Sessions, at \in Times :
              TakesSeat(s) /\ session[s].at = at /\ Fresh(at)
                => Free(OperatingDay[at])' >= 0]_vars
  BY RecoveryTakeFits
<1> QED
  BY <1>1, <1>2, <1>3, RecoveryTypeCorrect, RecoveryPoolHolds, PTL DEF RecoverySpec, FreshTakeFits

-------------------------------------------------------------------------------
(* A run that nothing is released under (the scenario "no release")        *)

\* While a blocked request is left out, n are chosen.
LEMMA OldestEnough ==
  ASSUME NEW n \in Int, NEW held, ~(Lockable(held) \subseteq Oldest(n, held))
  PROVE  n <= Cardinality(Oldest(n, held))
<1> DEFINE Before(p) == {b \in Lockable(held) : b < p}
           Rest == Lockable(held) \ Oldest(n, held)
<1>1. Lockable(held) \subseteq Nat /\ Lockable(held) \subseteq Requests /\ Oldest(n, held) \subseteq Lockable(held)
  BY RequestsAssumption DEF Lockable, Blocked, Oldest
<1>2. PICK m \in Rest : \A b \in Rest : ~(<<b, m>> \in OpToRel(<, Nat))
  <2>1. Rest \subseteq Nat /\ Rest # {}
    BY <1>1
  <2> HIDE DEF Rest
  <2> QED
    BY <2>1, NatLessThanWellFounded, WFMin
<1>3. \A b \in Rest : ~(b < m)
  BY <1>1, <1>2 DEF OpToRel
<1>4. Before(m) \subseteq Oldest(n, held)
  BY <1>3
<1>5. ~(Cardinality(Before(m)) < n)
  BY DEF Oldest
<1>6. m \in Requests
  BY <1>1
<1>7. IsFiniteSet(Oldest(n, held)) /\ Cardinality(Before(m)) \in Nat
  BY <1>1, <1>6, LockableFinite, FS_Subset
<1> HIDE DEF Before
<1>8. Cardinality(Before(m)) <= Cardinality(Oldest(n, held)) /\ Cardinality(Oldest(n, held)) \in Nat
  BY <1>4, <1>7, FS_Subset, FS_CardinalityType
<1> QED
  BY <1>5, <1>7, <1>8

\* Nobody is invited, and nobody gives a seat back.
Quiet ==
  \A r \in Requests :
    /\ request[r] # "offboarding"
    /\ \A k \in Attempts : action[r][k].kind \in {"none", "checklist"}

\* What a run has chosen leaves nobody blocked whose row it could lock, or no seat
\* free.
Enough(c) ==
  \/ Blocked \subseteq drain[c].picks \cup drain[c].skipped
  \/ Free(OperatingDay[drain[c].at]) <= Cardinality(drain[c].picks)

EnoughInv ==
  scenario = "no release" =>
    Quiet /\ \A c \in Recoverers : drain[c].phase = "evaluated" => Enough(c)

LEMMA NothingReleased ==
  ASSUME TypeOK, Quiet, BesideNoRelease, NEW r \in Requests
  PROVE  ~RequestStep(r)
<1>1. request'[r] \notin {"rejected", "offboarding", "failed"}
  BY DEF BesideNoRelease, Recovering, Leaves
<1>2. request[r] # "offboarding" /\ PendingInvites(r) = {} /\ SentInvites(r) = {}
  BY DEF Quiet, PendingInvites, SentInvites
<1>3. \A to : request' = [request EXCEPT ![r] = to] => request'[r] = to
  BY DEF TypeOK
<1> QED
  BY <1>1, <1>2, <1>3
  DEF RequestStep, Reject, MarkChecklistNotDone, Drop, DeliverInvite, RefuseInviteNoSeat,
      FailInvite, WithdrawInvitation, StartOffboarding, ActivateMember, CompleteOffboarding

LEMMA EnoughChosen ==
  ASSUME RecoveryTypeOK, NEW c \in Recoverers, NEW d \in Days, Recover(c, d)
  PROVE  Enough(c)'
<1> DEFINE n == Free(OperatingDay[drain[c].at])
<1>1. n \in Int
  BY FreeNumber DEF RecoveryTypeOK
<1>2. PICK held, picks \in SUBSET Requests :
        /\ picks = Oldest(n, held) /\ drain'[c].picks = picks /\ drain'[c].skipped = held
        /\ drain'[c].at = drain[c].at /\ poolLock' = [owner |-> c, rows |-> picks]
  <2>1. PICK held \in SUBSET Requests, picks \in SUBSET Requests :
          /\ picks = Oldest(n, held)
          /\ drain' = [drain EXCEPT ![c] =
               [phase |-> "evaluated", at |-> drain[c].at, todo |-> drain[c].todo \ {d},
                day |-> d, picks |-> picks, skipped |-> held]]
          /\ poolLock' = [owner |-> c, rows |-> picks]
    BY ChoiceOf
  <2>2. PICK state : state = [phase |-> "evaluated", at |-> drain[c].at, todo |-> drain[c].todo \ {d},
                              day |-> d, picks |-> picks, skipped |-> held]
    OBVIOUS
  <2>3. drain' = [drain EXCEPT ![c] = state]
    BY <2>1, <2>2
  <2>4. drain'[c] = state
    BY <2>3 DEF RecoveryTypeOK
  <2> QED
    BY <2>1, <2>2, <2>4
<1>7. UNCHANGED <<request, action, assignment, capacity>>
  BY DEF Recover
<1>3. Free(OperatingDay[drain[c].at])' = n
  <2>1. PICK day : day = OperatingDay[drain[c].at] /\ day = OperatingDay[drain'[c].at]
    BY <1>2
  <2>2. Free(day)' = Free(day)
    BY <1>7, SameCount
  <2>3. OperatingDay[drain[c].at]' = day
    BY <1>2, <2>1
  <2> QED
    BY <2>1, <2>2, <2>3
<1>5. Blocked' = Blocked
  BY <1>7 DEF Blocked
<1> HIDE DEF n
<1>4. Lockable(held) \subseteq picks \/ n <= Cardinality(picks)
  BY <1>1, <1>2, OldestEnough
<1> QED
  BY <1>2, <1>3, <1>4, <1>5 DEF Enough, Lockable

LEMMA OnlyRecoverChooses ==
  ASSUME RecoveryTypeOK, NEW c \in Recoverers, DrainStep(c), drain'[c].phase = "evaluated"
  PROVE  \E d \in Days : Recover(c, d)
BY DEF RecoveryTypeOK, DrainStep, Claim, CommitRecovery, Complete, RecoveryFails, CrashWorker, Idle

LEMMA EnoughKept ==
  ASSUME NEW c \in Recoverers, drain'[c] = drain[c], Enough(c),
         UNCHANGED <<request, action, assignment, capacity>>
  PROVE  Enough(c)'
<1>1. Blocked' = Blocked
  BY DEF Blocked
<1>2. Free(OperatingDay[drain[c].at])' = Free(OperatingDay[drain[c].at])
  BY DEF Free, FreeSeats, SeatsHeld, Reservations, Live, Purchased, InForce
<1> QED
  BY <1>1, <1>2 DEF Enough

LEMMA EnoughStep ==
  ASSUME RecoveryTypeOK, PoolInv, EnoughInv, [MCNext]_<<allVars, scenario>>
  PROVE  EnoughInv'
<1> SUFFICES ASSUME scenario' = "no release" PROVE EnoughInv'
  BY DEF EnoughInv
<1>1. scenario' = scenario /\ [RecoveryNext]_allVars
  BY DEF MCNext
<1>2. Quiet /\ \A c \in Recoverers : drain[c].phase = "evaluated" => Enough(c)
  BY <1>1 DEF EnoughInv
<1>3. CASE UNCHANGED allVars
  <2>1. UNCHANGED <<request, action, assignment, capacity, drain>>
    BY <1>3 DEF allVars, vars, recoveryVars
  <2>2. Quiet'
    BY <1>2, <2>1 DEF Quiet
  <2> QED
    BY <1>2, <2>1, <2>2, EnoughKept DEF EnoughInv
<1>4. CASE MCNext
  <2>1. BesideNoRelease
    BY <1>1, <1>4 DEF MCNext
  <2>2. Quiet'
    BY <2>1 DEF BesideNoRelease, Recovering, Leaves, Issues, Quiet
  <2>3. ASSUME NEW c \in Recoverers, drain'[c].phase = "evaluated"
        PROVE  Enough(c)'
    <3>1. CASE [PoolNext]_vars /\ drain' = drain
      <4>1. UNCHANGED <<request, action, assignment, capacity>>
        BY <1>2, <2>1, <2>3, <3>1, BesideRun, NothingReleased DEF PoolInv, RecoveryTypeOK
      <4> QED
        BY <1>2, <2>3, <3>1, <4>1, EnoughKept
    <3>2. ASSUME NEW b \in Recoverers, DrainStep(b) PROVE Enough(c)'
      <4>1. CASE c = b
        <5>1. \E d \in Days : Recover(c, d)
          BY <2>3, <3>2, <4>1, OnlyRecoverChooses
        <5> QED
          BY <5>1, EnoughChosen
      <4>2. CASE c # b
        <5>1. drain'[c] = drain[c]
          BY <3>2, <4>2, DrainFrame
        <5>2. poolLock.owner = c
          BY <2>3, <5>1 DEF PoolInv, ChoiceInv, Choice
        <5>3. UNCHANGED <<request, action, assignment, capacity>>
          BY <3>2, <4>2, <5>2, HolderUndisturbed DEF Owners, PoolInv
        <5> QED
          BY <1>2, <2>3, <5>1, <5>3, EnoughKept
      <4> QED
        BY <4>1, <4>2
    <3> QED
      BY <1>1, <3>1, <3>2, StepCases
  <2> QED
    BY <2>2, <2>3 DEF EnoughInv
<1> QED
  BY <1>3, <1>4

\* And it reserves a seat for each of them.
LEMMA RecoveryTakes ==
  ASSUME RecoveryTypeOK, RecoveryTypeOK', PoolInv, NEW c \in Recoverers, CommitRecovery(c), NEW d
  PROVE  /\ Free(d) \in Int /\ Free(d)' \in Int
         /\ Free(d)' <= Free(d) - Cardinality(drain[c].picks)
<1> DEFINE picks == drain[c].picks
           new == {<<r, NextAttempt(r)>> : r \in picks}
           R == Reservations(Latest)
<1>0. ChoiceInv /\ QueueInv /\ ActionInv /\ TypeOK /\ TypeOK'
  BY DEF PoolInv, RecoveryTypeOK
<1>1. picks \subseteq Requests /\ IsFiniteSet(picks) /\ Cardinality(picks) \in Nat
  <2>1. picks \subseteq Requests
    BY <1>0, ResumeEffect
  <2>2. IsFiniteSet(picks)
    BY <2>1, RequestsAssumption, FS_Subset
  <2> QED
    BY <2>1, <2>2, FS_CardinalityType
<1>2. \A r \in picks : NextAttempt(r) \in Attempts /\ action'[r][NextAttempt(r)].status = "pending"
                         /\ \A k \in Attempts : ~Live(action[r][k])
  <2> SUFFICES ASSUME NEW r \in picks
               PROVE  NextAttempt(r) \in Attempts /\ action'[r][NextAttempt(r)].status = "pending"
                         /\ \A k \in Attempts : ~Live(action[r][k])
    OBVIOUS
  <2>1. /\ r \in Requests /\ request[r] = "blocked_no_seat"
        /\ NextAttempt(r) \in Attempts /\ action'[r][NextAttempt(r)].status = "pending"
    BY <1>0, ResumeEffect
  <2>2. LiveAttempts(r) = {}
    BY <1>0, <2>1 DEF ActionInv, ActionMatches
  <2> QED
    BY <2>1, <2>2 DEF LiveAttempts
<1>3. new \subseteq Reservations(Latest)'
  <2> SUFFICES ASSUME NEW r \in picks PROVE <<r, NextAttempt(r)>> \in Reservations(Latest)'
    OBVIOUS
  <2>1. r \in Requests /\ NextAttempt(r) \in Attempts
    BY <1>1, <1>2
  <2>2. PICK k \in Attempts : k = NextAttempt(r)
    BY <2>1
  <2>3. action'[r][k].status = "pending" /\ action'[r][k].createdAt <= Latest
    <3>1. action'[r][k].createdAt \in Times
      BY <1>0, <2>1 DEF TypeOK, ActionRow
    <3> QED
      BY <1>2, <2>2, <3>1, BoundsAssumption DEF Times, Latest
  <2>4. <<r, k>> \in Reservations(Latest)'
    BY <2>1, <2>3 DEF Reservations, Live, Latest
  <2> QED
    BY <2>2, <2>4
<1>4. R \subseteq Reservations(Latest)' /\ R \cap new = {}
  <2>1. \A a \in R : a[1] \in Requests \ picks /\ a[2] \in Attempts
    BY <1>2 DEF Reservations
  <2>2. \A a \in R : action'[a[1]] = action[a[1]]
    BY <2>1, ResumeLocal
  <2>3. R \subseteq Reservations(Latest)'
    BY <2>2 DEF Reservations, Live, Latest
  <2> QED
    BY <2>1, <2>3
<1> HIDE DEF picks, R
<1>5. IsFiniteSet(Reservations(Latest)') /\ IsFiniteSet(R)
  BY <1>0, PoolFinite, RowsFinite, FS_Subset DEF R, Reservations
<1>6. IsFiniteSet(new) /\ Cardinality(picks) <= Cardinality(new)
  <2>1. IsFiniteSet(new)
    BY <1>3, <1>5, FS_Subset
  <2>2. [r \in picks |-> <<r, NextAttempt(r)>>] \in Injection(picks, new)
    BY DEF Injection, IsInjective
  <2> HIDE DEF new
  <2> QED
    BY <2>1, <2>2, FS_Injection
<1> HIDE DEF new
<1>7. /\ Cardinality(R) \in Nat /\ Cardinality(new) \in Nat
      /\ Cardinality(Reservations(Latest)') \in Nat
      /\ Cardinality(R) + Cardinality(new) <= Cardinality(Reservations(Latest)')
  <2>1. /\ IsFiniteSet(R \cup new)
        /\ Cardinality(R \cup new) = Cardinality(R) + Cardinality(new) - Cardinality(R \cap new)
    BY <1>5, <1>6, FS_Union
  <2>2. Cardinality(R \cap new) = 0
    BY <1>4, FS_EmptySet
  <2>3. /\ Cardinality(R) \in Nat /\ Cardinality(new) \in Nat
        /\ Cardinality(Reservations(Latest)') \in Nat
    BY <1>5, <1>6, FS_CardinalityType
  <2>4. Cardinality(R \cup new) <= Cardinality(Reservations(Latest)')
    BY <1>3, <1>4, <1>5, FS_Subset
  <2> QED
    BY <2>1, <2>2, <2>3, <2>4
<1>8. /\ Purchased(d, Latest) \in Int /\ Cardinality(SeatsHeld(d, Latest)) \in Nat
      /\ Purchased(d, Latest)' = Purchased(d, Latest)
      /\ SeatsHeld(d, Latest)' = SeatsHeld(d, Latest)
  <2>1. UNCHANGED <<assignment, capacity>>
    BY DEF CommitRecovery
  <2>2. Purchased(d, Latest)' = Purchased(d, Latest)
    BY <2>1 DEF Purchased, InForce
  <2>3. SeatsHeld(d, Latest)' = SeatsHeld(d, Latest)
    BY <2>1 DEF SeatsHeld
  <2> QED
    BY <1>0, <2>2, <2>3, CountsAreNumbers
<1>9. /\ Free(d) = Purchased(d, Latest) - Cardinality(SeatsHeld(d, Latest)) - Cardinality(R)
      /\ Free(d)' = Purchased(d, Latest)' - Cardinality(SeatsHeld(d, Latest)')
                      - Cardinality(Reservations(Latest)')
  BY DEF Free, FreeSeats, R
<1>10. /\ Free(d) \in Int /\ Free(d)' \in Int
       /\ Free(d)' <= Free(d) - Cardinality(picks)
  BY <1>1, <1>6, <1>7, <1>8, <1>9
<1> QED
  BY <1>10 DEF picks

LEMMA NoneLeft ==
  ASSUME NEW f \in Int, NEW g \in Int, NEW n \in Nat, f <= n, g <= f - n
  PROVE  g <= 0
OBVIOUS

LEMMA RunUsesAll ==
  ASSUME RecoveryTypeOK, RecoveryTypeOK', PoolInv, EnoughInv, [RecoveryNext]_allVars,
         scenario = "no release"
  PROVE  UsesEverySeat
<1> SUFFICES ASSUME NEW c \in Recoverers, NEW at \in Times,
                    drain[c].phase = "evaluated", drain'[c].phase = "recovered", drain[c].at = at
             PROVE  Blocked' \subseteq drain[c].skipped \/ Free(OperatingDay[at])' <= 0
  BY DEF UsesEverySeat
<1>1. CommitRecovery(c) /\ Enough(c)
  BY OnlyCommitRecovers DEF EnoughInv
<1>2. CASE Blocked \subseteq drain[c].picks \cup drain[c].skipped
  BY <1>1, <1>2 DEF CommitRecovery, Blocked
<1>3. CASE Free(OperatingDay[at]) <= Cardinality(drain[c].picks)
  <2>1. PICK d : d = OperatingDay[at]
    OBVIOUS
  <2>2. /\ Free(d) \in Int /\ Free(d)' \in Int
        /\ Free(d)' <= Free(d) - Cardinality(drain[c].picks)
    BY <1>1, RecoveryTakes
  <2>3. Cardinality(drain[c].picks) \in Nat
    <3>1. drain[c].picks \subseteq Requests
      BY <1>1 DEF PoolInv, ChoiceInv, Choice, Blocked
    <3> QED
      BY <3>1, RequestsAssumption, FS_Subset, FS_CardinalityType
  <2>4. Free(d) <= Cardinality(drain[c].picks)
    BY <1>3, <2>1
  <2>5. Free(d)' <= 0
    BY <2>2, <2>3, <2>4, NoneLeft
  <2>6. d = OperatingDay[at]'
    BY <2>1
  <2> QED
    BY <2>1, <2>5, <2>6
<1> QED
  BY <1>1, <1>2, <1>3 DEF Enough

\* The instances begin at instant 0 or 1 with a capacity from day 1.
LEMMA InstanceInit ==
  ASSUME 1 \in Times, 1 \in Days, MCInit
  PROVE  RecoveryTypeOK /\ PoolInv /\ EnoughInv
<1>0. 0 \in Times /\ OperatingDay[0] \in Days /\ now \in Times
  <2>1. 0 \in Times
    BY BoundsAssumption DEF Times
  <2>2. now \in {0, 1}
    BY DEF MCInit
  <2> QED
    BY <2>1, <2>2, OperatingDayTyped
<1>1. request \in [Requests -> RequestState]
  BY DEF MCInit, RequestState
<1>2. action \in [Requests -> [Attempts -> ActionRow]]
  BY <1>0 DEF MCInit, NoAction, ActionRow
<1>3. assignment \in [Requests -> AssignmentRow]
  BY <1>0 DEF MCInit, NoSeat, AssignmentRow
<1>4. capacity \in SUBSET CapacityRow
  <2>1. PICK q \in 0..MaxQty : capacity = {[from |-> 1, qty |-> q, createdAt |-> now]}
    BY DEF MCInit
  <2> QED
    BY <1>0, <2>1 DEF CapacityRow
<1>5. work \in [Days -> WorkRow]
  BY <1>0 DEF MCInit, NoWork, WorkRow
<1>6. /\ session \in [Sessions -> SessionState]
      /\ poolLock \in [owner : Owners \cup {Nobody}, rows : SUBSET Requests]
  BY DEF MCInit, SessionState, Unlocked
<1>7. TypeOK
  BY <1>0, <1>1, <1>2, <1>3, <1>4, <1>5, <1>6 DEF TypeOK
<1>8. RecoveryTypeOK
  <2>1. /\ drain = [c \in Recoverers |-> Idle] /\ lease = [d \in Days |-> NoLease]
        /\ faults = 0
    BY DEF MCInit
  <2>2. drain \in [Recoverers -> DrainState]
    BY <2>1 DEF DrainState
  <2>3. lease \in [Days -> [token : Recoverers \cup {Nobody}, expired : BOOLEAN]]
    BY <2>1 DEF NoLease
  <2> QED
    BY <1>7, <2>1, <2>2, <2>3, FaultsAssumption DEF RecoveryTypeOK
<1>9. LockInv /\ ChoiceInv /\ QueueInv
  BY DEF MCInit, LockInv, ChoiceInv, QueueInv, Idle
<1>10. \A r \in Requests : /\ request[r] = "pending_approval" /\ assignment[r].status = "none"
                           /\ \A k \in Attempts : action[r][k].status = "none" /\ action[r][k].kind = "none"
  BY DEF MCInit, NoAction, NoSeat
<1>11. ActionInv /\ SeatInv
  BY <1>10 DEF ActionInv, ActionMatches, LiveAttempts, Live, SeatInv, SeatMatches
<1>12. EnoughInv
  BY <1>10 DEF MCInit, EnoughInv, Quiet, Idle
<1> QED
  BY <1>8, <1>9, <1>11, <1>12 DEF PoolInv

\* Where nothing is released, a run leaves no request blocked beside a free seat but
\* those whose rows were held when it selected, for any number of requests, seats,
\* sessions and runs.
THEOREM EverySeatIsUsed ==
  ASSUME 1 \in Times, 1 \in Days
  PROVE  MCSpec => RecoveryUsesEverySeat
<1>1. MCInit => RecoveryTypeOK /\ PoolInv /\ EnoughInv
  BY InstanceInit
<1>2. RecoveryTypeOK /\ PoolInv /\ EnoughInv /\ [MCNext]_<<allVars, scenario>>
        => RecoveryTypeOK' /\ PoolInv' /\ EnoughInv'
  <2>1. [MCNext]_<<allVars, scenario>> => [RecoveryNext]_allVars
    BY DEF MCNext
  <2> QED
    BY <2>1, RecoveryStepTyped, PoolInvStep, EnoughStep
<1>3. RecoveryTypeOK /\ RecoveryTypeOK' /\ PoolInv /\ EnoughInv /\ [MCNext]_<<allVars, scenario>>
        => [scenario = "no release" => UsesEverySeat]_<<allVars, scenario>>
  <2>1. [MCNext]_<<allVars, scenario>> => [RecoveryNext]_allVars
    BY DEF MCNext
  <2> QED
    BY <2>1, RunUsesAll
<1> QED
  BY <1>1, <1>2, <1>3, PTL DEF MCSpec, RecoveryUsesEverySeat
===============================================================================
