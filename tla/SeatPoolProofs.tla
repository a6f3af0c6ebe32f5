---------------------------- MODULE SeatPoolProofs ----------------------------
(***************************************************************************)
(* Proofs about SeatPool, for every number of requests, sessions and days. *)
(***************************************************************************)
EXTENDS SeatPool, FiniteSetTheorems, TLAPS

-------------------------------------------------------------------------------
(* Type correctness *)

LEMMA OperatingDayTyped == \A t \in Times : OperatingDay[t] \in Days
BY CalendarAssumption

LEMMA SessionTyped ==
  ASSUME TypeOK, NEW s \in Sessions,
         session[s].phase \in {"begun", "evaluated"}
  PROVE  /\ session[s].op \in SeatOperations \cup {"change"}
         /\ session[s].op \in SeatOperations =>
              session[s].r \in Requests /\ session[s].at \in Times
         /\ session[s].op = "change" => session[s].row \in CapacityRow
BY DEF TypeOK, SessionState, Idle, SeatOperations

LEMMA InitTyped == Init => TypeOK
<1> SUFFICES ASSUME Init PROVE TypeOK
  OBVIOUS
<1>1. 0 \in Times
  BY BoundsAssumption DEF Times
<1>2. OperatingDay[0] \in Days
  BY <1>1, OperatingDayTyped
<1>3. request \in [Requests -> RequestState]
  BY DEF Init, RequestState
<1>4. action \in [Requests -> [Attempts -> ActionRow]]
  BY <1>1 DEF Init, NoAction, ActionRow
<1>5. assignment \in [Requests -> AssignmentRow]
  BY <1>1, <1>2 DEF Init, NoSeat, AssignmentRow
<1>6. capacity \in SUBSET CapacityRow
  BY <1>1 DEF Init, CapacityRow
<1>7. work \in [Days -> WorkRow]
  BY <1>1 DEF Init, NoWork, WorkRow
<1>8. session \in [Sessions -> SessionState]
  BY DEF Init, SessionState
<1>9. poolLock \in [owner : Owners \cup {Nobody}, rows : SUBSET Requests]
  BY DEF Init, Unlocked
<1> QED
  BY <1>1, <1>3, <1>4, <1>5, <1>6, <1>7, <1>8, <1>9 DEF TypeOK, Init

\* The effects that several transactions share keep the tables typed.
LEMMA IssueTyped ==
  ASSUME TypeOK, NEW r \in Requests, NEW kind \in Kinds, NEW at \in Times,
         Issue(r, kind, at)
  PROVE  /\ action' \in [Requests -> [Attempts -> ActionRow]]
         /\ request' \in [Requests -> RequestState]
<1>1. Issued(kind, at) \in ActionRow
  BY KindsAssumption DEF Issued, ActionRow
<1>2. [action[r] EXCEPT ![NextAttempt(r)] = Issued(kind, at)] \in [Attempts -> ActionRow]
  BY <1>1 DEF TypeOK
<1> QED
  BY <1>2 DEF Issue, TypeOK, RequestState

LEMMA SeatTyped ==
  ASSUME TypeOK, NEW r \in Requests, NEW k \in Attempts, NEW at \in Times,
         Seat(r, k, at)
  PROVE  /\ action' \in [Requests -> [Attempts -> ActionRow]]
         /\ assignment' \in [Requests -> AssignmentRow]
         /\ request' \in [Requests -> RequestState]
<1>1. OperatingDay[0] \in Days /\ OperatingDay[at] \in Days
  BY BoundsAssumption, OperatingDayTyped DEF Times
<1>0. action[r][k] \in ActionRow
  BY DEF TypeOK
<1>2. [action[r][k] EXCEPT !.status = "confirmed"] \in ActionRow
  BY <1>0 DEF ActionRow
<1>3. action' \in [Requests -> [Attempts -> ActionRow]]
  BY <1>2 DEF TypeOK, Seat
<1>4. assignment' \in [Requests -> AssignmentRow]
  BY <1>1 DEF Seat, TypeOK, AssignmentRow
<1> QED
  BY <1>3, <1>4 DEF Seat, TypeOK, RequestState

LEMMA DropTyped ==
  ASSUME TypeOK, NEW r \in Requests, NEW k \in Attempts,
         NEW st \in {"failed", "withdrawn"},
         NEW why \in {"none", "operator", "capacity_unavailable", "provider_invitation_failed"},
         NEW to \in RequestState,
         Drop(r, k, st, why, to)
  PROVE  /\ action' \in [Requests -> [Attempts -> ActionRow]]
         /\ request' \in [Requests -> RequestState]
<1>0. action[r][k] \in ActionRow
  BY DEF TypeOK
<1>1. [action[r][k] EXCEPT !.status = st, !.reason = why] \in ActionRow
  BY <1>0 DEF ActionRow
<1>2. action' \in [Requests -> [Attempts -> ActionRow]]
  BY <1>1 DEF TypeOK, Drop
<1> QED
  BY <1>2 DEF Drop, TypeOK

LEMMA CloseTyped ==
  ASSUME TypeOK, NEW s \in Sessions, Close(s)
  PROVE  /\ session' \in [Sessions -> SessionState]
         /\ poolLock' \in [owner : Owners \cup {Nobody}, rows : SUBSET Requests]
BY DEF TypeOK, Close, SessionState, Unlocked

LEMMA StepTyped == TypeOK /\ [PoolNext]_vars => TypeOK'
<1> SUFFICES ASSUME TypeOK, [PoolNext]_vars
             PROVE  TypeOK'
  OBVIOUS
<1>1. ASSUME NEW s \in Sessions, Begin(s) PROVE TypeOK'
  <2>1. session' \in [Sessions -> SessionState]
    <3>1. CASE \E op \in SeatOperations \cap Operations, r \in Requests :
                 session' = [session EXCEPT ![s] =
                   [phase |-> "begun", op |-> op, r |-> r, at |-> now]]
      BY <3>1 DEF TypeOK, SessionState
    <3>2. CASE \E day \in Days, q \in 0..MaxQty :
                 session' = [session EXCEPT ![s] =
                   [phase |-> "begun", op |-> "change",
                    row |-> [from |-> day, qty |-> q, createdAt |-> now]]]
      BY <3>2 DEF TypeOK, SessionState, CapacityRow
    <3> QED
      BY <1>1, <3>1, <3>2 DEF Begin
  <2> QED
    BY <1>1, <2>1 DEF Begin, TypeOK
<1>2. ASSUME NEW s \in Sessions, Evaluate(s) PROVE TypeOK'
  <2>1. session[s].phase = "begun"
    BY <1>2 DEF Evaluate
  <2>2. session' \in [Sessions -> SessionState]
    <3>1. CASE session[s].op = "change"
      BY <1>2, <2>1, <3>1, SessionTyped DEF Evaluate, TypeOK, SessionState
    <3>2. CASE session[s].op \in SeatOperations
      <4>1. SeatFor(session[s]) \in BOOLEAN
        BY DEF SeatFor
      <4>2. session[s].op # "change"
        BY <3>2 DEF SeatOperations
      <4> QED
        BY <1>2, <2>1, <3>2, <4>1, <4>2, SessionTyped DEF Evaluate, TypeOK, SessionState
    <3> QED
      BY <2>1, <3>1, <3>2, SessionTyped
  <2>3. poolLock' \in [owner : Owners \cup {Nobody}, rows : SUBSET Requests]
    BY <1>2, <2>1, SessionTyped DEF Evaluate, Owners
  <2> QED
    BY <1>2, <2>2, <2>3 DEF Evaluate, TypeOK
<1>3. ASSUME NEW s \in Sessions, Refuse(s) PROVE TypeOK'
  BY <1>3 DEF Refuse, TypeOK, SessionState
<1>4. ASSUME NEW s \in Sessions, Rollback(s) PROVE TypeOK'
  BY <1>4, CloseTyped DEF Rollback, TypeOK
<1>5. ASSUME NEW s \in Sessions, CommitApproval(s) PROVE TypeOK'
  <2>1. session[s].r \in Requests /\ session[s].at \in Times
    BY <1>5, SessionTyped DEF CommitApproval, Evaluated, SeatOperations
  <2>2. /\ action' \in [Requests -> [Attempts -> ActionRow]]
        /\ request' \in [Requests -> RequestState]
    <3>1. CASE \E kind \in Kinds : Issue(session[s].r, kind, session[s].at)
      BY <2>1, <3>1, IssueTyped
    <3>2. CASE Block(session[s].r)
      BY <3>2 DEF Block, TypeOK, RequestState
    <3> QED
      BY <1>5, <3>1, <3>2 DEF CommitApproval
  <2> QED
    BY <1>5, <2>2, CloseTyped DEF CommitApproval, TypeOK
<1>6. ASSUME NEW s \in Sessions, CommitConfirmation(s) PROVE TypeOK'
  <2>1. session[s].r \in Requests /\ session[s].at \in Times
    BY <1>6, SessionTyped DEF CommitConfirmation, Evaluated, SeatOperations
  <2>2. PICK k \in Attempts : Seat(session[s].r, k, session[s].at)
    BY <1>6 DEF CommitConfirmation, ChecklistOf, LiveAttempts
  <2> QED
    BY <1>6, <2>1, <2>2, SeatTyped, CloseTyped DEF CommitConfirmation, TypeOK
<1>7. ASSUME NEW s \in Sessions, CommitRetry(s) PROVE TypeOK'
  <2>1. session[s].r \in Requests /\ session[s].at \in Times
    BY <1>7, SessionTyped DEF CommitRetry, Evaluated, SeatOperations
  <2> QED
    BY <1>7, <2>1, IssueTyped, CloseTyped DEF CommitRetry, TypeOK
<1>8. ASSUME NEW s \in Sessions, CommitCapacity(s) PROVE TypeOK'
  <2>1. session[s].row \in CapacityRow
    BY <1>8, SessionTyped DEF CommitCapacity, Evaluated
  <2>2. work' \in [Days -> WorkRow]
    BY <1>8, <2>1 DEF CommitCapacity, TypeOK, WorkRow, CapacityRow
  <2> QED
    BY <1>8, <2>1, <2>2, CloseTyped DEF CommitCapacity, TypeOK
<1>9. ASSUME NEW r \in Requests, Reject(r) PROVE TypeOK'
  BY <1>9 DEF Reject, TypeOK, RequestState
<1>10. ASSUME NEW r \in Requests, MarkChecklistNotDone(r) PROVE TypeOK'
  <2>1. PICK k \in Attempts : Drop(r, k, "failed", "operator", "failed")
    BY <1>10 DEF MarkChecklistNotDone, ChecklistOf, LiveAttempts
  <2> QED
    BY <1>10, <2>1, DropTyped DEF MarkChecklistNotDone, TypeOK, RequestState
<1>11. ASSUME NEW r \in Requests, DeliverInvite(r) PROVE TypeOK'
  <2>1. PICK k \in Attempts : action' = [action EXCEPT ![r][k].status = "sent"]
    BY <1>11 DEF DeliverInvite, PendingInvites
  <2>2. action[r][k] \in ActionRow
    BY DEF TypeOK
  <2>3. [action[r][k] EXCEPT !.status = "sent"] \in ActionRow
    BY <2>2 DEF ActionRow
  <2>4. action' \in [Requests -> [Attempts -> ActionRow]]
    BY <2>1, <2>3 DEF TypeOK
  <2> QED
    BY <1>11, <2>4 DEF DeliverInvite, TypeOK, RequestState
<1>12. ASSUME NEW r \in Requests, RefuseInviteNoSeat(r) PROVE TypeOK'
  <2>1. PICK k \in Attempts : Drop(r, k, "failed", "capacity_unavailable", "blocked_no_seat")
    BY <1>12 DEF RefuseInviteNoSeat, PendingInvites
  <2> QED
    BY <1>12, <2>1, DropTyped DEF RefuseInviteNoSeat, TypeOK, RequestState
<1>13. ASSUME NEW r \in Requests, FailInvite(r) PROVE TypeOK'
  <2>1. PICK k \in Attempts : Drop(r, k, "failed", "provider_invitation_failed", "failed")
    BY <1>13 DEF FailInvite, PendingInvites
  <2> QED
    BY <1>13, <2>1, DropTyped DEF FailInvite, TypeOK, RequestState
<1>14. ASSUME NEW r \in Requests, NEW at \in Times, ActivateMember(r, at) PROVE TypeOK'
  <2>1. PICK k \in Attempts : Seat(r, k, at)
    BY <1>14 DEF ActivateMember, SentInvites
  <2> QED
    BY <1>14, <2>1, SeatTyped DEF ActivateMember, TypeOK
<1>15. ASSUME NEW r \in Requests, WithdrawInvitation(r) PROVE TypeOK'
  <2>1. PICK k \in Attempts : Drop(r, k, "withdrawn", "none", "deprovisioned")
    BY <1>15 DEF WithdrawInvitation, SentInvites
  <2> QED
    BY <1>15, <2>1, DropTyped DEF WithdrawInvitation, TypeOK, RequestState
<1>16. ASSUME NEW r \in Requests, StartOffboarding(r) PROVE TypeOK'
  BY <1>16 DEF StartOffboarding, TypeOK, RequestState
<1>17. ASSUME NEW r \in Requests, NEW at \in Times, CompleteOffboarding(r, at) PROVE TypeOK'
  <2>1. assignment[r] \in AssignmentRow /\ OperatingDay[at] \in Days
    BY OperatingDayTyped DEF TypeOK
  <2>2. assignment' \in [Requests -> AssignmentRow]
    BY <1>17, <2>1 DEF CompleteOffboarding, TypeOK, AssignmentRow
  <2> QED
    BY <1>17, <2>2 DEF CompleteOffboarding, TypeOK, RequestState
<1>18. CASE Tick
  BY <1>18, BoundsAssumption DEF Tick, TypeOK, Times
<1>19. CASE UNCHANGED vars
  BY <1>19 DEF vars, TypeOK
<1> QED
  BY <1>1, <1>2, <1>3, <1>4, <1>5, <1>6, <1>7, <1>8, <1>9, <1>10, <1>11, <1>12,
     <1>13, <1>14, <1>15, <1>16, <1>17, <1>18, <1>19
  DEF PoolNext, SessionStep, RequestStep

\* The tables, the open transactions and the lock always hold what the schema
\* and the code can store in them.
THEOREM TypeCorrect == Spec => []TypeOK
  BY InitTyped, StepTyped, PTL DEF Spec

-------------------------------------------------------------------------------
(* The lock: what a transaction read under it stays true until it commits *)

\* A transaction that has evaluated holds the pool lock and its request's rows,
\* and the command is still admissible.
LockInv ==
  \A s \in Sessions : session[s].phase = "evaluated" =>
    /\ poolLock.owner = s
    /\ Admissible(session[s])
    /\ session[s].op \in SeatOperations => poolLock.rows = {session[s].r}
    /\ session[s].op = "retry" => NextAttempts(session[s].r) # {}

\* A transaction without the pool lock touches one request, whose rows are free.
LEMMA RequestStepLocal ==
  ASSUME TypeOK, NEW r \in Requests, RequestStep(r)
  PROVE  /\ RowFree(r)
         /\ UNCHANGED <<now, capacity, work, session, poolLock>>
         /\ \A q \in Requests \ {r} : /\ request'[q] = request[q]
                                      /\ action'[q] = action[q]
                                      /\ assignment'[q] = assignment[q]
<1>1. CASE Reject(r)
  BY <1>1 DEF Reject, TypeOK
<1>2. CASE MarkChecklistNotDone(r)
  BY <1>2 DEF MarkChecklistNotDone, Drop, TypeOK
<1>3. CASE DeliverInvite(r)
  BY <1>3 DEF DeliverInvite, TypeOK
<1>4. CASE RefuseInviteNoSeat(r)
  BY <1>4 DEF RefuseInviteNoSeat, Drop, TypeOK
<1>5. CASE FailInvite(r)
  BY <1>5 DEF FailInvite, Drop, TypeOK
<1>6. CASE WithdrawInvitation(r)
  BY <1>6 DEF WithdrawInvitation, Drop, TypeOK
<1>7. CASE StartOffboarding(r)
  BY <1>7 DEF StartOffboarding, TypeOK
<1>8. ASSUME NEW at \in Times, ActivateMember(r, at)
      PROVE  /\ RowFree(r)
             /\ UNCHANGED <<now, capacity, work, session, poolLock>>
             /\ \A q \in Requests \ {r} : /\ request'[q] = request[q]
                                          /\ action'[q] = action[q]
                                          /\ assignment'[q] = assignment[q]
  BY <1>8 DEF ActivateMember, Seat, TypeOK
<1>9. ASSUME NEW at \in Times, CompleteOffboarding(r, at)
      PROVE  /\ RowFree(r)
             /\ UNCHANGED <<now, capacity, work, session, poolLock>>
             /\ \A q \in Requests \ {r} : /\ request'[q] = request[q]
                                          /\ action'[q] = action[q]
                                          /\ assignment'[q] = assignment[q]
  BY <1>9 DEF CompleteOffboarding, TypeOK
<1> QED
  BY <1>1, <1>2, <1>3, <1>4, <1>5, <1>6, <1>7, <1>8, <1>9 DEF RequestStep

\* What an admissible command rests on is its own request and the capacity rows.
LEMMA AdmissibleKept ==
  ASSUME NEW q \in Sessions, session'[q] = session[q], capacity' = capacity,
         Admissible(session[q]),
         session[q].op \in SeatOperations \cup {"change"},
         session[q].op \in SeatOperations =>
           /\ request'[session[q].r] = request[session[q].r]
           /\ action'[session[q].r] = action[session[q].r]
  PROVE  /\ Admissible(session[q])'
         /\ session[q].op \in SeatOperations =>
              NextAttempts(session[q].r)' = NextAttempts(session[q].r)
<1>1. CASE session[q].op = "approve"
  BY <1>1 DEF Admissible, SeatOperations, NextAttempts
<1>2. CASE session[q].op = "confirm"
  BY <1>2 DEF Admissible, SeatOperations, NextAttempts, ChecklistOf, LiveAttempts, Live
<1>3. CASE session[q].op = "retry"
  BY <1>3 DEF Admissible, SeatOperations, NextAttempts, Retryable, LiveAttempts, Live
<1>4. CASE session[q].op = "change"
  BY <1>4 DEF Admissible, SeatOperations
<1> QED
  BY <1>1, <1>2, <1>3, <1>4 DEF SeatOperations

LEMMA LockInitial == Init => LockInv
BY DEF Init, LockInv, Idle

\* Only the holder of the pool lock has evaluated.
LEMMA OneHolder ==
  ASSUME LockInv, NEW s \in Sessions, NEW q \in Sessions,
         session[q].phase = "evaluated",
         PoolFree \/ session[s].phase = "evaluated"
  PROVE  q = s /\ ~PoolFree
BY OwnersAssumption DEF LockInv, PoolFree, Owners

LEMMA LockStep == TypeOK /\ LockInv /\ [PoolNext]_vars => LockInv'
<1> DEFINE Holds(q) ==
      /\ poolLock.owner = q
      /\ Admissible(session[q])
      /\ session[q].op \in SeatOperations => poolLock.rows = {session[q].r}
      /\ session[q].op = "retry" => NextAttempts(session[q].r) # {}
<1> SUFFICES ASSUME TypeOK, LockInv, [PoolNext]_vars, NEW q \in Sessions,
                    session'[q].phase = "evaluated"
             PROVE  Holds(q)'
  BY DEF LockInv
<1>1. ASSUME session'[q] = session[q], UNCHANGED <<capacity, poolLock>>,
             session[q].op \in SeatOperations =>
               /\ request'[session[q].r] = request[session[q].r]
               /\ action'[session[q].r] = action[session[q].r]
      PROVE  Holds(q)'
  <2>1. Holds(q) /\ session[q].op \in SeatOperations \cup {"change"}
    BY <1>1, SessionTyped DEF LockInv
  <2>2. /\ Admissible(session[q])'
        /\ session[q].op \in SeatOperations =>
             NextAttempts(session[q].r)' = NextAttempts(session[q].r)
    BY <1>1, <2>1, AdmissibleKept
  <2> QED
    BY <1>1, <2>1, <2>2 DEF SeatOperations
\* A step that ends the holder's transaction leaves no evaluated one.
<1>2. ASSUME NEW s \in Sessions, session[s].phase = "evaluated", Close(s)
      PROVE  FALSE
  <2>1. q # s /\ session'[q] = session[q]
    BY <1>2 DEF Close, TypeOK, Idle
  <2> QED
    BY <1>2, <2>1, OneHolder
<1>3. ASSUME NEW s \in Sessions, Begin(s) PROVE Holds(q)'
  <2>1. q # s /\ session'[q] = session[q]
    BY <1>3 DEF Begin, TypeOK
  <2> QED
    BY <1>1, <1>3, <2>1 DEF Begin
<1>4. ASSUME NEW s \in Sessions, Evaluate(s) PROVE Holds(q)'
  <2>1. q = s
    <3>1. session[s].phase = "begun" /\ PoolFree
      BY <1>4 DEF Evaluate
    <3>2. q # s => session'[q] = session[q]
      BY <1>4 DEF Evaluate, TypeOK
    <3> QED
      BY <3>1, <3>2, OneHolder
  <2>2. /\ session[s].phase = "begun" /\ Admissible(session[s])
        /\ session[s].op = "retry" => NextAttempts(session[s].r) # {}
        /\ UNCHANGED <<request, action, capacity>>
    BY <1>4 DEF Evaluate
  <2>3. CASE session[s].op = "change"
    <3>1. /\ session'[s] = [phase |-> "evaluated", op |-> "change", row |-> session[s].row]
          /\ poolLock' = [owner |-> s, rows |-> {}]
      BY <1>4, <2>3 DEF Evaluate, TypeOK
    <3> QED
      BY <2>1, <2>2, <2>3, <3>1 DEF Admissible, SeatOperations
  <2>4. CASE session[s].op \in SeatOperations
    <3>1. /\ session'[s] = [phase |-> "evaluated", op |-> session[s].op, r |-> session[s].r,
                            at |-> session[s].at, seat |-> SeatFor(session[s])]
          /\ poolLock' = [owner |-> s, rows |-> {session[s].r}]
      BY <1>4, <2>4 DEF Evaluate, TypeOK, SeatOperations
    <3>2. /\ session'[s].op = session[s].op /\ session'[s].r = session[s].r
          /\ poolLock'.owner = s /\ poolLock'.rows = {session[s].r}
      BY <3>1
    <3>3. Admissible(session[s])'
      <4>1. CASE session[s].op = "approve"
        BY <2>2, <3>2, <4>1 DEF Admissible
      <4>2. CASE session[s].op = "confirm"
        BY <2>2, <3>2, <4>2 DEF Admissible, ChecklistOf, LiveAttempts, Live
      <4>3. CASE session[s].op = "retry"
        BY <2>2, <3>2, <4>3 DEF Admissible, Retryable, LiveAttempts, Live
      <4> QED
        BY <2>4, <4>1, <4>2, <4>3 DEF SeatOperations
    <3>4. session[s].op = "retry" => NextAttempts(session[s].r)' # {}
      BY <2>2, <3>2 DEF NextAttempts
    <3> QED
      BY <2>1, <3>2, <3>3, <3>4
  <2> QED
    BY <2>2, <2>3, <2>4, SessionTyped
<1>5. ASSUME NEW s \in Sessions, Refuse(s) PROVE Holds(q)'
  <2>1. session'[q] = session[q]
    BY <1>5 DEF Refuse, TypeOK, Idle
  <2> QED
    BY <1>1, <1>5, <2>1 DEF Refuse
<1>6. ASSUME NEW s \in Sessions,
             Rollback(s) \/ CommitApproval(s) \/ CommitConfirmation(s)
               \/ CommitRetry(s) \/ CommitCapacity(s)
      PROVE  Holds(q)'
  BY <1>2, <1>6 DEF Rollback, CommitApproval, CommitConfirmation, CommitRetry,
                    CommitCapacity, Evaluated
<1>7. ASSUME NEW r \in Requests, RequestStep(r) PROVE Holds(q)'
  <2>1. /\ RowFree(r) /\ UNCHANGED <<capacity, session, poolLock>>
        /\ \A p \in Requests \ {r} : request'[p] = request[p] /\ action'[p] = action[p]
    BY <1>7, RequestStepLocal
  <2>2. session'[q] = session[q] /\ session[q].phase = "evaluated"
    BY <2>1
  <2>3. session[q].op \in SeatOperations =>
          session[q].r \in Requests /\ poolLock.rows = {session[q].r}
    BY <2>2, SessionTyped DEF LockInv
  <2>4. session[q].op \in SeatOperations => session[q].r \in Requests \ {r}
    BY <2>1, <2>3 DEF RowFree
  <2> QED
    BY <1>1, <2>1, <2>2, <2>4
<1>8. CASE Tick
  BY <1>1, <1>8 DEF Tick
<1>9. CASE UNCHANGED vars
  BY <1>1, <1>9 DEF vars
<1> QED
  BY <1>3, <1>4, <1>5, <1>6, <1>7, <1>8, <1>9 DEF PoolNext, SessionStep

\* A transaction that has evaluated holds the lock, and what it read is still
\* true: the reason why a decision taken before the commit is not stale.
THEOREM LockHeld == Spec => []LockInv
<1>1. TypeOK /\ LockInv /\ [PoolNext]_vars => (TypeOK /\ LockInv)'
  BY StepTyped, LockStep
<1>2. Init => TypeOK /\ LockInv
  BY InitTyped, LockInitial
<1> QED
  BY <1>1, <1>2, PTL DEF Spec

-------------------------------------------------------------------------------
(* Refinement: the pool implements the life of a request *)

\* The rows of the transition table that the transactions of the pool use.
LEMMA LegalMoves ==
  /\ {"provisioning", "blocked_no_seat", "rejected"} \subseteq Lifecycle!Moves("pending_approval")
  /\ {"invited", "active", "failed", "blocked_no_seat"} \subseteq Lifecycle!Moves("provisioning")
  /\ "provisioning" \in Lifecycle!Moves("failed")
  /\ {"active", "deprovisioned"} \subseteq Lifecycle!Moves("invited")
  /\ "offboarding" \in Lifecycle!Moves("active")
  /\ "deprovisioned" \in Lifecycle!Moves("offboarding")
<1>1. \A s \in {"pending_approval", "approved", "provisioning", "failed", "invited",
                "active", "offboarding"} :
        s \in Lifecycle!State
  BY DEF Lifecycle!State
<1>2. /\ Lifecycle!Transitions["pending_approval"] = {"approved", "rejected"}
      /\ Lifecycle!Transitions["approved"] = {"provisioning", "blocked_no_seat"}
  BY <1>1 DEF Lifecycle!Transitions
<1>3. Lifecycle!Transitions["provisioning"] = {"invited", "active", "failed", "blocked_no_seat"}
  BY <1>1 DEF Lifecycle!Transitions
<1>4. /\ Lifecycle!Transitions["failed"] = {"provisioning"}
      /\ Lifecycle!Transitions["invited"] = {"active", "deprovisioned"}
  BY <1>1 DEF Lifecycle!Transitions
<1>5. /\ Lifecycle!Transitions["active"] = {"flagged_inactive", "offboarding"}
      /\ Lifecycle!Transitions["offboarding"] = {"deprovisioned", "failed"}
  BY <1>1 DEF Lifecycle!Transitions
<1> QED
  BY <1>2, <1>3, <1>4, <1>5 DEF Lifecycle!Moves

\* Moving one request along the table is a step of the abstract life.
LEMMA LegalStep ==
  ASSUME TypeOK, NEW r \in Requests, NEW to \in RequestState,
         to \in Lifecycle!Moves(request[r]),
         request' = [request EXCEPT ![r] = to]
  PROVE  Lifecycle!Next
<1>1. RequestState \subseteq Lifecycle!State
  BY DEF RequestState, Lifecycle!State
<1>2. request' \in [Requests -> Lifecycle!State]
  BY <1>1 DEF TypeOK
<1>3. \A q \in Requests :
        request'[q] = request[q] \/ request'[q] \in Lifecycle!Moves(request[q])
  BY DEF TypeOK
<1> QED
  BY <1>2, <1>3 DEF Lifecycle!Next

LEMMA LifecycleStep ==
  TypeOK /\ LockInv /\ [PoolNext]_vars => [Lifecycle!Next]_request
<1> SUFFICES ASSUME TypeOK, LockInv, [PoolNext]_vars, request' # request
             PROVE  Lifecycle!Next
  OBVIOUS
<1> USE DEF RequestState
<1>1. ASSUME NEW s \in Sessions, CommitApproval(s) PROVE Lifecycle!Next
  <2>1. session[s].r \in Requests /\ request[session[s].r] = "pending_approval"
    BY <1>1, SessionTyped DEF CommitApproval, Evaluated, LockInv, Admissible, SeatOperations
  <2>2. \E to \in {"provisioning", "blocked_no_seat"} :
          request' = [request EXCEPT ![session[s].r] = to]
    BY <1>1 DEF CommitApproval, Issue, Block
  <2> QED
    BY <2>1, <2>2, LegalMoves, LegalStep
<1>2. ASSUME NEW s \in Sessions, CommitConfirmation(s) PROVE Lifecycle!Next
  <2>1. session[s].r \in Requests /\ request[session[s].r] = "provisioning"
    BY <1>2, SessionTyped
    DEF CommitConfirmation, Evaluated, LockInv, Admissible, SeatOperations
  <2>2. request' = [request EXCEPT ![session[s].r] = "active"]
    BY <1>2 DEF CommitConfirmation, Seat
  <2> QED
    BY <2>1, <2>2, LegalMoves, LegalStep
<1>3. ASSUME NEW s \in Sessions, CommitRetry(s) PROVE Lifecycle!Next
  <2>1. session[s].r \in Requests /\ request[session[s].r] = "failed"
    BY <1>3, SessionTyped
    DEF CommitRetry, Evaluated, LockInv, Admissible, Retryable, SeatOperations
  <2>2. request' = [request EXCEPT ![session[s].r] = "provisioning"]
    BY <1>3 DEF CommitRetry, Issue
  <2> QED
    BY <2>1, <2>2, LegalMoves, LegalStep
<1>4. ASSUME NEW r \in Requests, Reject(r) PROVE Lifecycle!Next
  BY <1>4, LegalMoves, LegalStep DEF Reject
<1>5. ASSUME NEW r \in Requests,
             MarkChecklistNotDone(r) \/ RefuseInviteNoSeat(r) \/ FailInvite(r) \/ DeliverInvite(r)
      PROVE  Lifecycle!Next
  <2>1. request[r] = "provisioning"
    BY <1>5 DEF MarkChecklistNotDone, RefuseInviteNoSeat, FailInvite, DeliverInvite
  <2>2. \E to \in {"failed", "blocked_no_seat", "invited"} :
          request' = [request EXCEPT ![r] = to]
    BY <1>5 DEF MarkChecklistNotDone, RefuseInviteNoSeat, FailInvite, DeliverInvite, Drop
  <2> QED
    BY <2>1, <2>2, LegalMoves, LegalStep
<1>6. ASSUME NEW r \in Requests,
             WithdrawInvitation(r) \/ \E at \in Times : ActivateMember(r, at)
      PROVE  Lifecycle!Next
  <2>1. request[r] = "invited"
    BY <1>6 DEF ActivateMember, WithdrawInvitation
  <2>2. \E to \in {"active", "deprovisioned"} : request' = [request EXCEPT ![r] = to]
    BY <1>6 DEF ActivateMember, WithdrawInvitation, Drop, Seat
  <2> QED
    BY <2>1, <2>2, LegalMoves, LegalStep
<1>7. ASSUME NEW r \in Requests, StartOffboarding(r) PROVE Lifecycle!Next
  BY <1>7, LegalMoves, LegalStep DEF StartOffboarding
<1>8. ASSUME NEW r \in Requests, NEW at \in Times, CompleteOffboarding(r, at)
      PROVE  Lifecycle!Next
  BY <1>8, LegalMoves, LegalStep DEF CompleteOffboarding
\* Every other step leaves the requests alone.
<1>9. ASSUME NEW s \in Sessions,
             Begin(s) \/ Evaluate(s) \/ Refuse(s) \/ Rollback(s) \/ CommitCapacity(s)
      PROVE  FALSE
  BY <1>9 DEF Begin, Evaluate, Refuse, Rollback, CommitCapacity
<1>10. CASE Tick \/ UNCHANGED vars
  BY <1>10 DEF Tick, vars
<1> QED
  BY <1>1, <1>2, <1>3, <1>4, <1>5, <1>6, <1>7, <1>8, <1>9, <1>10
  DEF PoolNext, SessionStep, RequestStep

\* Whatever the transactions interleave, requests move only along the table of
\* REQUEST_TRANSITIONS: SeatPool implements RequestLifecycle.
THEOREM LifecycleImplemented == Spec => LifecycleIsLegal
<1>1. Init => Lifecycle!Init
  BY DEF Init, Lifecycle!Init
<1> QED
  BY <1>1, LifecycleStep, TypeCorrect, LockHeld, PTL DEF Spec, LifecycleIsLegal, Lifecycle!Spec

-------------------------------------------------------------------------------
(* Requests and their provision actions *)

\* ActionMatchesState one request at a time, strengthened: a request nobody has
\* decided has no action row at all, so that its first attempt is free.
ActionMatches(r) ==
  /\ request[r] = "provisioning" =>
       \E k \in Attempts : LiveAttempts(r) = {k} /\ action[r][k].status = "pending"
  /\ request[r] = "invited" =>
       \E k \in Attempts : LiveAttempts(r) = {k} /\ k \in SentInvites(r)
  /\ request[r] \notin {"provisioning", "invited"} => LiveAttempts(r) = {}
  /\ request[r] = "pending_approval" => \A k \in Attempts : action[r][k].status = "none"

ActionInv == \A r \in Requests : ActionMatches(r)

LEMMA ActionInvSuffices == ActionInv => ActionMatchesState
<1> SUFFICES ASSUME ActionInv, NEW r \in Requests
             PROVE  CASE request[r] = "provisioning" ->
                           \E k \in Attempts :
                             LiveAttempts(r) = {k} /\ action[r][k].status = "pending"
                      [] request[r] = "invited" ->
                           \E k \in Attempts : LiveAttempts(r) = {k} /\ k \in SentInvites(r)
                      [] OTHER -> LiveAttempts(r) = {}
  BY DEF ActionMatchesState
<1>1. ActionMatches(r)
  BY DEF ActionInv
<1>2. CASE request[r] = "provisioning"
  BY <1>1, <1>2 DEF ActionMatches
<1>3. CASE request[r] = "invited"
  BY <1>1, <1>3 DEF ActionMatches
<1>4. CASE request[r] \notin {"provisioning", "invited"}
  BY <1>1, <1>4 DEF ActionMatches
<1> QED
  BY <1>2, <1>3, <1>4

\* The row an INSERT fills is unused, and becomes the request's only live one.
LEMMA IssueLive ==
  ASSUME TypeOK, NEW r \in Requests, NEW kind \in Kinds, NEW at \in Times,
         Issue(r, kind, at), LiveAttempts(r) = {}, NextAttempts(r) # {}
  PROVE  \E k \in Attempts :
           /\ action[r][k].status = "none" /\ action'[r][k].status = "pending"
           /\ \A j \in Attempts \ {k} : action'[r][j] = action[r][j]
           /\ LiveAttempts(r)' = {k}
<1> DEFINE k == NextAttempt(r)
<1>1. k \in NextAttempts(r)
  BY DEF NextAttempt
<1>2. k \in Attempts /\ action[r][k].status = "none"
  BY <1>1 DEF NextAttempts
<1> HIDE DEF k
<1>3. action'[r] = [action[r] EXCEPT ![k] = Issued(kind, at)]
  BY DEF Issue, TypeOK, k
<1>4. action[r] \in [Attempts -> ActionRow]
  BY DEF TypeOK
<1>5. /\ action'[r][k].status = "pending"
      /\ \A j \in Attempts \ {k} : action'[r][j] = action[r][j]
  BY <1>2, <1>3, <1>4 DEF Issued
<1>6. LiveAttempts(r)' = {k}
  BY <1>2, <1>5 DEF LiveAttempts, Live
<1> QED
  BY <1>2, <1>5, <1>6

\* Ending the only live action of a request leaves it none.
LEMMA EndLive ==
  ASSUME TypeOK, NEW r \in Requests, NEW k \in Attempts, LiveAttempts(r) = {k},
         NEW st \in {"confirmed", "failed", "withdrawn"},
         action'[r][k].status = st,
         \A j \in Attempts \ {k} : action'[r][j] = action[r][j]
  PROVE  LiveAttempts(r)' = {}
BY DEF LiveAttempts, Live

LEMMA DropEffect ==
  ASSUME TypeOK, NEW r \in Requests, NEW k \in Attempts, NEW st, NEW why, NEW to,
         Drop(r, k, st, why, to)
  PROVE  /\ action'[r][k].status = st
         /\ \A j \in Attempts \ {k} : action'[r][j] = action[r][j]
         /\ request'[r] = to
<1>1. action[r] \in [Attempts -> ActionRow] /\ action[r][k] \in ActionRow
  BY DEF TypeOK
<1>2. action'[r] = [action[r] EXCEPT ![k] = [@ EXCEPT !.status = st, !.reason = why]]
  BY DEF Drop, TypeOK
<1>3. [action[r][k] EXCEPT !.status = st, !.reason = why].status = st
  BY <1>1 DEF ActionRow
<1> QED
  BY <1>1, <1>2, <1>3 DEF Drop, TypeOK

LEMMA SeatEffect ==
  ASSUME TypeOK, NEW r \in Requests, NEW k \in Attempts, NEW at \in Times, Seat(r, k, at)
  PROVE  /\ action'[r][k].status = "confirmed"
         /\ \A j \in Attempts \ {k} : action'[r][j] = action[r][j]
         /\ request'[r] = "active"
         /\ assignment'[r].status = "open"
<1>1. action[r] \in [Attempts -> ActionRow] /\ action[r][k] \in ActionRow
  BY DEF TypeOK
<1>2. action'[r] = [action[r] EXCEPT ![k].status = "confirmed"]
  BY DEF Seat, TypeOK
<1>3. [action[r][k] EXCEPT !.status = "confirmed"].status = "confirmed"
  BY <1>1 DEF ActionRow
<1> QED
  BY <1>1, <1>2, <1>3 DEF Seat, TypeOK

\* An approval of a request nobody has decided has a free first attempt.
LEMMA FirstAttempt ==
  ASSUME NEW r \in Requests, \A k \in Attempts : action[r][k].status = "none"
  PROVE  NextAttempts(r) # {}
<1>1. 1 \in Attempts /\ 1..(1 - 1) = {}
  BY BoundsAssumption DEF Attempts
<1> QED
  BY <1>1 DEF NextAttempts

\* The commit of a transaction touches the one request it decided about.
LEMMA CommitLocal ==
  ASSUME TypeOK, LockInv, NEW s \in Sessions,
         CommitApproval(s) \/ CommitConfirmation(s) \/ CommitRetry(s)
  PROVE  /\ session[s].phase = "evaluated" /\ session[s].op \in SeatOperations
         /\ session[s].r \in Requests /\ session[s].at \in Times
         /\ Admissible(session[s])
         /\ \A q \in Requests \ {session[s].r} :
              /\ request'[q] = request[q]
              /\ action'[q] = action[q]
              /\ assignment'[q] = assignment[q]
<1>1. session[s].phase = "evaluated" /\ session[s].op \in SeatOperations
  BY DEF CommitApproval, CommitConfirmation, CommitRetry, Evaluated, SeatOperations
<1>2. /\ session[s].r \in Requests /\ session[s].at \in Times
      /\ Admissible(session[s])
  BY <1>1, SessionTyped DEF LockInv
<1>3. CASE CommitApproval(s)
  BY <1>1, <1>2, <1>3 DEF CommitApproval, Issue, Block, TypeOK
<1>4. CASE CommitConfirmation(s)
  BY <1>1, <1>2, <1>4 DEF CommitConfirmation, Seat, TypeOK
<1>5. CASE CommitRetry(s)
  BY <1>1, <1>2, <1>5 DEF CommitRetry, Issue, TypeOK
<1> QED
  BY <1>3, <1>4, <1>5

LEMMA ActionInitial == Init => ActionInv
<1> SUFFICES ASSUME Init, NEW r \in Requests PROVE ActionMatches(r)
  BY DEF ActionInv
<1>1. request[r] = "pending_approval" /\ \A k \in Attempts : action[r][k].status = "none"
  BY DEF Init, NoAction
<1> QED
  BY <1>1 DEF ActionMatches, LiveAttempts, Live

LEMMA ActionStep == TypeOK /\ LockInv /\ ActionInv /\ [PoolNext]_vars => ActionInv'
<1> SUFFICES ASSUME TypeOK, LockInv, ActionInv, [PoolNext]_vars, NEW q \in Requests
             PROVE  ActionMatches(q)'
  BY DEF ActionInv
<1>0. ActionMatches(q)
  BY DEF ActionInv
<1>1. ASSUME request'[q] = request[q], action'[q] = action[q] PROVE ActionMatches(q)'
  BY <1>0, <1>1 DEF ActionMatches, LiveAttempts, Live, SentInvites
\* The three ways a step leaves a request it touches.
<1>2. ASSUME request'[q] = "provisioning",
             \E k \in Attempts : LiveAttempts(q)' = {k} /\ action'[q][k].status = "pending"
      PROVE  ActionMatches(q)'
  BY <1>2 DEF ActionMatches
<1>3. ASSUME request'[q] \notin {"provisioning", "invited", "pending_approval"},
             LiveAttempts(q)' = {}
      PROVE  ActionMatches(q)'
  BY <1>3 DEF ActionMatches
<1>4. ASSUME request'[q] \notin {"provisioning", "invited", "pending_approval"},
             request[q] \notin {"provisioning", "invited"}, action' = action
      PROVE  ActionMatches(q)'
  <2>1. LiveAttempts(q)' = LiveAttempts(q)
    BY <1>4 DEF LiveAttempts, Live
  <2> QED
    BY <1>0, <1>3, <1>4, <2>1 DEF ActionMatches
<1>5. ASSUME NEW s \in Sessions, CommitApproval(s) PROVE ActionMatches(q)'
  <2>1. CASE q # session[s].r
    BY <1>1, <1>5, <2>1, CommitLocal
  <2>2. CASE q = session[s].r
    <3>1. request[q] = "pending_approval"
      BY <1>5, <2>2, CommitLocal DEF Admissible, CommitApproval, Evaluated
    <3>2. LiveAttempts(q) = {} /\ NextAttempts(q) # {}
      BY <1>0, <3>1, FirstAttempt DEF ActionMatches
    <3>3. ASSUME NEW kind \in Kinds, Issue(q, kind, session[s].at) PROVE ActionMatches(q)'
      <4>1. request'[q] = "provisioning"
        BY <3>3 DEF Issue, TypeOK
      <4>2. \E k \in Attempts : LiveAttempts(q)' = {k} /\ action'[q][k].status = "pending"
        BY <1>5, <3>2, <3>3, CommitLocal, IssueLive
      <4> QED
        BY <1>2, <4>1, <4>2
    <3>4. ASSUME Block(q) PROVE ActionMatches(q)'
      BY <1>4, <3>1, <3>4 DEF Block, TypeOK
    <3> QED
      BY <1>5, <2>2, <3>3, <3>4 DEF CommitApproval
  <2> QED
    BY <2>1, <2>2
<1>6. ASSUME NEW s \in Sessions, CommitConfirmation(s) PROVE ActionMatches(q)'
  <2>1. CASE q # session[s].r
    BY <1>1, <1>6, <2>1, CommitLocal
  <2>2. CASE q = session[s].r
    <3>1. request[q] = "provisioning"
      BY <1>6, <2>2, CommitLocal DEF Admissible, CommitConfirmation, Evaluated
    <3>2. PICK k \in ChecklistOf(q) : Seat(q, k, session[s].at)
      BY <1>6, <2>2 DEF CommitConfirmation
    <3>3. k \in Attempts /\ LiveAttempts(q) = {k}
      BY <1>0, <3>1, <3>2 DEF ActionMatches, ChecklistOf, LiveAttempts
    <3>4. request'[q] = "active" /\ LiveAttempts(q)' = {}
      BY <1>6, <3>2, <3>3, CommitLocal, SeatEffect, EndLive
    <3> QED
      BY <1>3, <3>4
  <2> QED
    BY <2>1, <2>2
<1>7. ASSUME NEW s \in Sessions, CommitRetry(s) PROVE ActionMatches(q)'
  <2>1. CASE q # session[s].r
    BY <1>1, <1>7, <2>1, CommitLocal
  <2>2. CASE q = session[s].r
    <3>1. LiveAttempts(q) = {} /\ NextAttempts(q) # {}
      BY <1>7, <2>2, CommitLocal
      DEF Admissible, Retryable, CommitRetry, Evaluated, LockInv
    <3>2. PICK kind \in Kinds : Issue(q, kind, session[s].at)
      BY <1>7, <2>2 DEF CommitRetry
    <3>3. request'[q] = "provisioning"
      BY <3>2 DEF Issue, TypeOK
    <3>4. \E k \in Attempts : LiveAttempts(q)' = {k} /\ action'[q][k].status = "pending"
      BY <1>7, <3>1, <3>2, CommitLocal, IssueLive
    <3> QED
      BY <1>2, <3>3, <3>4
  <2> QED
    BY <2>1, <2>2
<1>8. ASSUME NEW r \in Requests, RequestStep(r), q # r PROVE ActionMatches(q)'
  BY <1>1, <1>8, RequestStepLocal
<1>9. ASSUME Reject(q) \/ StartOffboarding(q) \/ \E at \in Times : CompleteOffboarding(q, at)
      PROVE  ActionMatches(q)'
  BY <1>4, <1>9 DEF Reject, StartOffboarding, CompleteOffboarding, TypeOK
<1>10. ASSUME MarkChecklistNotDone(q) \/ RefuseInviteNoSeat(q) \/ FailInvite(q)
       PROVE  ActionMatches(q)'
  <2>1. PICK k \in LiveAttempts(q),
              why \in {"operator", "capacity_unavailable", "provider_invitation_failed"},
              to \in {"failed", "blocked_no_seat"} : Drop(q, k, "failed", why, to)
    BY <1>10 DEF MarkChecklistNotDone, RefuseInviteNoSeat, FailInvite,
                 ChecklistOf, PendingInvites, LiveAttempts, Live
  <2>2. k \in Attempts /\ LiveAttempts(q) = {k}
    BY <1>0, <1>10, <2>1
    DEF ActionMatches, LiveAttempts, MarkChecklistNotDone, RefuseInviteNoSeat, FailInvite
  <2>3. request'[q] \in {"failed", "blocked_no_seat"} /\ LiveAttempts(q)' = {}
    BY <2>1, <2>2, DropEffect, EndLive
  <2> QED
    BY <1>3, <2>3
<1>11. ASSUME WithdrawInvitation(q) PROVE ActionMatches(q)'
  <2>1. PICK k \in SentInvites(q) : Drop(q, k, "withdrawn", "none", "deprovisioned")
    BY <1>11 DEF WithdrawInvitation
  <2>2. k \in Attempts /\ LiveAttempts(q) = {k}
    BY <1>0, <1>11, <2>1 DEF ActionMatches, LiveAttempts, Live, SentInvites, WithdrawInvitation
  <2>3. request'[q] = "deprovisioned" /\ LiveAttempts(q)' = {}
    BY <2>1, <2>2, DropEffect, EndLive
  <2> QED
    BY <1>3, <2>3
<1>12. ASSUME NEW at \in Times, ActivateMember(q, at) PROVE ActionMatches(q)'
  <2>1. PICK k \in SentInvites(q) : Seat(q, k, at)
    BY <1>12 DEF ActivateMember
  <2>2. k \in Attempts /\ LiveAttempts(q) = {k}
    BY <1>0, <1>12, <2>1 DEF ActionMatches, LiveAttempts, Live, SentInvites, ActivateMember
  <2>3. request'[q] = "active" /\ LiveAttempts(q)' = {}
    BY <2>1, <2>2, SeatEffect, EndLive
  <2> QED
    BY <1>3, <2>3
<1>13. ASSUME DeliverInvite(q) PROVE ActionMatches(q)'
  <2>1. PICK k \in PendingInvites(q) : action' = [action EXCEPT ![q][k].status = "sent"]
    BY <1>13 DEF DeliverInvite
  <2>2. k \in Attempts /\ LiveAttempts(q) = {k} /\ action[q][k].kind = "invite"
    BY <1>0, <1>13, <2>1 DEF ActionMatches, LiveAttempts, Live, PendingInvites, DeliverInvite
  <2>3. action[q] \in [Attempts -> ActionRow] /\ action[q][k] \in ActionRow
    BY <2>2 DEF TypeOK
  <2>4. action'[q] = [action[q] EXCEPT ![k].status = "sent"]
    BY <2>1 DEF TypeOK
  <2>5. /\ action'[q][k] = [action[q][k] EXCEPT !.status = "sent"]
        /\ \A j \in Attempts \ {k} : action'[q][j] = action[q][j]
    BY <2>2, <2>3, <2>4
  <2>6. action'[q][k].status = "sent" /\ action'[q][k].kind = "invite"
    BY <2>2, <2>3, <2>5 DEF ActionRow
  <2>7. LiveAttempts(q)' = {k} /\ k \in SentInvites(q)'
    BY <2>2, <2>5, <2>6 DEF LiveAttempts, Live, SentInvites
  <2>8. request'[q] = "invited"
    BY <1>13 DEF DeliverInvite, TypeOK
  <2> QED
    BY <2>2, <2>7, <2>8 DEF ActionMatches
<1>14. ASSUME NEW s \in Sessions,
              Begin(s) \/ Evaluate(s) \/ Refuse(s) \/ Rollback(s) \/ CommitCapacity(s)
       PROVE  ActionMatches(q)'
  BY <1>1, <1>14 DEF Begin, Evaluate, Refuse, Rollback, CommitCapacity
<1>15. CASE Tick \/ UNCHANGED vars
  BY <1>1, <1>15 DEF Tick, vars
<1>16. ASSUME RequestStep(q) PROVE ActionMatches(q)'
  BY <1>9, <1>10, <1>11, <1>12, <1>13, <1>16 DEF RequestStep
<1> QED
  BY <1>5, <1>6, <1>7, <1>8, <1>14, <1>15, <1>16 DEF PoolNext, SessionStep

\* No reservation outlives its request or is held twice, in any interleaving.
THEOREM ActionsMatch == Spec => []ActionMatchesState
<1>1. Init => ActionInv
  BY ActionInitial
<1>2. TypeOK /\ LockInv /\ ActionInv /\ [PoolNext]_vars => ActionInv'
  BY ActionStep
<1> QED
  BY <1>1, <1>2, ActionInvSuffices, TypeCorrect, LockHeld, PTL DEF Spec

-------------------------------------------------------------------------------
(* Requests and their seats *)

\* SeatMatchesState one request at a time.
SeatMatches(r) ==
  /\ assignment[r].status = "open" <=> request[r] \in {"active", "offboarding"}
  /\ assignment[r].status = "ended" => /\ request[r] = "deprovisioned"
                                       /\ assignment[r].startedOn <= assignment[r].endedOn
  /\ IF assignment[r].status = "none"
     THEN \A k \in Attempts : action[r][k].status # "confirmed"
     ELSE \E k \in Attempts :
            \A j \in Attempts : action[r][j].status = "confirmed" <=> j = k

SeatInv == \A r \in Requests : SeatMatches(r)

\* A request that never got further than an invitation has had no seat.
LEMMA NoSeatYet ==
  ASSUME TypeOK, NEW r \in Requests, SeatMatches(r),
         request[r] \notin {"active", "offboarding", "deprovisioned"}
  PROVE  /\ assignment[r].status = "none"
         /\ \A k \in Attempts : action[r][k].status # "confirmed"
<1>1. assignment[r].status \in {"none", "open", "ended"}
  BY DEF TypeOK, AssignmentRow
<1> QED
  BY <1>1 DEF SeatMatches

LEMMA SeatInitial == Init => SeatInv
<1> SUFFICES ASSUME Init, NEW r \in Requests PROVE SeatMatches(r)
  BY DEF SeatInv
<1>1. request[r] = "pending_approval" /\ assignment[r].status = "none"
  BY DEF Init, NoSeat
<1>2. \A k \in Attempts : action[r][k].status # "confirmed"
  BY DEF Init, NoAction
<1> QED
  BY <1>1, <1>2 DEF SeatMatches

LEMMA SeatStep ==
  TypeOK /\ LockInv /\ ActionInv /\ SeatInv /\ [PoolNext]_vars => SeatInv'
<1> SUFFICES ASSUME TypeOK, LockInv, ActionInv, SeatInv, [PoolNext]_vars, NEW q \in Requests
             PROVE  SeatMatches(q)'
  BY DEF SeatInv
<1>0. ActionMatches(q) /\ SeatMatches(q)
  BY DEF ActionInv, SeatInv
<1>1. ASSUME request'[q] = request[q], action'[q] = action[q], assignment'[q] = assignment[q]
      PROVE  SeatMatches(q)'
  BY <1>0, <1>1 DEF SeatMatches
\* A step of a request that has had no seat and still has none.
<1>2. ASSUME request[q] \notin {"active", "offboarding", "deprovisioned"},
             request'[q] \notin {"active", "offboarding"},
             assignment' = assignment,
             NEW k \in Attempts, action'[q][k].status # "confirmed",
             \A j \in Attempts \ {k} : action'[q][j] = action[q][j]
      PROVE  SeatMatches(q)'
  <2>1. assignment'[q].status = "none" /\ \A j \in Attempts : action[q][j].status # "confirmed"
    BY <1>0, <1>2, NoSeatYet
  <2>2. \A j \in Attempts : action'[q][j].status # "confirmed"
    BY <1>2, <2>1
  <2> QED
    BY <1>2, <2>1, <2>2 DEF SeatMatches
\* A step that gives it its seat.
<1>3. ASSUME request[q] \notin {"active", "offboarding", "deprovisioned"},
             NEW k \in Attempts, NEW at \in Times, Seat(q, k, at)
      PROVE  SeatMatches(q)'
  <2>1. \A j \in Attempts : action[q][j].status # "confirmed"
    BY <1>0, <1>3, NoSeatYet
  <2>2. /\ action'[q][k].status = "confirmed"
        /\ \A j \in Attempts \ {k} : action'[q][j] = action[q][j]
        /\ request'[q] = "active" /\ assignment'[q].status = "open"
    BY <1>3, SeatEffect
  <2> QED
    BY <2>1, <2>2 DEF SeatMatches
<1>4. ASSUME NEW s \in Sessions, CommitApproval(s) PROVE SeatMatches(q)'
  <2>1. CASE q # session[s].r
    BY <1>1, <1>4, <2>1, CommitLocal
  <2>2. CASE q = session[s].r
    <3>1. request[q] = "pending_approval" /\ UNCHANGED assignment
      BY <1>4, <2>2, CommitLocal DEF Admissible, CommitApproval, Evaluated
    <3>2. LiveAttempts(q) = {} /\ NextAttempts(q) # {}
      BY <1>0, <3>1, FirstAttempt DEF ActionMatches
    <3>3. ASSUME NEW kind \in Kinds, Issue(q, kind, session[s].at) PROVE SeatMatches(q)'
      <4>1. request'[q] = "provisioning"
        BY <3>3 DEF Issue, TypeOK
      <4>2. \E k \in Attempts : /\ action'[q][k].status = "pending"
                                /\ \A j \in Attempts \ {k} : action'[q][j] = action[q][j]
        BY <1>4, <3>2, <3>3, CommitLocal, IssueLive
      <4> QED
        BY <1>2, <3>1, <4>1, <4>2
    <3>4. ASSUME Block(q) PROVE SeatMatches(q)'
      <4>1. request'[q] = "blocked_no_seat"
        BY <3>4 DEF Block, TypeOK
      <4>2. assignment'[q].status = "none" /\ \A j \in Attempts : action'[q][j].status # "confirmed"
        BY <1>0, <3>1, <3>4, NoSeatYet DEF Block
      <4> QED
        BY <4>1, <4>2 DEF SeatMatches
    <3> QED
      BY <1>4, <2>2, <3>3, <3>4 DEF CommitApproval
  <2> QED
    BY <2>1, <2>2
<1>5. ASSUME NEW s \in Sessions, CommitConfirmation(s) PROVE SeatMatches(q)'
  <2>1. CASE q # session[s].r
    BY <1>1, <1>5, <2>1, CommitLocal
  <2>2. CASE q = session[s].r
    <3>1. request[q] = "provisioning"
      BY <1>5, <2>2, CommitLocal DEF Admissible, CommitConfirmation, Evaluated
    <3>2. PICK k \in ChecklistOf(q) : Seat(q, k, session[s].at)
      BY <1>5, <2>2 DEF CommitConfirmation
    <3> QED
      BY <1>3, <1>5, <3>1, <3>2, CommitLocal DEF ChecklistOf, LiveAttempts
  <2> QED
    BY <2>1, <2>2
<1>6. ASSUME NEW s \in Sessions, CommitRetry(s) PROVE SeatMatches(q)'
  <2>1. CASE q # session[s].r
    BY <1>1, <1>6, <2>1, CommitLocal
  <2>2. CASE q = session[s].r
    <3>1. /\ request[q] = "failed" /\ UNCHANGED assignment
          /\ LiveAttempts(q) = {} /\ NextAttempts(q) # {}
      BY <1>6, <2>2, CommitLocal
      DEF Admissible, Retryable, CommitRetry, Evaluated, LockInv
    <3>2. PICK kind \in Kinds : Issue(q, kind, session[s].at)
      BY <1>6, <2>2 DEF CommitRetry
    <3>3. request'[q] = "provisioning"
      BY <3>2 DEF Issue, TypeOK
    <3>4. \E k \in Attempts : /\ action'[q][k].status = "pending"
                              /\ \A j \in Attempts \ {k} : action'[q][j] = action[q][j]
      BY <1>6, <3>1, <3>2, CommitLocal, IssueLive
    <3> QED
      BY <1>2, <3>1, <3>3, <3>4
  <2> QED
    BY <2>1, <2>2
<1>7. ASSUME Reject(q) PROVE SeatMatches(q)'
  <2>1. /\ request[q] = "pending_approval" /\ request'[q] = "rejected"
        /\ UNCHANGED <<action, assignment>>
    BY <1>7 DEF Reject, TypeOK
  <2>2. 1 \in Attempts
    BY BoundsAssumption DEF Attempts
  <2>3. action'[q][1].status # "confirmed"
    BY <1>0, <2>1, <2>2, NoSeatYet
  <2> QED
    BY <1>2, <2>1, <2>2, <2>3
<1>8. ASSUME MarkChecklistNotDone(q) \/ RefuseInviteNoSeat(q) \/ FailInvite(q)
               \/ WithdrawInvitation(q)
      PROVE  SeatMatches(q)'
  <2>1. ASSUME request[q] \in {"provisioning", "invited"}, UNCHANGED assignment,
               NEW k \in Attempts, NEW st \in {"failed", "withdrawn"}, NEW why,
               NEW to \in {"failed", "blocked_no_seat", "deprovisioned"},
               Drop(q, k, st, why, to)
        PROVE  SeatMatches(q)'
    <3>1. /\ action'[q][k].status # "confirmed"
          /\ \A j \in Attempts \ {k} : action'[q][j] = action[q][j]
          /\ request'[q] = to
      BY <2>1, DropEffect
    <3> QED
      BY <1>2, <2>1, <3>1
  <2>2. CASE MarkChecklistNotDone(q)
    BY <2>1, <2>2 DEF MarkChecklistNotDone, ChecklistOf, LiveAttempts
  <2>3. CASE RefuseInviteNoSeat(q)
    BY <2>1, <2>3 DEF RefuseInviteNoSeat, PendingInvites
  <2>4. CASE FailInvite(q)
    BY <2>1, <2>4 DEF FailInvite, PendingInvites
  <2>5. CASE WithdrawInvitation(q)
    BY <2>1, <2>5 DEF WithdrawInvitation, SentInvites
  <2> QED
    BY <1>8, <2>2, <2>3, <2>4, <2>5
<1>9. ASSUME DeliverInvite(q) PROVE SeatMatches(q)'
  <2>1. request[q] = "provisioning" /\ request'[q] = "invited" /\ UNCHANGED assignment
    BY <1>9 DEF DeliverInvite, TypeOK
  <2>2. PICK k \in Attempts : action' = [action EXCEPT ![q][k].status = "sent"]
    BY <1>9 DEF DeliverInvite, PendingInvites
  <2>3. action[q] \in [Attempts -> ActionRow] /\ action[q][k] \in ActionRow
    BY DEF TypeOK
  <2>4. action'[q] = [action[q] EXCEPT ![k].status = "sent"]
    BY <2>2 DEF TypeOK
  <2>5. /\ action'[q][k] = [action[q][k] EXCEPT !.status = "sent"]
        /\ \A j \in Attempts \ {k} : action'[q][j] = action[q][j]
    BY <2>3, <2>4
  <2>6. action'[q][k].status = "sent"
    BY <2>3, <2>5 DEF ActionRow
  <2> QED
    BY <1>2, <2>1, <2>5, <2>6
<1>10. ASSUME NEW at \in Times, ActivateMember(q, at) PROVE SeatMatches(q)'
  BY <1>3, <1>10 DEF ActivateMember, SentInvites
<1>11. ASSUME StartOffboarding(q) PROVE SeatMatches(q)'
  <2>1. /\ request[q] = "active" /\ request'[q] = "offboarding"
        /\ UNCHANGED <<action, assignment>>
    BY <1>11 DEF StartOffboarding, TypeOK
  <2> QED
    BY <1>0, <2>1 DEF SeatMatches
<1>12. ASSUME NEW at \in Times, CompleteOffboarding(q, at) PROVE SeatMatches(q)'
  <2>1. /\ request[q] = "offboarding" /\ request'[q] = "deprovisioned"
        /\ UNCHANGED action /\ assignment[q].status = "open"
        /\ assignment[q].startedOn <= OperatingDay[at]
        /\ assignment'[q] = [assignment[q] EXCEPT !.status = "ended",
                                                  !.endedOn = OperatingDay[at]]
    BY <1>12 DEF CompleteOffboarding, EndsInOrder, TypeOK
  <2>2. assignment[q] \in AssignmentRow
    BY DEF TypeOK
  <2>3. /\ assignment'[q].status = "ended" /\ assignment'[q].endedOn = OperatingDay[at]
        /\ assignment'[q].startedOn = assignment[q].startedOn
    BY <2>1, <2>2 DEF AssignmentRow
  <2> QED
    BY <1>0, <2>1, <2>3 DEF SeatMatches
<1>13. ASSUME RequestStep(q) PROVE SeatMatches(q)'
  BY <1>7, <1>8, <1>9, <1>10, <1>11, <1>12, <1>13 DEF RequestStep
<1>14. ASSUME NEW r \in Requests, RequestStep(r), q # r PROVE SeatMatches(q)'
  BY <1>1, <1>14, RequestStepLocal
<1>15. ASSUME NEW s \in Sessions,
              Begin(s) \/ Evaluate(s) \/ Refuse(s) \/ Rollback(s) \/ CommitCapacity(s)
       PROVE  SeatMatches(q)'
  BY <1>1, <1>15 DEF Begin, Evaluate, Refuse, Rollback, CommitCapacity
<1>16. CASE Tick \/ UNCHANGED vars
  BY <1>1, <1>16 DEF Tick, vars
<1> QED
  BY <1>4, <1>5, <1>6, <1>13, <1>14, <1>15, <1>16 DEF PoolNext, SessionStep

\* A seat is open exactly while its request is active or being offboarded, it
\* was won once, and it does not end before it started.
THEOREM SeatsMatch == Spec => []SeatMatchesState
<1>1. Init => ActionInv /\ SeatInv
  BY ActionInitial, SeatInitial
<1>2. TypeOK /\ LockInv /\ ActionInv /\ SeatInv /\ [PoolNext]_vars => (ActionInv /\ SeatInv)'
  BY ActionStep, SeatStep
<1>3. SeatInv => SeatMatchesState
  BY DEF SeatInv, SeatMatches, SeatMatchesState
<1> QED
  BY <1>1, <1>2, <1>3, TypeCorrect, LockHeld, PTL DEF Spec

-------------------------------------------------------------------------------
(* The seats of the pool: it is not over-committed by a decision whose clock is *)
(* fresh.  The count a transaction makes under the pool lock can only grow until *)
(* it commits, because whatever else runs meanwhile gives seats back or turns a   *)
(* reservation into the seat it reserved.                                         *)

(* Counting *)

LEMMA RowsFinite == IsFiniteSet(Requests) /\ IsFiniteSet(Requests \X Attempts)
<1>1. IsFiniteSet(Attempts)
  BY BoundsAssumption, FS_Interval DEF Attempts
<1> QED
  BY <1>1, RequestsAssumption, FS_Product

LEMMA PoolFinite ==
  ASSUME NEW d, NEW at
  PROVE  IsFiniteSet(SeatsHeld(d, at)) /\ IsFiniteSet(Reservations(at))
BY RowsFinite, FS_Subset DEF SeatsHeld, Reservations

LEMMA CountsAreNumbers ==
  ASSUME TypeOK, NEW d, NEW at, NEW own
  PROVE  /\ Purchased(d, at) \in Int
         /\ Cardinality(SeatsHeld(d, at)) \in Nat
         /\ IsFiniteSet(Reservations(at) \ own)
         /\ Cardinality(Reservations(at) \ own) \in Nat
<1>1. Purchased(d, at) \in Int
  <2>1. CASE InForce(d, at) = {}
    BY <2>1 DEF Purchased
  <2>2. CASE InForce(d, at) # {}
    <3>1. \A c \in InForce(d, at) : c.qty \in Int
      BY BoundsAssumption DEF InForce, TypeOK, CapacityRow
    <3> QED
      BY <2>2, <3>1 DEF Purchased
  <2> QED
    BY <2>1, <2>2
<1>2. IsFiniteSet(Reservations(at) \ own)
  BY PoolFinite, FS_Subset
<1> QED
  BY <1>1, <1>2, PoolFinite, FS_CardinalityType

\* A reading of the clock that is not older than any row counts every row.
LEMMA FreshSees ==
  ASSUME TypeOK, NEW at \in Times, Fresh(at), NEW d, NEW own
  PROVE  FreeSeats(d, at, own) = FreeSeats(d, Latest, own)
<1>1. at <= Latest /\ at \in Nat /\ Latest \in Nat
  BY BoundsAssumption DEF Times, Latest
<1>2. SeatsHeld(d, at) = SeatsHeld(d, Latest)
  <2>1. \A r \in Requests : assignment[r].createdAt \in Nat
    BY BoundsAssumption DEF TypeOK, AssignmentRow, Times
  <2> QED
    BY <1>1, <2>1 DEF SeatsHeld, Fresh
<1>3. Reservations(at) = Reservations(Latest)
  <2>1. \A r \in Requests, k \in Attempts : action[r][k].createdAt \in Nat
    BY BoundsAssumption DEF TypeOK, ActionRow, Times
  <2> QED
    BY <1>1, <2>1 DEF Reservations, Fresh, Live
<1>4. Purchased(d, at) = Purchased(d, Latest)
  <2>1. \A c \in capacity : c.createdAt <= at /\ c.createdAt <= Latest
    BY <1>1, BoundsAssumption DEF Fresh, TypeOK, CapacityRow, Times
  <2>2. InForce(d, at) = InForce(d, Latest)
    BY <2>1 DEF InForce
  <2> QED
    BY <2>2 DEF Purchased
<1> QED
  BY <1>2, <1>3, <1>4 DEF FreeSeats

\* With the whole pool in view, an instant of a row never hides it.
LEMMA LatestSees ==
  ASSUME TypeOK
  PROVE  /\ \A r \in Requests : assignment[r].createdAt <= Latest
         /\ \A r \in Requests, k \in Attempts : action[r][k].createdAt <= Latest
BY BoundsAssumption DEF TypeOK, AssignmentRow, ActionRow, Times, Latest

-------------------------------------------------------------------------------
(* What the other transactions do to the count meanwhile *)

LEMMA Shrink ==
  ASSUME NEW H, NEW R, IsFiniteSet(H), IsFiniteSet(R),
         NEW H2 \in SUBSET H, NEW R2 \in SUBSET R
  PROVE  Cardinality(H2) + Cardinality(R2) <= Cardinality(H) + Cardinality(R)
<1>1. Cardinality(H2) <= Cardinality(H) /\ Cardinality(R2) <= Cardinality(R)
  BY FS_Subset
<1>2. IsFiniteSet(H2) /\ IsFiniteSet(R2)
  BY FS_Subset
<1>3. /\ Cardinality(H) \in Nat /\ Cardinality(R) \in Nat
      /\ Cardinality(H2) \in Nat /\ Cardinality(R2) \in Nat
  BY <1>2, FS_CardinalityType
<1> QED
  BY <1>1, <1>3

\* A seat for a reservation: the sum does not grow.
LEMMA Exchange ==
  ASSUME NEW H, NEW R, IsFiniteSet(H), IsFiniteSet(R), NEW x, NEW a \in R,
         NEW H2 \in SUBSET (H \cup {x}), NEW R2 \in SUBSET (R \ {a})
  PROVE  Cardinality(H2) + Cardinality(R2) <= Cardinality(H) + Cardinality(R)
<1>1. IsFiniteSet(H \cup {x}) /\ Cardinality(H \cup {x}) <= Cardinality(H) + 1
  <2>1. Cardinality(H) \in Nat
    BY FS_CardinalityType
  <2>2. /\ IsFiniteSet(H \cup {x})
        /\ Cardinality(H \cup {x}) =
             IF x \in H THEN Cardinality(H) ELSE Cardinality(H) + 1
    BY FS_AddElement
  <2> QED
    BY <2>1, <2>2
<1>2. IsFiniteSet(R \ {a}) /\ Cardinality(R \ {a}) = Cardinality(R) - 1
  BY FS_RemoveElement
<1>3. Cardinality(H2) + Cardinality(R2) <= Cardinality(H \cup {x}) + Cardinality(R \ {a})
  BY <1>1, <1>2, Shrink
<1>4. /\ Cardinality(H) \in Nat /\ Cardinality(R) \in Nat
      /\ Cardinality(H \cup {x}) \in Nat /\ Cardinality(R \ {a}) \in Nat
      /\ IsFiniteSet(H2) /\ IsFiniteSet(R2)
  BY <1>1, <1>2, FS_CardinalityType, FS_Subset
<1>5. Cardinality(H2) \in Nat /\ Cardinality(R2) \in Nat
  BY <1>4, FS_CardinalityType
<1> QED
  BY <1>1, <1>2, <1>3, <1>4, <1>5

\* Ending attempt k of request r ends its reservation and no other.
LEMMA ReservationEnds ==
  ASSUME TypeOK, TypeOK', NEW r \in Requests, NEW k \in Attempts,
         action'[r][k].status \notin {"pending", "sent"},
         \A j \in Attempts \ {k} : action'[r][j] = action[r][j],
         \A q \in Requests \ {r} : action'[q] = action[q]
  PROVE  Reservations(Latest)' \subseteq Reservations(Latest) \ {<<r, k>>}
<1> SUFFICES ASSUME NEW q \in Requests, NEW j \in Attempts,
                    <<q, j>> \in Reservations(Latest)'
             PROVE  <<q, j>> \in Reservations(Latest) /\ <<q, j>> # <<r, k>>
  BY DEF Reservations
<1>1. action'[q][j].status \in {"pending", "sent"}
  BY DEF Reservations, Live
<1>2. <<q, j>> # <<r, k>>
  BY <1>1
<1>3. action'[q][j] = action[q][j]
  BY <1>2
<1> QED
  BY <1>1, <1>2, <1>3, LatestSees DEF Reservations, Live

\* Nothing a transaction without the pool lock does makes the pool fuller for
\* the request of another transaction.
LEMMA StepsGiveBack ==
  ASSUME TypeOK, TypeOK', NEW r \in Requests, RequestStep(r),
         NEW d, NEW own, \A k \in Attempts : <<r, k>> \notin own
  PROVE  /\ FreeSeats(d, Latest, own) \in Int /\ FreeSeats(d, Latest, own)' \in Int
         /\ FreeSeats(d, Latest, own) <= FreeSeats(d, Latest, own)'
<1> DEFINE H == SeatsHeld(d, Latest)
           R == Reservations(Latest) \ own
<1>0. /\ IsFiniteSet(H) /\ IsFiniteSet(R)
      /\ H' = SeatsHeld(d, Latest)' /\ R' = Reservations(Latest)' \ own
  BY PoolFinite, CountsAreNumbers
<1>1. /\ Purchased(d, Latest) \in Int /\ Purchased(d, Latest)' = Purchased(d, Latest)
      /\ Cardinality(H) \in Nat /\ Cardinality(R) \in Nat
      /\ Cardinality(H') \in Nat /\ Cardinality(R') \in Nat
  <2>1. capacity' = capacity
    BY RequestStepLocal
  <2>2. Purchased(d, Latest)' = Purchased(d, Latest)
    BY <2>1 DEF Purchased, InForce
  <2>3. Cardinality(H') \in Nat /\ Cardinality(R') \in Nat
    <3>1. H' \in SUBSET Requests /\ R' \in SUBSET (Requests \X Attempts)
      BY DEF SeatsHeld, Reservations
    <3> HIDE DEF H, R
    <3>2. IsFiniteSet(H') /\ IsFiniteSet(R')
      BY <3>1, RowsFinite, FS_Subset
    <3> QED
      BY <3>2, FS_CardinalityType
  <2> QED
    BY <2>2, <2>3, CountsAreNumbers
<1>2. SUFFICES Cardinality(H') + Cardinality(R') <= Cardinality(H) + Cardinality(R)
  BY <1>1, <1>2 DEF FreeSeats
\* The three effects a step can have on the count.
<1>3. ASSUME action' = action, H' \subseteq H
      PROVE  Cardinality(H') + Cardinality(R') <= Cardinality(H) + Cardinality(R)
  <2>1. R' = R
    BY <1>3 DEF Reservations, Live
  <2> HIDE DEF H, R
  <2> QED
    BY <1>0, <1>3, <2>1, Shrink
<1>4. ASSUME assignment' = assignment, Reservations(Latest)' \subseteq Reservations(Latest)
      PROVE  Cardinality(H') + Cardinality(R') <= Cardinality(H) + Cardinality(R)
  <2>1. H' = H /\ R' \in SUBSET R
    BY <1>4 DEF SeatsHeld
  <2> HIDE DEF H, R
  <2> QED
    BY <1>0, <2>1, Shrink
<1>5. ASSUME NEW st \in {"failed", "withdrawn"}, NEW why, NEW to, NEW k \in Attempts,
             Drop(r, k, st, why, to), UNCHANGED assignment
      PROVE  Cardinality(H') + Cardinality(R') <= Cardinality(H) + Cardinality(R)
  <2>1. Reservations(Latest)' \subseteq Reservations(Latest) \ {<<r, k>>}
    BY <1>5, DropEffect, RequestStepLocal, ReservationEnds
  <2> QED
    BY <1>4, <1>5, <2>1
<1>6. CASE Reject(r) \/ StartOffboarding(r)
  <2>1. action' = action /\ H' = H
    BY <1>6 DEF Reject, StartOffboarding, SeatsHeld
  <2> QED
    BY <1>3, <2>1
<1>7. CASE MarkChecklistNotDone(r)
  BY <1>5, <1>7 DEF MarkChecklistNotDone, ChecklistOf, LiveAttempts
<1>8. CASE RefuseInviteNoSeat(r)
  BY <1>5, <1>8 DEF RefuseInviteNoSeat, PendingInvites
<1>9. CASE FailInvite(r)
  BY <1>5, <1>9 DEF FailInvite, PendingInvites
<1>10. CASE WithdrawInvitation(r)
  BY <1>5, <1>10 DEF WithdrawInvitation, SentInvites
<1>11. CASE DeliverInvite(r)
  <2>1. PICK k \in Attempts : /\ action[r][k].status = "pending"
                              /\ action' = [action EXCEPT ![r][k].status = "sent"]
    BY <1>11 DEF DeliverInvite, PendingInvites
  <2>2. action[r] \in [Attempts -> ActionRow] /\ action[r][k] \in ActionRow
    BY DEF TypeOK
  <2>3. \A q \in Requests, j \in Attempts : Live(action[q][j])' => Live(action[q][j])
    BY <2>1, <2>2 DEF Live, TypeOK
  <2>4. Reservations(Latest)' \subseteq Reservations(Latest)
    BY <2>3, LatestSees DEF Reservations
  <2> QED
    BY <1>4, <1>11, <2>4 DEF DeliverInvite
<1>12. ASSUME NEW at \in Times, ActivateMember(r, at)
       PROVE  Cardinality(H') + Cardinality(R') <= Cardinality(H) + Cardinality(R)
  <2>1. PICK k \in Attempts : action[r][k].status = "sent" /\ Seat(r, k, at)
    BY <1>12 DEF ActivateMember, SentInvites
  <2>2. Reservations(Latest)' \subseteq Reservations(Latest) \ {<<r, k>>}
    BY <2>1, SeatEffect, RequestStepLocal, ReservationEnds
  <2>3. <<r, k>> \in R
    BY <2>1, LatestSees DEF Reservations, Live
  <2>4. R' \in SUBSET (R \ {<<r, k>>})
    BY <2>2
  <2>5. H' \in SUBSET (H \cup {r})
    BY RequestStepLocal DEF SeatsHeld
  <2> HIDE DEF H, R
  <2> QED
    BY <1>0, <2>3, <2>4, <2>5, Exchange
<1>13. ASSUME NEW at \in Times, CompleteOffboarding(r, at)
       PROVE  Cardinality(H') + Cardinality(R') <= Cardinality(H) + Cardinality(R)
  <2>1. /\ assignment[r].status = "open"
        /\ assignment' = [assignment EXCEPT ![r].status = "ended",
                                            ![r].endedOn = OperatingDay[at]]
        /\ action' = action
    BY <1>13 DEF CompleteOffboarding
  <2>2. assignment[r] \in AssignmentRow
    BY DEF TypeOK
  <2>3. /\ assignment'[r].createdAt = assignment[r].createdAt
        /\ assignment'[r].startedOn = assignment[r].startedOn
    BY <2>1, <2>2 DEF AssignmentRow, TypeOK
  <2>4. H' \subseteq H
    BY <2>1, <2>3, RequestStepLocal DEF SeatsHeld
  <2> QED
    BY <1>3, <2>1, <2>4
<1> QED
  BY <1>6, <1>7, <1>8, <1>9, <1>10, <1>11, <1>12, <1>13 DEF RequestStep

\* Such a step never changes the instant a row was created, nor removes a row.
LEMMA RowsStay ==
  ASSUME TypeOK, NEW r \in Requests, RequestStep(r)
  PROVE  /\ assignment[r].status # "none" =>
              /\ assignment'[r].status # "none"
              /\ assignment'[r].createdAt = assignment[r].createdAt
         /\ \A k \in Attempts : action[r][k].status # "none" =>
              /\ action'[r][k].status # "none"
              /\ action'[r][k].createdAt = action[r][k].createdAt
<1> DEFINE SeatStays == assignment[r].status # "none" =>
                          /\ assignment'[r].status # "none"
                          /\ assignment'[r].createdAt = assignment[r].createdAt
           ActionStays(k) == action[r][k].status # "none" =>
                               /\ action'[r][k].status # "none"
                               /\ action'[r][k].createdAt = action[r][k].createdAt
<1>0. /\ assignment[r] \in AssignmentRow /\ action[r] \in [Attempts -> ActionRow]
      /\ \A k \in Attempts : action[r][k] \in ActionRow
  BY DEF TypeOK
<1>1. ASSUME UNCHANGED assignment,
             NEW k \in Attempts, NEW st \in {"failed", "withdrawn"}, NEW why, NEW to,
             Drop(r, k, st, why, to)
      PROVE  SeatStays /\ \A j \in Attempts : ActionStays(j)
  <2>1. action'[r] = [action[r] EXCEPT ![k] = [@ EXCEPT !.status = st, !.reason = why]]
    BY <1>1 DEF Drop, TypeOK
  <2>2. action'[r][k] = [action[r][k] EXCEPT !.status = st, !.reason = why]
    BY <1>0, <2>1
  <2>3. action'[r][k].status # "none" /\ action'[r][k].createdAt = action[r][k].createdAt
    BY <1>0, <2>2 DEF ActionRow
  <2>4. \A j \in Attempts \ {k} : action'[r][j] = action[r][j]
    BY <1>0, <2>1
  <2> QED
    BY <1>1, <2>3, <2>4
<1>2. CASE Reject(r) \/ StartOffboarding(r)
  BY <1>2 DEF Reject, StartOffboarding
<1>3. CASE MarkChecklistNotDone(r)
  BY <1>1, <1>3 DEF MarkChecklistNotDone, ChecklistOf, LiveAttempts
<1>4. CASE RefuseInviteNoSeat(r)
  BY <1>1, <1>4 DEF RefuseInviteNoSeat, PendingInvites
<1>5. CASE FailInvite(r)
  BY <1>1, <1>5 DEF FailInvite, PendingInvites
<1>6. CASE WithdrawInvitation(r)
  BY <1>1, <1>6 DEF WithdrawInvitation, SentInvites
<1>7. ASSUME NEW k \in Attempts, NEW st \in {"sent", "confirmed"},
             action' = [action EXCEPT ![r][k].status = st]
      PROVE  \A j \in Attempts : ActionStays(j)
  <2>1. action'[r] = [action[r] EXCEPT ![k].status = st]
    BY <1>7 DEF TypeOK
  <2>2. action'[r][k] = [action[r][k] EXCEPT !.status = st]
    BY <1>0, <2>1
  <2>3. action'[r][k].status # "none" /\ action'[r][k].createdAt = action[r][k].createdAt
    BY <1>0, <2>2 DEF ActionRow
  <2>4. \A j \in Attempts \ {k} : action'[r][j] = action[r][j]
    BY <1>0, <2>1
  <2> QED
    BY <2>3, <2>4
<1>8. CASE DeliverInvite(r)
  BY <1>7, <1>8 DEF DeliverInvite, PendingInvites
<1>9. ASSUME NEW at \in Times, ActivateMember(r, at)
      PROVE  SeatStays /\ \A j \in Attempts : ActionStays(j)
  BY <1>7, <1>9 DEF ActivateMember, SentInvites, Seat
<1>10. ASSUME NEW at \in Times, CompleteOffboarding(r, at)
       PROVE  SeatStays /\ \A j \in Attempts : ActionStays(j)
  <2>1. /\ assignment'[r] = [assignment[r] EXCEPT !.status = "ended",
                                                  !.endedOn = OperatingDay[at]]
        /\ action' = action
    BY <1>10 DEF CompleteOffboarding, TypeOK
  <2> QED
    BY <1>0, <2>1 DEF AssignmentRow
<1> QED
  BY <1>2, <1>3, <1>4, <1>5, <1>6, <1>8, <1>9, <1>10 DEF RequestStep

LEMMA FreshBack ==
  ASSUME TypeOK, NEW r \in Requests, RequestStep(r), NEW at \in Times, Fresh(at)'
  PROVE  Fresh(at)
<1>1. /\ capacity' = capacity
      /\ \A q \in Requests \ {r} : action'[q] = action[q] /\ assignment'[q] = assignment[q]
  BY RequestStepLocal
<1>2. \A q \in Requests :
        /\ assignment[q].status # "none" => assignment[q].createdAt <= at
        /\ \A k \in Attempts : action[q][k].status # "none" => action[q][k].createdAt <= at
  BY <1>1, RowsStay DEF Fresh
<1> QED
  BY <1>1, <1>2 DEF Fresh

-------------------------------------------------------------------------------
(* A grant stays good until it commits *)

Granted(s) ==
  /\ session[s].phase = "evaluated" /\ session[s].op \in {"approve", "confirm"}
  /\ session[s].seat
  /\ Fresh(session[s].at)

\* While a transaction that found a seat waits to commit, its seat is free.
GrantInv ==
  \A s \in Sessions :
    Granted(s) => FreeSeats(OperatingDay[session[s].at], Latest, Own(session[s])) > 0

LEMMA GrantInitial == Init => GrantInv
BY DEF Init, GrantInv, Granted, Idle

LEMMA GrantStep ==
  ASSUME TypeOK, TypeOK', LockInv, GrantInv, [PoolNext]_vars
  PROVE  GrantInv'
<1> SUFFICES ASSUME NEW q \in Sessions, Granted(q)'
             PROVE  (FreeSeats(OperatingDay[session[q].at], Latest, Own(session[q])) > 0)'
  BY DEF GrantInv
<1> DEFINE Goal == (FreeSeats(OperatingDay[session[q].at], Latest, Own(session[q])) > 0)'
<1>0. /\ session'[q].phase = "evaluated" /\ session'[q].op \in {"approve", "confirm"}
      /\ session'[q].seat /\ Fresh(session[q].at)'
  BY DEF Granted
<1>a. ASSUME NEW at, session'[q].at = at PROVE Fresh(at)'
  BY <1>0, <1>a DEF Fresh
<1>b. ASSUME NEW at, NEW own, session'[q].at = at, Own(session[q])' = own,
             FreeSeats(OperatingDay[at], Latest, own)' > 0
      PROVE  Goal
  BY <1>b DEF FreeSeats, SeatsHeld, Reservations, Purchased, InForce
<1>1. ASSUME session'[q] = session[q], UNCHANGED <<action, assignment, capacity>>
      PROVE  Goal
  <2>1. Granted(q)
    BY <1>0, <1>1 DEF Granted, Fresh
  <2>2. FreeSeats(OperatingDay[session[q].at], Latest, Own(session[q])) > 0
    BY <2>1 DEF GrantInv
  <2> QED
    BY <1>1, <2>2
    DEF FreeSeats, Own, ChecklistOf, LiveAttempts, Live, SeatsHeld, Reservations, Purchased, InForce
\* A step that ends the holder's transaction leaves no evaluated one.
<1>2. ASSUME NEW s \in Sessions, session[s].phase = "evaluated", Close(s)
      PROVE  FALSE
  <2>1. q # s /\ session'[q] = session[q]
    BY <1>0, <1>2 DEF Close, TypeOK, Idle
  <2> QED
    BY <1>0, <1>2, <2>1, OneHolder
<1>3. ASSUME NEW s \in Sessions, Begin(s) PROVE Goal
  <2>1. q # s /\ session'[q] = session[q]
    BY <1>0, <1>3 DEF Begin, TypeOK
  <2> QED
    BY <1>1, <1>3, <2>1 DEF Begin
<1>4. ASSUME NEW s \in Sessions, Evaluate(s) PROVE Goal
  <2>1. q = s
    <3>1. session[s].phase = "begun" /\ PoolFree
      BY <1>4 DEF Evaluate
    <3>2. q # s => session'[q] = session[q]
      BY <1>4 DEF Evaluate, TypeOK
    <3> QED
      BY <1>0, <3>1, <3>2, OneHolder
  <2>2. /\ session[s].phase = "begun" /\ Admissible(session[s])
        /\ UNCHANGED <<request, action, assignment, capacity>>
    BY <1>4 DEF Evaluate
  <2>3. session[s].op # "change"
    BY <1>0, <1>4, <2>1 DEF Evaluate, TypeOK
  <2>4. /\ session'[s] = [phase |-> "evaluated", op |-> session[s].op, r |-> session[s].r,
                          at |-> session[s].at, seat |-> SeatFor(session[s])]
    BY <1>4, <2>3 DEF Evaluate, TypeOK
  <2>5. /\ session[s].op \in {"approve", "confirm"} /\ SeatFor(session[s])
        /\ session'[s].at = session[s].at /\ session'[s].r = session[s].r
        /\ session'[s].op = session[s].op
    BY <1>0, <2>1, <2>4
  <2>6. session[s].at \in Times
    BY <2>2, <2>5, SessionTyped DEF SeatOperations
  <2>7. Fresh(session[s].at)
    BY <1>a, <2>1, <2>2, <2>5 DEF Fresh
  <2>8. FreeSeats(OperatingDay[session[s].at], session[s].at, Own(session[s])) > 0
    BY <2>5 DEF SeatFor, FreeAsOf
  <2>9. FreeSeats(OperatingDay[session[s].at], Latest, Own(session[s])) > 0
    BY <2>6, <2>7, <2>8, FreshSees
  <2>10. Own(session[s])' = Own(session[s])
    BY <2>2, <2>5 DEF Own, ChecklistOf, LiveAttempts, Live
  <2>11. \A d, own : FreeSeats(d, Latest, own)' = FreeSeats(d, Latest, own)
    BY <2>2 DEF FreeSeats, SeatsHeld, Reservations, Live, Purchased, InForce
  <2> QED
    BY <1>b, <2>1, <2>5, <2>9, <2>10, <2>11
<1>5. ASSUME NEW s \in Sessions, Refuse(s) PROVE Goal
  <2>1. session'[q] = session[q]
    BY <1>0, <1>5 DEF Refuse, TypeOK, Idle
  <2> QED
    BY <1>1, <1>5, <2>1 DEF Refuse
<1>6. ASSUME NEW s \in Sessions,
             Rollback(s) \/ CommitApproval(s) \/ CommitConfirmation(s)
               \/ CommitRetry(s) \/ CommitCapacity(s)
      PROVE  Goal
  BY <1>2, <1>6 DEF Rollback, CommitApproval, CommitConfirmation, CommitRetry,
                    CommitCapacity, Evaluated
<1>7. ASSUME NEW r \in Requests, RequestStep(r) PROVE Goal
  <2>1. /\ RowFree(r) /\ UNCHANGED <<capacity, session, poolLock>>
        /\ \A p \in Requests \ {r} : action'[p] = action[p]
    BY <1>7, RequestStepLocal
  <2>2. /\ session[q].phase = "evaluated" /\ session[q].op \in {"approve", "confirm"}
        /\ session'[q] = session[q] /\ session[q].seat
    BY <1>0, <2>1
  <2>3. /\ session[q].r \in Requests /\ session[q].at \in Times
        /\ poolLock.rows = {session[q].r}
    BY <2>2, SessionTyped DEF LockInv, SeatOperations
  <2>4. session[q].r # r
    BY <2>1, <2>3 DEF RowFree
  <2>5. Fresh(session[q].at)
    BY <1>a, <1>7, <2>2, <2>3, FreshBack
  <2>6. FreeSeats(OperatingDay[session[q].at], Latest, Own(session[q])) > 0
    BY <2>2, <2>5 DEF GrantInv, Granted
  <2>7. Own(session[q])' = Own(session[q])
    <3>1. action'[session[q].r] = action[session[q].r]
      BY <2>1, <2>3, <2>4
    <3>2. ChecklistOf(session[q].r)' = ChecklistOf(session[q].r)
      BY <2>2, <3>1 DEF ChecklistOf, LiveAttempts, Live
    <3> QED
      BY <2>2, <3>2 DEF Own
  <2>8. \A k \in Attempts : <<r, k>> \notin Own(session[q])
    BY <2>4 DEF Own
  <2>9. \A d, own : (\A k \in Attempts : <<r, k>> \notin own) =>
          /\ FreeSeats(d, Latest, own) \in Int /\ FreeSeats(d, Latest, own)' \in Int
          /\ FreeSeats(d, Latest, own) <= FreeSeats(d, Latest, own)'
    BY <1>7, StepsGiveBack
  <2> QED
    BY <1>b, <2>2, <2>6, <2>7, <2>8, <2>9
<1>8. CASE Tick
  BY <1>1, <1>8 DEF Tick
<1>9. CASE UNCHANGED vars
  BY <1>1, <1>9 DEF vars
<1> QED
  BY <1>3, <1>4, <1>5, <1>6, <1>7, <1>8, <1>9 DEF PoolNext, SessionStep

-------------------------------------------------------------------------------
(* The commit *)

\* A commit that takes a seat spends the one seat its count found free.
LEMMA TakeFits ==
  ASSUME TypeOK, TypeOK', LockInv, ActionInv, GrantInv, [PoolNext]_vars,
         NEW s \in Sessions, NEW at \in Times,
         TakesSeat(s), session[s].at = at, Fresh(at)
  PROVE  Free(OperatingDay[at])' >= 0
<1> DEFINE d == OperatingDay[at]
           H == SeatsHeld(d, Latest)
           R == Reservations(Latest) \ Own(session[s])
           r == session[s].r
<1>0. /\ session[s].phase = "evaluated" /\ session[s].op \in {"approve", "confirm"}
      /\ r \in Requests /\ Admissible(session[s])
      /\ request' # request /\ request'[r] \in {"provisioning", "active"}
  BY SessionTyped DEF TakesSeat, LockInv, SeatOperations
<1>1. CommitApproval(s) \/ CommitConfirmation(s)
  <2>1. session'[s] # session[s]
    BY <1>0 DEF TakesSeat, Idle
  <2>2. \A q \in Sessions : session[q].phase = "evaluated" => q = s
    BY <1>0, OneHolder
  <2>3. ASSUME NEW q \in Requests, RequestStep(q) PROVE FALSE
    BY <2>1, <2>3, RequestStepLocal
  <2>4. ASSUME NEW q \in Sessions,
               Begin(q) \/ Evaluate(q) \/ Refuse(q) \/ Rollback(q) \/ CommitCapacity(q)
        PROVE  FALSE
    BY <1>0, <2>4 DEF Begin, Evaluate, Refuse, Rollback, CommitCapacity
  <2>5. ASSUME NEW q \in Sessions, CommitRetry(q) PROVE FALSE
    BY <1>0, <2>2, <2>5 DEF CommitRetry, Evaluated
  <2>6. ~Tick /\ ~UNCHANGED vars
    BY <2>1 DEF Tick, vars
  <2>7. ASSUME NEW q \in Sessions, CommitApproval(q) \/ CommitConfirmation(q)
        PROVE  CommitApproval(s) \/ CommitConfirmation(s)
    BY <2>2, <2>7 DEF CommitApproval, CommitConfirmation, Evaluated
  <2> QED
    BY <2>3, <2>4, <2>5, <2>6, <2>7 DEF PoolNext, SessionStep
<1>2. session[s].seat /\ UNCHANGED capacity
  BY <1>0, <1>1 DEF CommitApproval, CommitConfirmation, Block, TypeOK
<1>3. Purchased(d, Latest) - Cardinality(H) - Cardinality(R) > 0
  BY <1>0, <1>2 DEF GrantInv, Granted, FreeSeats
<1>4. /\ IsFiniteSet(H) /\ IsFiniteSet(R) /\ Purchased(d, Latest) \in Int
      /\ Cardinality(H) \in Nat /\ Cardinality(R) \in Nat
  BY PoolFinite, CountsAreNumbers
<1>5. Purchased(d, Latest)' = Purchased(d, Latest)
  BY <1>2 DEF Purchased, InForce
<1>6. Free(d)' = Purchased(d, Latest)' - Cardinality(H') - Cardinality(Reservations(Latest)')
  BY DEF Free, FreeSeats
<1> HIDE DEF d
\* An approval adds a reservation.
<1>7. ASSUME CommitApproval(s) PROVE Free(d)' >= 0
  <2>1. session[s].op = "approve" /\ request[r] = "pending_approval" /\ R = Reservations(Latest)
    BY <1>0, <1>7 DEF CommitApproval, Evaluated, Admissible, Own
  <2>2. PICK kind \in Kinds : Issue(r, kind, at)
    BY <1>2, <1>7 DEF CommitApproval
  <2>3. LiveAttempts(r) = {} /\ NextAttempts(r) # {}
    BY <1>0, <2>1, FirstAttempt DEF ActionInv, ActionMatches
  <2>4. PICK k \in Attempts : \A j \in Attempts \ {k} : action'[r][j] = action[r][j]
    BY <1>0, <2>2, <2>3, IssueLive
  <2>5. \A q \in Requests \ {r} : action'[q] = action[q]
    BY <1>0, <1>7, CommitLocal
  <2>6. Reservations(Latest)' \subseteq Reservations(Latest) \cup {<<r, k>>}
    BY <2>4, <2>5 DEF Reservations, Live
  <2>7. H' = H
    BY <1>7 DEF CommitApproval, SeatsHeld
  <2> HIDE DEF H, R, r
  <2>8. /\ IsFiniteSet(R \cup {<<r, k>>})
        /\ Cardinality(R \cup {<<r, k>>}) \in {Cardinality(R), Cardinality(R) + 1}
    BY <1>4, FS_AddElement
  <2>9. /\ IsFiniteSet(Reservations(Latest)')
        /\ Cardinality(Reservations(Latest)') <= Cardinality(R \cup {<<r, k>>})
    BY <2>1, <2>6, <2>8, FS_Subset
  <2>10. Cardinality(Reservations(Latest)') \in Nat
    BY <2>9, FS_CardinalityType
  <2> QED
    BY <1>3, <1>4, <1>5, <1>6, <2>7, <2>8, <2>9, <2>10
\* A confirmation adds a seat and ends its own reservation.
<1>8. ASSUME CommitConfirmation(s) PROVE Free(d)' >= 0
  <2>1. session[s].op = "confirm" /\ request[r] = "provisioning"
    BY <1>0, <1>8 DEF CommitConfirmation, Evaluated, Admissible
  <2>2. PICK k \in ChecklistOf(r) : Seat(r, k, at)
    BY <1>8 DEF CommitConfirmation
  <2>3. k \in Attempts /\ LiveAttempts(r) = {k} /\ ChecklistOf(r) = {k}
    BY <1>0, <2>1, <2>2 DEF ActionInv, ActionMatches, ChecklistOf, LiveAttempts
  <2>4. \A q \in Requests \ {r} : action'[q] = action[q] /\ assignment'[q] = assignment[q]
    BY <1>0, <1>8, CommitLocal
  <2>5. Reservations(Latest)' \subseteq Reservations(Latest) \ {<<r, k>>}
    BY <1>0, <2>2, <2>3, <2>4, SeatEffect, ReservationEnds
  <2>6. Reservations(Latest)' \in SUBSET R
    BY <2>1, <2>3, <2>5 DEF Own
  <2>7. H' \in SUBSET (H \cup {r})
    BY <2>4 DEF SeatsHeld
  <2> HIDE DEF H, R, r
  <2>8. IsFiniteSet(H \cup {r}) /\ Cardinality(H \cup {r}) \in {Cardinality(H), Cardinality(H) + 1}
    BY <1>4, FS_AddElement
  <2>9. /\ IsFiniteSet(H') /\ Cardinality(H') <= Cardinality(H \cup {r})
        /\ IsFiniteSet(Reservations(Latest)')
        /\ Cardinality(Reservations(Latest)') <= Cardinality(R)
    BY <1>4, <2>6, <2>7, <2>8, FS_Subset
  <2>10. Cardinality(H') \in Nat /\ Cardinality(Reservations(Latest)') \in Nat
    BY <2>9, FS_CardinalityType
  <2> QED
    BY <1>3, <1>4, <1>5, <1>6, <2>8, <2>9, <2>10
<1> QED
  BY <1>1, <1>7, <1>8 DEF d

\* An approval or a confirmation whose clock is not older than any row of the
\* pool leaves the pool within its purchased seats, in every interleaving.
THEOREM FreshTakesFit == Spec => FreshTakeFits
<1>1. Init => ActionInv /\ GrantInv
  BY ActionInitial, GrantInitial
<1>2. TypeOK /\ TypeOK' /\ LockInv /\ ActionInv /\ GrantInv /\ [PoolNext]_vars
        => (ActionInv /\ GrantInv)'
  BY ActionStep, GrantStep
<1>3. TypeOK /\ TypeOK' /\ LockInv /\ ActionInv /\ GrantInv /\ [PoolNext]_vars
        => [\A s \in Sessions, at \in Times :
              TakesSeat(s) /\ session[s].at = at /\ Fresh(at)
                => Free(OperatingDay[at])' >= 0]_vars
  BY TakeFits
<1> QED
  BY <1>1, <1>2, <1>3, TypeCorrect, LockHeld, PTL DEF Spec, FreshTakeFits
===============================================================================
