------------------------------- MODULE SeatPool -------------------------------
(***************************************************************************)
(* One capacity pool (a vendor account and a licence type) of the Ledger,  *)
(* and the transactions that take its seats and give them back.            *)
(*                                                                         *)
(* Approval, checklist confirmation, retry and capacity changes run under  *)
(* the advisory lock of the pool (lockCapacityPool).  Each reads the clock *)
(* BEFORE it waits for that lock, and counts the pool as of that reading;  *)
(* they are modelled by sessions that begin, evaluate under the lock and   *)
(* commit.  Operations that lock only rows are single steps, and wait for  *)
(* the rows the holder of the pool lock has locked.                        *)
(***************************************************************************)
EXTENDS Integers, FiniteSets

CONSTANTS
  Requests,      \* requests for a seat of this pool, numbered by created_at
  Sessions,      \* concurrent transactions of the web server
  Recoverers,    \* concurrent runs of the capacity-recovery job
  Nobody,        \* the owner of a free lock
  Operations,    \* the commands the users issue in this instance
  Kinds,         \* what the planner may issue: "checklist", "invite"
  MaxQty,        \* bound: largest purchased quantity
  MaxAttempts,   \* bound: provisioning actions per request
  MaxTime,       \* bound: last instant of the clock
  Days,          \* the calendar days of the instance
  OperatingDay   \* the Guayaquil calendar day of every instant

Times    == 0..MaxTime
Attempts == 1..MaxAttempts
Owners   == Sessions \cup Recoverers

ASSUME RequestsAssumption == IsFiniteSet(Requests) /\ Requests \subseteq Nat
ASSUME OwnersAssumption == Nobody \notin Owners /\ Sessions \cap Recoverers = {}
ASSUME KindsAssumption == Kinds \subseteq {"checklist", "invite"}
ASSUME BoundsAssumption == MaxQty \in Nat /\ MaxAttempts \in Nat \ {0} /\ MaxTime \in Nat
\* Ecuador keeps one offset (-05:00) all year: later instants, later days.
ASSUME CalendarAssumption ==
  /\ Days \subseteq Nat /\ IsFiniteSet(Days)
  /\ OperatingDay \in [Times -> Days]
  /\ \A s, t \in Times : s <= t => OperatingDay[s] <= OperatingDay[t]

VARIABLES
  now,         \* the clock
  request,     \* license_request.state
  action,      \* provisioning_action rows of operation 'provision', per attempt
  assignment,  \* the license_assignment row of a request
  capacity,    \* vendor_account_capacity rows of the pool
  work,        \* capacity_recovery_work, one row per capacity row (its day)
  session,     \* what each open transaction has read so far
  poolLock     \* holder of the pool's advisory lock, and the rows it locked

vars == <<now, request, action, assignment, capacity, work, session, poolLock>>

-------------------------------------------------------------------------------
(* Rows and types *)

NoAction == [status |-> "none", kind |-> "none", createdAt |-> 0, reason |-> "none"]
NoSeat   == [status |-> "none", startedOn |-> OperatingDay[0],
             endedOn |-> OperatingDay[0], createdAt |-> 0]
NoWork   == [status |-> "none", createdAt |-> 0]
Idle     == [phase |-> "idle"]
Unlocked == [owner |-> Nobody, rows |-> {}]

RequestState == {"pending_approval", "blocked_no_seat", "provisioning", "failed",
                 "invited", "active", "offboarding", "deprovisioned", "rejected"}
ActionRow ==
  [status : {"none", "pending", "sent", "confirmed", "failed", "withdrawn"},
   kind : {"none", "checklist", "invite"}, createdAt : Times,
   reason : {"none", "operator", "capacity_unavailable", "provider_invitation_failed"}]
AssignmentRow ==
  [status : {"none", "open", "ended"}, startedOn : Days, endedOn : Days, createdAt : Times]
CapacityRow == [from : Days, qty : 0..MaxQty, createdAt : Times]
WorkRow == [status : {"none", "pending", "processing", "completed"}, createdAt : Times]
SeatOperations == {"approve", "confirm", "retry"}
SessionState ==
  {Idle}
  \cup [phase : {"begun"}, op : SeatOperations, r : Requests, at : Times]
  \cup [phase : {"evaluated"}, op : SeatOperations, r : Requests, at : Times, seat : BOOLEAN]
  \cup [phase : {"begun", "evaluated"}, op : {"change"}, row : CapacityRow]

TypeOK ==
  /\ now \in Times
  /\ request \in [Requests -> RequestState]
  /\ action \in [Requests -> [Attempts -> ActionRow]]
  /\ assignment \in [Requests -> AssignmentRow]
  /\ capacity \in SUBSET CapacityRow
  /\ work \in [Days -> WorkRow]
  /\ session \in [Sessions -> SessionState]
  /\ poolLock \in [owner : Owners \cup {Nobody}, rows : SUBSET Requests]

-------------------------------------------------------------------------------
(* Pool arithmetic *)

Live(row) == row.status \in {"pending", "sent"}
LiveAttempts(r) == {k \in Attempts : Live(action[r][k])}

\* The unused action row an INSERT fills next.
NextAttempts(r) == {k \in Attempts : /\ action[r][k].status = "none"
                                     /\ \A j \in 1..(k - 1) : action[r][j].status # "none"}
NextAttempt(r) == CHOOSE k \in NextAttempts(r) : TRUE

\* Seats held on day d by assignments written up to instant at.
SeatsHeld(d, at) ==
  {r \in Requests : /\ assignment[r].status # "none"
                    /\ assignment[r].createdAt <= at
                    /\ assignment[r].startedOn <= d
                    /\ assignment[r].status = "open" \/ d <= assignment[r].endedOn}

\* Seats reserved by live provision actions written up to instant at.
Reservations(at) ==
  {a \in Requests \X Attempts : /\ Live(action[a[1]][a[2]])
                                /\ action[a[1]][a[2]].createdAt <= at}

\* The quantity of the row in force on day d, of those written up to at.
InForce(d, at) == {c \in capacity : /\ c.from <= d
                                    /\ c.createdAt <= at
                                    /\ \A e \in capacity :
                                         e.from <= d /\ e.createdAt <= at => e.from <= c.from}
Purchased(d, at) ==
  IF InForce(d, at) = {} THEN 0 ELSE (CHOOSE c \in InForce(d, at) : TRUE).qty

\* Seats left on day d, counting the rows written up to instant at and leaving
\* the reservations in own out of the count.
FreeSeats(d, at, own) ==
  Purchased(d, at) - Cardinality(SeatsHeld(d, at)) - Cardinality(Reservations(at) \ own)

\* A command of the web server counts as of its own clock reading: the operating
\* day of the reading, and only the rows created by then.
FreeAsOf(at, own) == FreeSeats(OperatingDay[at], at, own)

\* The recovery job counts the operating day of its clock and every row.
Latest == MaxTime
Free(d) == FreeSeats(d, Latest, {})

-------------------------------------------------------------------------------
(* Locks *)

PoolFree == poolLock.owner = Nobody
\* FOR UPDATE of a transaction without the pool lock waits for these rows.
RowFree(r) == r \notin poolLock.rows

-------------------------------------------------------------------------------
(* Effects that several transactions share *)

\* routeProvisioningActionInTransaction: a pending action whose kind the planner
\* chooses.  A request has at most one checklist in its life (unique index).
Plannable(r, kind) ==
  /\ kind \in Kinds
  /\ kind = "checklist" => \A k \in Attempts : action[r][k].kind # "checklist"

\* Mutant: the row is stamped after the clock reading it was counted with.
IssuedLate(kind, at) ==
  [status |-> "pending", kind |-> kind, createdAt |-> at + 1, reason |-> "none"]

Issued(kind, at) ==
  [status |-> "pending", kind |-> kind, createdAt |-> at, reason |-> "none"]

Issue(r, kind, at) ==
  /\ action' = [action EXCEPT ![r][NextAttempt(r)] = Issued(kind, at)]
  /\ request' = [request EXCEPT ![r] = "provisioning"]

\* The seat of attempt k: an assignment from the operating day of at.
Seat(r, k, at) ==
  /\ assignment' = [assignment EXCEPT ![r] =
       [status |-> "open", startedOn |-> OperatingDay[at],
        endedOn |-> OperatingDay[0], createdAt |-> at]]
  /\ action' = [action EXCEPT ![r][k].status = "confirmed"]
  /\ request' = [request EXCEPT ![r] = "active"]

\* A provision action that ends without a seat, and the state it leaves behind.
Drop(r, k, status, reason, state) ==
  /\ action' = [action EXCEPT ![r][k] = [@ EXCEPT !.status = status, !.reason = reason]]
  /\ request' = [request EXCEPT ![r] = state]

\* observeNoSeatInTransaction: an approved request waits for a seat.
Block(r) ==
  /\ request' = [request EXCEPT ![r] = "blocked_no_seat"]
  /\ UNCHANGED action

Close(s) ==
  /\ session' = [session EXCEPT ![s] = Idle]
  /\ poolLock' = Unlocked

-------------------------------------------------------------------------------
(* Transactions under the pool lock *)

\* A user acts on what the page showed: the state the command needs held once.
Offered(op, r) ==
  CASE op = "approve" -> request[r] = "pending_approval"
    [] op = "confirm" -> request[r] = "provisioning"
                         /\ \E k \in LiveAttempts(r) : action[r][k].kind = "checklist"
    [] op = "retry"   -> request[r] = "failed"

\* occurredAt is read before the transaction opens (or before it locks).
Begin(s) ==
  /\ session[s] = Idle
  /\ \/ \E op \in SeatOperations \cap Operations, r \in Requests :
          /\ Offered(op, r)
          /\ session' = [session EXCEPT ![s] =
               [phase |-> "begun", op |-> op, r |-> r, at |-> now]]
     \/ \E day \in Days, q \in 0..MaxQty :
          /\ "change" \in Operations
          /\ session' = [session EXCEPT ![s] =
               [phase |-> "begun", op |-> "change",
                row |-> [from |-> day, qty |-> q, createdAt |-> now]]]
  /\ UNCHANGED <<now, request, action, assignment, capacity, work, poolLock>>

\* The rows re-read under the locks still allow the command.
Retryable(r) ==
  /\ request[r] = "failed"
  /\ LiveAttempts(r) = {}
  /\ \E k \in Attempts : /\ action[r][k].kind = "invite"
                         /\ action[r][k].status = "failed"
                         /\ action[r][k].reason = "provider_invitation_failed"

ChecklistOf(r) == {k \in LiveAttempts(r) : action[r][k].kind = "checklist"}

\* Mutant: an approval trusts the state the page showed.
AdmissibleUnchecked(c) ==
  CASE c.op = "approve" -> TRUE
    [] c.op = "confirm" -> request[c.r] = "provisioning" /\ ChecklistOf(c.r) # {}
    [] c.op = "retry"   -> Retryable(c.r)
    [] c.op = "change"  -> \A row \in capacity : row.from # c.row.from

Admissible(c) ==
  CASE c.op = "approve" -> request[c.r] = "pending_approval"
    [] c.op = "confirm" -> request[c.r] = "provisioning" /\ ChecklistOf(c.r) # {}
    [] c.op = "retry"   -> Retryable(c.r)
    [] c.op = "change"  -> \A row \in capacity : row.from # c.row.from

\* The reservation a confirmation turns into a seat is not in its own way.
Own(c) == IF c.op = "confirm" THEN {c.r} \X ChecklistOf(c.r) ELSE {}

\* Mutant: the seat after the last one is taken.
SeatForOneMore(c) == c.op = "retry" \/ FreeAsOf(c.at, Own(c)) >= 0

\* Is there a seat for the command?  A retry does not ask.
SeatFor(c) == c.op = "retry" \/ FreeAsOf(c.at, Own(c)) > 0

Evaluate(s) ==
  LET c == session[s] IN
  /\ c.phase = "begun"
  /\ PoolFree
  /\ Admissible(c)
  /\ c.op = "retry" => NextAttempts(c.r) # {}      \* bound: MaxAttempts
  /\ session' = [session EXCEPT ![s] =
       IF c.op = "change"
       THEN [phase |-> "evaluated", op |-> "change", row |-> c.row]
       ELSE [phase |-> "evaluated", op |-> c.op, r |-> c.r, at |-> c.at, seat |-> SeatFor(c)]]
  /\ poolLock' = [owner |-> s, rows |-> IF c.op = "change" THEN {} ELSE {c.r}]
  /\ UNCHANGED <<now, request, action, assignment, capacity, work>>

\* The rows no longer allow the command: an error, and nothing is written.
Refuse(s) ==
  /\ session[s].phase = "begun"
  /\ PoolFree
  /\ ~Admissible(session[s])
  /\ session' = [session EXCEPT ![s] = Idle]
  /\ UNCHANGED <<now, request, action, assignment, capacity, work, poolLock>>

\* A failed statement, a lost connection, or CHECKLIST_CAPACITY_UNAVAILABLE.
Rollback(s) ==
  /\ session[s].phase = "evaluated"
  /\ Close(s)
  /\ UNCHANGED <<now, request, action, assignment, capacity, work>>

Evaluated(s, op) == session[s].phase = "evaluated" /\ session[s].op = op

\* decide: pending_approval -> approved -> provisioning, or blocked_no_seat
\* when the pool looks empty.
CommitApproval(s) ==
  /\ Evaluated(s, "approve")
  /\ LET c == session[s] IN
       \/ /\ c.seat
          /\ \E kind \in Kinds : Plannable(c.r, kind) /\ Issue(c.r, kind, c.at)
       \/ ~c.seat /\ Block(c.r)
  /\ Close(s)
  /\ UNCHANGED <<now, assignment, capacity, work>>

CommitConfirmation(s) ==
  /\ Evaluated(s, "confirm")
  /\ session[s].seat
  /\ \E k \in ChecklistOf(session[s].r) : Seat(session[s].r, k, session[s].at)
  /\ Close(s)
  /\ UNCHANGED <<now, capacity, work>>

CommitRetry(s) ==
  /\ Evaluated(s, "retry")
  /\ \E kind \in Kinds : /\ Plannable(session[s].r, kind)
                         /\ Issue(session[s].r, kind, session[s].at)
  /\ Close(s)
  /\ UNCHANGED <<now, assignment, capacity, work>>

\* changeCapacity: the row and its recovery work are one transaction.
CommitCapacity(s) ==
  /\ Evaluated(s, "change")
  /\ LET row == session[s].row IN
       /\ capacity' = capacity \cup {row}
       /\ work' = [work EXCEPT ![row.from] =
            [status |-> "pending", createdAt |-> row.createdAt]]
  /\ Close(s)
  /\ UNCHANGED <<now, request, action, assignment>>

-------------------------------------------------------------------------------
(* Transactions that lock the request's rows only *)

\* Mutant: a rejection does not re-read the state.
RejectUnchecked(r) ==
  /\ "reject" \in Operations
  /\ RowFree(r)
  /\ request' = [request EXCEPT ![r] = "rejected"]
  /\ UNCHANGED <<now, action, assignment, capacity, work, session, poolLock>>

Reject(r) ==
  /\ "reject" \in Operations
  /\ RowFree(r)
  /\ request[r] = "pending_approval"
  /\ request' = [request EXCEPT ![r] = "rejected"]
  /\ UNCHANGED <<now, action, assignment, capacity, work, session, poolLock>>

MarkChecklistNotDone(r) ==
  /\ "mark_not_done" \in Operations
  /\ RowFree(r)
  /\ request[r] = "provisioning"
  /\ \E k \in ChecklistOf(r) : Drop(r, k, "failed", "operator", "failed")
  /\ UNCHANGED <<now, assignment, capacity, work, session, poolLock>>

\* The pending invitation a delivery run finalizes, whatever the provider said.
PendingInvites(r) ==
  {k \in Attempts : action[r][k].kind = "invite" /\ action[r][k].status = "pending"}

DeliverInvite(r) ==
  /\ RowFree(r)
  /\ request[r] = "provisioning"
  /\ \E k \in PendingInvites(r) : action' = [action EXCEPT ![r][k].status = "sent"]
  /\ request' = [request EXCEPT ![r] = "invited"]
  /\ UNCHANGED <<now, assignment, capacity, work, session, poolLock>>

\* The provider says its own seats are exhausted.
RefuseInviteNoSeat(r) ==
  /\ RowFree(r)
  /\ request[r] = "provisioning"
  /\ NextAttempts(r) # {}                          \* bound: MaxAttempts
  /\ \E k \in PendingInvites(r) :
       Drop(r, k, "failed", "capacity_unavailable", "blocked_no_seat")
  /\ UNCHANGED <<now, assignment, capacity, work, session, poolLock>>

FailInvite(r) ==
  /\ RowFree(r)
  /\ request[r] = "provisioning"
  /\ \E k \in PendingInvites(r) :
       Drop(r, k, "failed", "provider_invitation_failed", "failed")
  /\ UNCHANGED <<now, assignment, capacity, work, session, poolLock>>

SentInvites(r) ==
  {k \in Attempts : action[r][k].kind = "invite" /\ action[r][k].status = "sent"}

\* The membership poll sees the member; at is the time its job was enqueued.
ActivateMember(r, at) ==
  /\ at <= now
  /\ RowFree(r)
  /\ request[r] = "invited"
  /\ assignment[r].status = "none"
  /\ \E k \in SentInvites(r) : Seat(r, k, at)
  /\ UNCHANGED <<now, capacity, work, session, poolLock>>

WithdrawInvitation(r) ==
  /\ "withdraw" \in Operations
  /\ RowFree(r)
  /\ request[r] = "invited"
  /\ assignment[r].status = "none"
  /\ \E k \in SentInvites(r) : Drop(r, k, "withdrawn", "none", "deprovisioned")
  /\ UNCHANGED <<now, assignment, capacity, work, session, poolLock>>

\* The pending 'remove' action this inserts is the state "offboarding" itself:
\* a request has one in its life, resolved by the step that leaves the state.
StartOffboarding(r) ==
  /\ "offboard" \in Operations
  /\ RowFree(r)
  /\ request[r] = "active"
  /\ assignment[r].status = "open"
  /\ request' = [request EXCEPT ![r] = "offboarding"]
  /\ UNCHANGED <<now, action, assignment, capacity, work, session, poolLock>>

\* Mutant: the end of a seat is not compared with its start.
AnyEnd(r, day) == TRUE

EndsInOrder(r, day) == assignment[r].startedOn <= day

\* The seat is held through the operating day of the confirmation.
CompleteOffboarding(r, at) ==
  /\ "offboard" \in Operations
  /\ at <= now
  /\ RowFree(r)
  /\ request[r] = "offboarding"
  /\ assignment[r].status = "open"
  /\ EndsInOrder(r, OperatingDay[at])
  /\ assignment' = [assignment EXCEPT ![r].status = "ended", ![r].endedOn = OperatingDay[at]]
  /\ request' = [request EXCEPT ![r] = "deprovisioned"]
  /\ UNCHANGED <<now, action, capacity, work, session, poolLock>>

Tick ==
  /\ now < MaxTime                                 \* bound: MaxTime
  /\ now' = now + 1
  /\ UNCHANGED <<request, action, assignment, capacity, work, session, poolLock>>

-------------------------------------------------------------------------------

Init ==
  /\ now = 0
  /\ request = [r \in Requests |-> "pending_approval"]
  /\ action = [r \in Requests |-> [k \in Attempts |-> NoAction]]
  /\ assignment = [r \in Requests |-> NoSeat]
  /\ \E q \in 0..MaxQty, d \in Days :
       /\ d <= OperatingDay[0]
       /\ capacity = {[from |-> d, qty |-> q, createdAt |-> 0]}
  /\ work = [d \in Days |-> NoWork]
  /\ session = [s \in Sessions |-> Idle]
  /\ poolLock = Unlocked

SessionStep(s) ==
  \/ Begin(s) \/ Evaluate(s) \/ Refuse(s) \/ Rollback(s)
  \/ CommitApproval(s) \/ CommitConfirmation(s) \/ CommitRetry(s) \/ CommitCapacity(s)

RequestStep(r) ==
  \/ Reject(r) \/ MarkChecklistNotDone(r)
  \/ DeliverInvite(r) \/ RefuseInviteNoSeat(r) \/ FailInvite(r)
  \/ WithdrawInvitation(r) \/ StartOffboarding(r)
  \/ \E at \in Times : ActivateMember(r, at) \/ CompleteOffboarding(r, at)

PoolNext ==
  \/ \E s \in Sessions : SessionStep(s)
  \/ \E r \in Requests : RequestStep(r)
  \/ Tick

Spec == Init /\ [][PoolNext]_vars

-------------------------------------------------------------------------------
(* Properties *)

\* Seen from outside the transactions, requests only move along the transition
\* table (BR-04): the pool implements the abstract life of a request.
Lifecycle == INSTANCE RequestLifecycle
LifecycleIsLegal == Lifecycle!Spec

\* A request carries exactly the provision action its state promises: one
\* pending action while provisioning, one sent invitation while invited, none
\* alive otherwise.  A reservation that outlived its request would hold a seat
\* for ever, and two would hold it twice.
ActionMatchesState ==
  \A r \in Requests :
    CASE request[r] = "provisioning" ->
           \E k \in Attempts : LiveAttempts(r) = {k} /\ action[r][k].status = "pending"
      [] request[r] = "invited" ->
           \E k \in Attempts : LiveAttempts(r) = {k} /\ k \in SentInvites(r)
      [] OTHER -> LiveAttempts(r) = {}

\* A seat and the request that won it tell one story: the seat is open exactly
\* while the request is active or being offboarded, it was won by exactly one
\* confirmed action, and it never ends before it started.
SeatMatchesState ==
  \A r \in Requests :
    /\ assignment[r].status = "open" <=> request[r] \in {"active", "offboarding"}
    /\ assignment[r].status = "ended" => /\ request[r] = "deprovisioned"
                                         /\ assignment[r].startedOn <= assignment[r].endedOn
    /\ IF assignment[r].status = "none"
       THEN \A k \in Attempts : action[r][k].status # "confirmed"
       ELSE \E k \in Attempts :
              \A j \in Attempts : action[r][j].status = "confirmed" <=> j = k

\* Every row the pool counts was created by instant at.
Fresh(at) ==
  /\ \A r \in Requests : /\ assignment[r].status # "none" => assignment[r].createdAt <= at
                         /\ \A k \in Attempts : action[r][k].status # "none"
                                                  => action[r][k].createdAt <= at
  /\ \A c \in capacity : c.createdAt <= at

\* The commit of an approval that reserves a seat, or of a confirmation.
TakesSeat(s) ==
  /\ session[s].phase = "evaluated" /\ session'[s] = Idle
  /\ session[s].op \in {"approve", "confirm"}
  /\ request'[session[s].r] \in {"provisioning", "active"}
  /\ request' # request

\* An approval or a confirmation whose clock reading is not older than any row
\* of the pool never over-commits the pool on its operating day, whatever other
\* transactions did between its count and its commit.
FreshTakeFits ==
  [][\A s \in Sessions, at \in Times :
       TakesSeat(s) /\ session[s].at = at /\ Fresh(at) => Free(OperatingDay[at])' >= 0]_vars

\* What the repository's tests say of approvals that compete for the final seat:
\* they are serialized, one reserves it and the other is blocked.
FinalSeatReservedOnce ==
  Cardinality(Reservations(Latest)) <= Purchased(OperatingDay[now], Latest)
===============================================================================
