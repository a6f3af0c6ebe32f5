-------------------------- MODULE InviteProtocolProofs --------------------------
(***************************************************************************)
(* Proofs about InviteProtocol, for every number of workers,               *)
(* administrators, attempts, pages and faults: no provider call is ever    *)
(* repeated, and the protocol implements InvitationContract.               *)
(***************************************************************************)
EXTENDS InviteProtocol, FiniteSetTheorems, TLAPS

\* What the two theorems about provider calls need: the connections that hold
\* advisory locks are kept, or a single worker runs the delivery.
LocksProtect == LossyLocks => \A v, w \in Workers : v = w

Delivering  == {"locked", "posting", "answered", "noted"}
Polling     == {"polling", "page_read"}
Withdrawing == {"listing", "deleting", "deleted", "completing"}

\* The process works on the attempt under its advisory lock.
Holds(p, k) ==
  /\ proc[p].phase \in Delivering \cup Polling \cup Withdrawing
  /\ proc[p].k = k
  /\ proc[p].phase \in Delivering => proc[p].session

LockInv == \A p \in Procs, k \in Attempts : Holds(p, k) => lock[k] = p

\* Only workers deliver, and only a lost connection ends a session early.
SessionInv ==
  \A p \in Procs : proc[p].phase \in Delivering \cup {"found"} =>
    p \in Workers /\ (proc[p].session \/ LossyLocks)

\* An attempt that stands for the request: not yet answered, or answered for good.
Live(k) == status[k] \in {"pending", "sent", "confirmed", "withdrawn"}

\* What the rows of one attempt say of the provider and of the request.
AttemptInv(k) ==
  /\ status[k] = "none" => evidence[k] = "none"
  /\ status[k] = "failed" => evidence[k] \in {"failed", "no_seat"}
  /\ status[k] = "pending" => state = "provisioning"
  /\ status[k] = "sent" => state = "invited" /\ provider[k] # "none"
  /\ status[k] = "confirmed" => state = "active"
  /\ status[k] = "withdrawn" => state = "deprovisioned"
  /\ posts[k] <= 1
  /\ evidence[k] = "none" => posts[k] = 0
  /\ posts[k] = 0 => stray[k] = "none"
  /\ evidence[k] \in {"none", "no_seat", "failed"} => provider[k] = "none"
  /\ evidence[k] = "succeeded" => provider[k] # "none"
  /\ deletes[k] <= 1
  /\ intent[k].status = "none" => deletes[k] = 0
  /\ intent[k].status \in {"receipt", "withdrawn"} => provider[k] = "deleted"

OneLive == \A i, j \in Attempts : Live(i) /\ Live(j) => i = j

\* What a process that works on an attempt, as `s` says, knows of it.
WorkOf(s) ==
  LET k == s.k IN
  /\ s.phase = "locked" => status[k] = "pending" /\ evidence[k] = "none"
  /\ s.phase = "posting" =>
       status[k] = "pending" /\ evidence[k] = "requested" /\ posts[k] = 0 /\ provider[k] = "none"
  /\ s.phase = "answered" =>
       /\ evidence[k] = "requested"
       /\ s.answer \in {"created", "garbled"} => provider[k] # "none"
       /\ s.answer \in {"no_seat", "refused", "erred"} => provider[k] = "none"
  /\ s.phase = "page_read" /\ s.accepted => Member
  /\ s.phase \in {"listing", "deleting"} =>
       status[k] = "sent" /\ intent[k].status = "pending" /\ deletes[k] = 0
  /\ s.phase = "deleted" => intent[k].status = "pending" /\ provider[k] = "deleted"

DataInv ==
  /\ \A k \in Attempts : AttemptInv(k)
  /\ OneLive
  /\ \A p \in Procs : WorkOf(proc[p])

IInv == TypeOK /\ LockInv /\ SessionInv /\ DataInv

-------------------------------------------------------------------------------
(* Type correctness *)

DeliveryState == [phase : {"found", "locked", "posting"}, k : Attempts, session : BOOLEAN]
AnswerState   == [phase : {"answered", "noted"}, k : Attempts, session : BOOLEAN,
                  answer : Answers]
PollState     == [phase : {"poll_found", "polling"}, k : Attempts, page : 0..Pages]
PageState     == [phase : {"page_read"}, k : Attempts, page : 1..(Pages + 1),
                  accepted : BOOLEAN]
WithdrawState == [phase : {"waiting", "listing", "deleting", "deleted", "completing"},
                  k : Attempts]

LEMMA ProcStates ==
  ProcState = {Resting, At("to_poll"), At("to_expire")} \cup DeliveryState \cup AnswerState
              \cup PollState \cup PageState \cup WithdrawState
BY DEF ProcState, DeliveryState, AnswerState, PollState, PageState, WithdrawState

\* The phase of a process says which record it is.
LEMMA PhaseShape ==
  ASSUME NEW s \in ProcState
  PROVE  /\ s.phase \in {"found", "locked", "posting"} => s \in DeliveryState
         /\ s.phase \in {"answered", "noted"} => s \in AnswerState
         /\ s.phase \in {"poll_found", "polling"} => s \in PollState
         /\ s.phase = "page_read" => s \in PageState
         /\ s.phase \in {"waiting", "listing", "deleting", "deleted", "completing"} =>
              s \in WithdrawState
BY ProcStates DEF DeliveryState, AnswerState, PollState, PageState, WithdrawState,
   Resting, At

LEMMA InitTyped == Init => TypeOK
<1> SUFFICES ASSUME Init PROVE TypeOK
  OBVIOUS
<1>1. proc \in [Procs -> ProcState]
  BY ProcStates DEF Init
<1>2. checkpoint \in [Attempts -> 0..Pages] /\ faults \in 0..MaxFaults
  BY InviteBoundsAssumption DEF Init
<1>3. lock \in [Attempts -> Procs \cup {None}]
  BY DEF Init
<1>4. intent \in [Attempts -> [status : {"none", "pending", "receipt", "withdrawn"},
                              by : Admins \cup {None, "expiry"}]]
  BY DEF Init, NoIntent
<1>5. posts \in [Attempts -> Nat] /\ deletes \in [Attempts -> Nat]
  BY DEF Init
<1> QED
  BY <1>1, <1>2, <1>3, <1>4, <1>5 DEF Init, TypeOK

LEMMA BecomeTyped ==
  ASSUME TypeOK, NEW p \in Procs, NEW s \in ProcState, Become(p, s)
  PROVE  proc' \in [Procs -> ProcState]
BY DEF TypeOK, Become

LEMMA LockTyped ==
  ASSUME TypeOK, NEW p \in Procs, NEW k \in Attempts, TakeLock(p, k) \/ Unlock(k)
  PROVE  lock' \in [Attempts -> Procs \cup {None}]
BY DEF TypeOK, TakeLock, Unlock

LEMMA DeliverTyped ==
  ASSUME TypeOK, NEW w \in Workers, Deliver(w)
  PROVE  TypeOK'
<1>0. w \in Procs /\ proc[w] \in ProcState
  BY DEF Procs, TypeOK
<1>1. CASE ScanDelivery(w)
  <2>1. CASE Become(w, At("to_poll"))
    BY <1>0, <1>1, <2>1, ProcStates, BecomeTyped DEF ScanDelivery, TypeOK, rows
  <2>2. ASSUME NEW k \in Attempts, Become(w, [phase |-> "found", k |-> k, session |-> TRUE])
        PROVE  TypeOK'
    <3>1. [phase |-> "found", k |-> k, session |-> TRUE] \in ProcState
      BY ProcStates DEF DeliveryState
    <3> QED
      BY <1>0, <1>1, <2>2, <3>1, BecomeTyped DEF ScanDelivery, TypeOK, rows
  <2> QED
    BY <1>1, <2>1, <2>2 DEF ScanDelivery
<1>2. CASE LockDelivery(w)
  <2>1. proc[w] \in DeliveryState
    BY <1>0, <1>2, PhaseShape DEF LockDelivery
  <2>2. [proc[w] EXCEPT !.phase = "locked"] \in ProcState /\ At("to_poll") \in ProcState
    BY <2>1, ProcStates DEF DeliveryState
  <2>3. proc' \in [Procs -> ProcState]
    BY <1>0, <1>2, <2>2, BecomeTyped DEF LockDelivery
  <2>4. lock' \in [Attempts -> Procs \cup {None}]
    BY <1>0, <1>2, <2>1, LockTyped DEF LockDelivery, DeliveryState, TypeOK
  <2> QED
    BY <1>2, <2>3, <2>4 DEF LockDelivery, TypeOK, rows
<1>3. CASE Announce(w)
  <2>1. proc[w] \in DeliveryState
    BY <1>0, <1>3, PhaseShape DEF Announce
  <2>2. [proc[w] EXCEPT !.phase = "posting"] \in ProcState
    BY <2>1, ProcStates DEF DeliveryState
  <2>3. proc' \in [Procs -> ProcState]
    BY <1>0, <1>3, <2>2, BecomeTyped DEF Announce
  <2> QED
    BY <1>3, <2>3 DEF Announce, TypeOK
<1>4. CASE Post(w)
  <2>1. proc[w] \in DeliveryState
    BY <1>0, <1>4, PhaseShape DEF Post
  <2>2. PICK answer \in Answers, effect \in BOOLEAN :
          /\ faults' = IF answer \in {"garbled", "erred", "lost"} THEN faults + 1 ELSE faults
          /\ faults' <= MaxFaults
          /\ provider' = IF effect /\ answer # "erred"
                           THEN [provider EXCEPT ![proc[w].k] = "pending"] ELSE provider
          /\ stray' = IF answer = "erred" THEN [stray EXCEPT ![proc[w].k] = "pending"] ELSE stray
          /\ Become(w, [phase |-> "answered", k |-> proc[w].k, session |-> proc[w].session,
                        answer |-> answer])
    BY <1>4 DEF Post
  <2>3. [phase |-> "answered", k |-> proc[w].k, session |-> proc[w].session,
         answer |-> answer] \in ProcState
    BY <2>1, ProcStates DEF DeliveryState, AnswerState
  <2>4. proc' \in [Procs -> ProcState]
    BY <1>0, <2>2, <2>3, BecomeTyped
  <2>5. faults' \in 0..MaxFaults
    BY <2>2, InviteBoundsAssumption DEF TypeOK
  <2>6. posts' \in [Attempts -> Nat]
    BY <1>4, <2>1 DEF Post, TypeOK, DeliveryState
  <2> QED
    BY <1>4, <2>2, <2>4, <2>5, <2>6 DEF Post, TypeOK, rows
<1>5. CASE NoteAnswer(w)
  <2>1. proc[w] \in AnswerState
    BY <1>0, <1>5, PhaseShape DEF NoteAnswer
  <2>2. [proc[w] EXCEPT !.phase = "noted"] \in ProcState
    BY <2>1, ProcStates DEF AnswerState
  <2>3. proc' \in [Procs -> ProcState]
    BY <1>0, <1>5, <2>2, BecomeTyped DEF NoteAnswer
  <2> QED
    BY <1>5, <2>1, <2>3 DEF NoteAnswer, TypeOK, AnswerState, Answers
<1>6. CASE Finalize(w)
  <2>1. proc[w] \in AnswerState
    BY <1>0, <1>6, PhaseShape DEF Finalize
  <2>2. proc' \in [Procs -> ProcState]
    BY <1>0, <1>6, ProcStates, BecomeTyped DEF Finalize
  <2>3. lock' \in [Attempts -> Procs \cup {None}]
    BY <1>0, <1>6, <2>1, LockTyped DEF Finalize, AnswerState, TypeOK
  <2> QED
    BY <1>6, <2>1, <2>2, <2>3 DEF Finalize, TypeOK, Outcome, AnswerState
<1> QED
  BY <1>1, <1>2, <1>3, <1>4, <1>5, <1>6 DEF Deliver

LEMMA PollTyped ==
  ASSUME TypeOK, NEW w \in Workers, Poll(w)
  PROVE  TypeOK'
<1>0. w \in Procs /\ proc[w] \in ProcState
  BY DEF Procs, TypeOK
<1>1. CASE ScanPoll(w)
  <2>1. CASE Become(w, At("to_expire"))
    BY <1>0, <1>1, <2>1, ProcStates, BecomeTyped DEF ScanPoll, TypeOK, rows
  <2>2. ASSUME NEW k \in Attempts,
               Become(w, [phase |-> "poll_found", k |-> k, page |-> checkpoint[k]])
        PROVE  TypeOK'
    <3>1. [phase |-> "poll_found", k |-> k, page |-> checkpoint[k]] \in ProcState
      BY ProcStates DEF PollState, TypeOK
    <3> QED
      BY <1>0, <1>1, <2>2, <3>1, BecomeTyped DEF ScanPoll, TypeOK, rows
  <2> QED
    BY <1>1, <2>1, <2>2 DEF ScanPoll
<1>2. CASE LockPoll(w)
  <2>1. proc[w] \in PollState
    BY <1>0, <1>2, PhaseShape DEF LockPoll
  <2>2. [proc[w] EXCEPT !.phase = "polling"] \in ProcState /\ At("to_expire") \in ProcState
    BY <2>1, ProcStates DEF PollState
  <2>3. proc' \in [Procs -> ProcState]
    BY <1>0, <1>2, <2>2, BecomeTyped DEF LockPoll
  <2>4. lock' \in [Attempts -> Procs \cup {None}]
    BY <1>0, <1>2, <2>1, LockTyped DEF LockPoll, PollState, TypeOK
  <2> QED
    BY <1>2, <2>3, <2>4 DEF LockPoll, TypeOK, rows
<1>3. CASE FetchPage(w)
  <2>1. proc[w] \in PollState
    BY <1>0, <1>3, PhaseShape DEF FetchPage
  <2>2. proc[w].page + 1 \in 1..(Pages + 1)
    BY <2>1, InviteBoundsAssumption DEF PollState
  <2>3. [phase |-> "page_read", k |-> proc[w].k, page |-> proc[w].page + 1,
         accepted |-> Member /\ proc[w].page + 1 = HomePage] \in ProcState
    <3>1. (Member /\ proc[w].page + 1 = HomePage) \in BOOLEAN
      OBVIOUS
    <3> QED
      BY <2>1, <2>2, <3>1, ProcStates DEF PollState, PageState
  <2>4. proc' \in [Procs -> ProcState]
    BY <1>0, <1>3, <2>3, ProcStates, BecomeTyped DEF FetchPage
  <2>5. lock' \in [Attempts -> Procs \cup {None}]
    BY <1>0, <1>3, <2>1, LockTyped DEF FetchPage, PollState, TypeOK
  <2>6. faults' \in 0..MaxFaults
    BY <1>3, InviteBoundsAssumption DEF FetchPage, TypeOK
  <2> QED
    BY <1>3, <2>4, <2>5, <2>6 DEF FetchPage, TypeOK, rows
<1>4. CASE Activate(w)
  <2>1. proc[w] \in PageState
    BY <1>0, <1>4, PhaseShape DEF Activate
  <2>2. proc' \in [Procs -> ProcState]
    BY <1>0, <1>4, ProcStates, BecomeTyped DEF Activate
  <2>3. lock' \in [Attempts -> Procs \cup {None}]
    BY <1>0, <1>4, <2>1, LockTyped DEF Activate, PageState
  <2>4. checkpoint' \in [Attempts -> 0..Pages]
    BY <1>4, InviteBoundsAssumption DEF Activate, TypeOK
  <2> QED
    BY <1>4, <2>2, <2>3, <2>4 DEF Activate, TypeOK
<1>5. CASE SaveCheckpoint(w)
  <2>1. proc[w] \in PageState
    BY <1>0, <1>5, PhaseShape DEF SaveCheckpoint
  <2>2. SavedPage(proc[w].page) \in 0..Pages
    BY <2>1, InviteBoundsAssumption DEF SavedPage, PageState
  <2>3. proc[w].page <= Pages =>
          [phase |-> "polling", k |-> proc[w].k, page |-> proc[w].page] \in ProcState
    BY <2>1, InviteBoundsAssumption, ProcStates DEF PageState, PollState
  <2>4. ~(proc[w].page > Pages) => proc[w].page <= Pages
    BY <2>1, InviteBoundsAssumption DEF PageState
  <2>5. proc' \in [Procs -> ProcState]
    BY <1>0, <1>5, <2>3, <2>4, ProcStates, BecomeTyped DEF SaveCheckpoint
  <2>6. lock' \in [Attempts -> Procs \cup {None}]
    BY <1>0, <1>5, <2>1, LockTyped DEF SaveCheckpoint, PageState, TypeOK
  <2>7. checkpoint' \in [Attempts -> 0..Pages]
    BY <1>5, <2>2 DEF SaveCheckpoint, TypeOK
  <2> QED
    BY <1>5, <2>5, <2>6, <2>7 DEF SaveCheckpoint, TypeOK
<1> QED
  BY <1>1, <1>2, <1>3, <1>4, <1>5 DEF Poll

LEMMA WaitingTyped ==
  ASSUME NEW k \in Attempts, NEW phase \in {"waiting", "listing", "deleting", "deleted", "completing"}
  PROVE  [phase |-> phase, k |-> k] \in ProcState
BY ProcStates DEF WithdrawState

LEMMA SubmitTyped ==
  ASSUME TypeOK, NEW p \in Procs,
         ScanExpiry(p) \/ SubmitWithdrawal(p)
  PROVE  TypeOK'
<1>1. proc' \in [Procs -> ProcState]
  BY ProcStates, WaitingTyped, BecomeTyped DEF ScanExpiry, SubmitWithdrawal
<1> QED
  BY <1>1 DEF ScanExpiry, SubmitWithdrawal, TypeOK, rows

LEMMA WithdrawTyped ==
  ASSUME TypeOK, NEW p \in Procs, Withdraw(p)
  PROVE  TypeOK'
<1>0. proc[p].k \in Attempts
  BY PhaseShape DEF TypeOK, WithdrawState, Withdraw, Prepare, ListInvites, DeleteInvite,
     SaveReceipt, CompleteWithdrawal
<1>1. proc' \in [Procs -> ProcState]
  BY <1>0, ProcStates, WaitingTyped, BecomeTyped
  DEF Withdraw, Prepare, ListInvites, DeleteInvite, SaveReceipt, CompleteWithdrawal
<1>2. lock' \in [Attempts -> Procs \cup {None}]
  BY <1>0, LockTyped
  DEF Withdraw, Prepare, ListInvites, DeleteInvite, SaveReceipt, CompleteWithdrawal, TypeOK
<1>3. intent' \in [Attempts -> [status : {"none", "pending", "receipt", "withdrawn"},
                                by : Admins \cup {None, "expiry"}]]
  <2>1. Command(p) \in Admins \cup {None, "expiry"}
    BY DEF Command, Procs
  <2>2. \A st \in {"pending", "receipt", "withdrawn"} :
          /\ [status |-> "pending", by |-> Command(p)] \in
               [status : {"none", "pending", "receipt", "withdrawn"},
                by : Admins \cup {None, "expiry"}]
          /\ [intent[proc[p].k] EXCEPT !.status = st] \in
               [status : {"none", "pending", "receipt", "withdrawn"},
                by : Admins \cup {None, "expiry"}]
    BY <1>0, <2>1 DEF TypeOK
  <2>3. \/ UNCHANGED intent
        \/ intent' = [intent EXCEPT ![proc[p].k] = [status |-> "pending", by |-> Command(p)]]
        \/ \E st \in {"receipt", "withdrawn"} :
             intent' = [intent EXCEPT ![proc[p].k] = [@ EXCEPT !.status = st]]
    BY DEF Withdraw, Prepare, ListInvites, DeleteInvite, SaveReceipt, CompleteWithdrawal, rows
  <2>4. PICK row \in [status : {"none", "pending", "receipt", "withdrawn"},
                     by : Admins \cup {None, "expiry"}] :
          UNCHANGED intent \/ intent' = [intent EXCEPT ![proc[p].k] = row]
    BY <1>0, <2>2, <2>3 DEF TypeOK
  <2> QED
    BY <1>0, <2>4 DEF TypeOK
<1>4. faults' \in 0..MaxFaults
  BY InviteBoundsAssumption
  DEF Withdraw, Prepare, ListInvites, DeleteInvite, SaveReceipt, CompleteWithdrawal, TypeOK
<1>5. provider' \in [Attempts -> {"none", "pending", "accepted", "expired", "deleted"}]
  BY DEF Withdraw, Prepare, ListInvites, DeleteInvite, SaveReceipt, CompleteWithdrawal, TypeOK
<1>6. deletes' \in [Attempts -> Nat]
  BY DEF Withdraw, Prepare, ListInvites, DeleteInvite, SaveReceipt, CompleteWithdrawal, TypeOK
<1>7. /\ state' \in {"provisioning", "invited", "active", "failed", "blocked_no_seat", "deprovisioned"}
      /\ status' \in [Attempts -> {"none", "pending", "sent", "failed", "confirmed", "withdrawn"}]
  BY DEF Withdraw, Prepare, ListInvites, DeleteInvite, SaveReceipt, CompleteWithdrawal, TypeOK, rows
<1>8. UNCHANGED <<evidence, checkpoint, stray, overdue, posts>>
  BY DEF Withdraw, Prepare, ListInvites, DeleteInvite, SaveReceipt, CompleteWithdrawal, rows
<1> QED
  BY <1>1, <1>2, <1>3, <1>4, <1>5, <1>6, <1>7, <1>8 DEF TypeOK

LEMMA EnvironmentTyped ==
  ASSUME TypeOK, Environment
  PROVE  TypeOK'
<1>1. ASSUME NEW k \in Attempts, NextAttempt(k) PROVE TypeOK'
  BY <1>1 DEF NextAttempt, TypeOK
<1>2. ASSUME NEW k \in Attempts, AnswerInvitation(k) PROVE TypeOK'
  <2>1. provider' \in [Attempts -> {"none", "pending", "accepted", "expired", "deleted"}]
    BY <1>2 DEF AnswerInvitation, TypeOK
  <2>2. stray' \in [Attempts -> {"none", "pending", "accepted", "expired"}]
    BY <1>2 DEF AnswerInvitation, TypeOK
  <2>3. UNCHANGED <<rows, overdue, lock, proc, posts, deletes, faults>>
    BY <1>2 DEF AnswerInvitation
  <2> QED
    BY <2>1, <2>2, <2>3 DEF TypeOK, rows
<1>3. CASE ChangeRule
  BY <1>3 DEF ChangeRule, TypeOK, rows
<1>4. ASSUME NEW p \in Procs, Fail(p) PROVE TypeOK'
  <2>1. proc' \in [Procs -> ProcState]
    BY <1>4, ProcStates, BecomeTyped DEF Fail
  <2>2. faults' \in 0..MaxFaults
    BY <1>4, InviteBoundsAssumption DEF Fail, TypeOK
  <2>3. lock' \in [Attempts -> Procs \cup {None}]
    BY <1>4 DEF Fail, TypeOK
  <2> QED
    BY <1>4, <2>1, <2>2, <2>3 DEF Fail, TypeOK, rows
<1>5. ASSUME NEW w \in Workers, LoseLock(w) PROVE TypeOK'
  <2>0. w \in Procs /\ proc[w] \in ProcState
    BY DEF Procs, TypeOK
  <2>1. proc[w] \in DeliveryState \/ proc[w] \in AnswerState
    BY <1>5, <2>0, PhaseShape DEF LoseLock
  <2>2. [proc[w] EXCEPT !.session = FALSE] \in ProcState /\ proc[w].k \in Attempts
    BY <2>1, ProcStates DEF DeliveryState, AnswerState
  <2>3. proc' \in [Procs -> ProcState]
    BY <1>5, <2>0, <2>2, BecomeTyped DEF LoseLock
  <2>4. lock' \in [Attempts -> Procs \cup {None}]
    BY <1>5, <2>0, <2>2, LockTyped DEF LoseLock
  <2>5. faults' \in 0..MaxFaults
    BY <1>5, InviteBoundsAssumption DEF LoseLock, TypeOK
  <2> QED
    BY <1>5, <2>3, <2>4, <2>5 DEF LoseLock, TypeOK, rows
<1> QED
  BY <1>1, <1>2, <1>3, <1>4, <1>5 DEF Environment

LEMMA StepTyped == TypeOK /\ [Next]_vars => TypeOK'
<1>1. ASSUME TypeOK, UNCHANGED vars PROVE TypeOK'
  BY <1>1 DEF vars, TypeOK, rows
<1> QED
  BY <1>1, DeliverTyped, PollTyped, SubmitTyped, WithdrawTyped, EnvironmentTyped
  DEF Next, InvitePoll, Procs

\* Every table row and every process keeps its type, for every number of
\* workers, administrators, attempts and faults.
THEOREM TypeCorrect == Spec => []TypeOK
BY InitTyped, StepTyped, PTL DEF Spec

-------------------------------------------------------------------------------
(* The advisory locks *)

LEMMA OthersRest ==
  ASSUME TypeOK, NEW p \in Procs, NEW s, Become(p, s)
  PROVE  proc'[p] = s /\ \A q \in Procs \ {p} : proc'[q] = proc[q]
BY DEF TypeOK, Become

\* A process takes a free lock or gives up its own, and keeps the lock of the
\* attempt it goes on with.
LEMMA LockFrame ==
  ASSUME TypeOK, LockInv, NEW p \in Procs, NEW k \in Attempts,
         lock' = lock \/ TakeLock(p, k) \/ (Unlock(k) /\ lock[k] = p),
         \A q \in Procs \ {p} : proc'[q] = proc[q],
         \A j \in Attempts : Holds(p, j)' => lock'[j] = p
  PROVE  LockInv'
<1> SUFFICES ASSUME NEW q \in Procs, NEW j \in Attempts, Holds(q, j)'
             PROVE  lock'[j] = q
  BY DEF LockInv
<1>1. CASE q = p
  BY <1>1
<1>2. CASE q # p
  <2>1. lock[j] = q
    BY <1>2 DEF Holds, LockInv
  <2>2. q # None
    BY ProcsAssumption DEF Procs
  <2>3. \/ lock' = lock
        \/ lock' = [lock EXCEPT ![k] = p] /\ lock[k] = None
        \/ lock' = [lock EXCEPT ![k] = None] /\ lock[k] = p
    BY DEF TakeLock, Unlock
  <2> QED
    BY <1>2, <2>1, <2>2, <2>3 DEF TypeOK
<1> QED
  BY <1>1, <1>2

\* What a process turns to: nothing that needs a lock, or an attempt it has
\* the lock of.
LEMMA LockStepOf ==
  ASSUME TypeOK, LockInv, SessionInv, NEW p \in Procs, NEW k \in Attempts, NEW s,
         Become(p, s),
         lock' = lock \/ TakeLock(p, k) \/ (Unlock(k) /\ lock[k] = p),
         s.phase \in Delivering \cup Polling \cup Withdrawing =>
           s.k = k /\ (lock'[k] = p \/ (s.phase \in Delivering /\ ~s.session)),
         s.phase \in Delivering \cup {"found"} => p \in Workers /\ (s.session \/ LossyLocks)
  PROVE  LockInv' /\ SessionInv'
<1>1. proc'[p] = s /\ \A q \in Procs \ {p} : proc'[q] = proc[q]
  BY OthersRest
<1>2. \A j \in Attempts : Holds(p, j)' => lock'[j] = p
  BY <1>1 DEF Holds
<1>3. LockInv'
  BY <1>1, <1>2, LockFrame
<1>4. SessionInv'
  BY <1>1 DEF SessionInv
<1> QED
  BY <1>3, <1>4

LEMMA DeliverLocks ==
  ASSUME TypeOK, LockInv, SessionInv, NEW w \in Workers, Deliver(w)
  PROVE  LockInv' /\ SessionInv'
<1> USE DEF Delivering, Polling, Withdrawing
<1>0. w \in Procs /\ proc[w] \in ProcState /\ 1 \in Attempts
  BY InviteBoundsAssumption DEF Procs, TypeOK, Attempts
<1>1. CASE ScanDelivery(w)
  <2>1. ASSUME NEW k \in Attempts, Become(w, [phase |-> "found", k |-> k, session |-> TRUE])
        PROVE  LockInv' /\ SessionInv'
    BY <1>0, <1>1, <2>1, LockStepOf DEF ScanDelivery
  <2>2. CASE Become(w, At("to_poll"))
    BY <1>0, <1>1, <2>2, LockStepOf DEF ScanDelivery, At
  <2> QED
    BY <1>1, <2>1, <2>2 DEF ScanDelivery
<1>2. CASE LockDelivery(w)
  <2>1. proc[w] \in DeliveryState /\ (proc[w].session \/ LossyLocks)
    BY <1>0, <1>2, PhaseShape DEF LockDelivery, SessionInv
  <2>2. CASE TakeLock(w, proc[w].k) /\ Become(w, [proc[w] EXCEPT !.phase = "locked"])
    <3>1. lock'[proc[w].k] = w
      BY <2>1, <2>2 DEF TakeLock, TypeOK, DeliveryState
    <3> DEFINE s == [proc[w] EXCEPT !.phase = "locked"]
    <3>2. s.phase = "locked" /\ s.k = proc[w].k /\ s.session = proc[w].session
      BY <2>1 DEF DeliveryState
    <3> HIDE DEF s
    <3> QED
      BY <1>0, <2>1, <2>2, <3>1, <3>2, LockStepOf DEF DeliveryState, s
  <2>3. CASE UNCHANGED lock /\ Become(w, At("to_poll"))
    BY <1>0, <2>3, LockStepOf DEF At
  <2> QED
    BY <1>2, <2>2, <2>3 DEF LockDelivery
<1>3. CASE Announce(w) \/ NoteAnswer(w)
  <2>1. proc[w].k \in Attempts /\ proc[w].phase \in {"locked", "answered"} /\ lock' = lock
        /\ (proc[w] \in DeliveryState \/ proc[w] \in AnswerState)
    BY <1>0, <1>3, PhaseShape DEF Announce, NoteAnswer, DeliveryState, AnswerState
  <2>2. PICK phase \in {"posting", "noted"} : Become(w, [proc[w] EXCEPT !.phase = phase])
    BY <1>3 DEF Announce, NoteAnswer
  <2>3. /\ [proc[w] EXCEPT !.phase = phase].phase = phase
        /\ [proc[w] EXCEPT !.phase = phase].k = proc[w].k
        /\ [proc[w] EXCEPT !.phase = phase].session = proc[w].session
    BY <2>1 DEF DeliveryState, AnswerState
  <2>4. lock[proc[w].k] = w \/ ~proc[w].session
    BY <1>0, <2>1 DEF LockInv, Holds
  <2>5. proc[w].session \/ LossyLocks
    BY <1>0, <2>1 DEF SessionInv
  <2>6. proc[w].session \in BOOLEAN
    BY <2>1 DEF DeliveryState, AnswerState
  <2> DEFINE s == [proc[w] EXCEPT !.phase = phase]
  <2> HIDE DEF s
  <2> QED
    BY <1>0, <2>1, <2>2, <2>3, <2>4, <2>5, <2>6, LockStepOf DEF s
<1>4. CASE Post(w)
  <2>1. proc[w] \in DeliveryState /\ lock' = lock
    BY <1>0, <1>4, PhaseShape DEF Post
  <2>2. PICK answer \in Answers :
          Become(w, [phase |-> "answered", k |-> proc[w].k, session |-> proc[w].session,
                     answer |-> answer])
    BY <1>4 DEF Post
  <2>3. lock[proc[w].k] = w \/ ~proc[w].session
    BY <1>0, <1>4, <2>1 DEF LockInv, Holds, Post, DeliveryState
  <2>4. proc[w].session \/ LossyLocks
    BY <1>0, <1>4 DEF SessionInv, Post
  <2> QED
    BY <1>0, <2>1, <2>2, <2>3, <2>4, LockStepOf DEF DeliveryState
<1>5. CASE Finalize(w)
  <2>1. proc[w] \in AnswerState
    BY <1>0, <1>5, PhaseShape DEF Finalize
  <2>2. proc[w].session => lock[proc[w].k] = w
    BY <1>0, <1>5, <2>1 DEF LockInv, Holds, Finalize, AnswerState
  <2>3. CASE proc[w].session
    BY <1>0, <1>5, <2>1, <2>2, <2>3, LockStepOf DEF Finalize, At, AnswerState
  <2>4. CASE ~proc[w].session
    BY <1>0, <1>5, <2>1, <2>4, LockStepOf DEF Finalize, At, Resting, AnswerState
  <2> QED
    BY <2>3, <2>4
<1> QED
  BY <1>1, <1>2, <1>3, <1>4, <1>5 DEF Deliver

LEMMA PollLocks ==
  ASSUME TypeOK, LockInv, SessionInv, NEW w \in Workers, Poll(w)
  PROVE  LockInv' /\ SessionInv'
<1> USE DEF Delivering, Polling, Withdrawing
<1>0. w \in Procs /\ proc[w] \in ProcState /\ 1 \in Attempts
  BY InviteBoundsAssumption DEF Procs, TypeOK, Attempts
<1>1. CASE ScanPoll(w)
  BY <1>0, <1>1, LockStepOf DEF ScanPoll, At
<1>2. CASE LockPoll(w)
  <2>1. proc[w] \in PollState
    BY <1>0, <1>2, PhaseShape DEF LockPoll
  <2>2. CASE TakeLock(w, proc[w].k) /\ Become(w, [proc[w] EXCEPT !.phase = "polling"])
    <3>1. lock'[proc[w].k] = w
      BY <2>1, <2>2 DEF TakeLock, TypeOK, PollState
    <3> DEFINE s == [proc[w] EXCEPT !.phase = "polling"]
    <3>2. s.phase = "polling" /\ s.k = proc[w].k
      BY <2>1 DEF PollState
    <3> HIDE DEF s
    <3> QED
      BY <1>0, <2>1, <2>2, <3>1, <3>2, LockStepOf DEF PollState, s
  <2>3. CASE UNCHANGED lock /\ Become(w, At("to_expire"))
    BY <1>0, <2>3, LockStepOf DEF At
  <2> QED
    BY <1>2, <2>2, <2>3 DEF LockPoll
<1>3. CASE FetchPage(w) \/ Activate(w) \/ SaveCheckpoint(w)
  <2>1. proc[w].k \in Attempts
    BY <1>0, <1>3, PhaseShape DEF FetchPage, Activate, SaveCheckpoint, PollState, PageState
  <2>2. lock[proc[w].k] = w
    BY <1>0, <1>3, <2>1 DEF LockInv, Holds, FetchPage, Activate, SaveCheckpoint
  <2>3. CASE Unlock(proc[w].k) /\ Become(w, At("to_expire"))
    BY <1>0, <2>1, <2>2, <2>3, LockStepOf DEF At
  <2>4. CASE FetchPage(w) /\ ~(Unlock(proc[w].k) /\ Become(w, At("to_expire")))
    BY <1>0, <2>1, <2>2, <2>4, LockStepOf DEF FetchPage
  <2>5. CASE SaveCheckpoint(w) /\ ~(Unlock(proc[w].k) /\ Become(w, At("to_expire")))
    BY <1>0, <2>1, <2>2, <2>5, LockStepOf DEF SaveCheckpoint
  <2> QED
    BY <1>3, <2>3, <2>4, <2>5 DEF Activate
<1> QED
  BY <1>1, <1>2, <1>3 DEF Poll

LEMMA SubmitLocks ==
  ASSUME TypeOK, LockInv, SessionInv, NEW p \in Procs, ScanExpiry(p) \/ SubmitWithdrawal(p)
  PROVE  LockInv' /\ SessionInv'
<1>1. 1 \in Attempts
  BY InviteBoundsAssumption DEF Attempts
<1> QED
  BY <1>1, LockStepOf
  DEF ScanExpiry, SubmitWithdrawal, Resting, At, Delivering, Polling, Withdrawing

LEMMA WithdrawLocks ==
  ASSUME TypeOK, LockInv, SessionInv, NEW p \in Procs, Withdraw(p)
  PROVE  LockInv' /\ SessionInv'
<1> USE DEF Delivering, Polling, Withdrawing
<1>1. proc[p].k \in Attempts
  BY PhaseShape DEF TypeOK, WithdrawState, Withdraw, Prepare, ListInvites, DeleteInvite,
     SaveReceipt, CompleteWithdrawal
<1>2. CASE Prepare(p)
  <2>1. TakeLock(p, proc[p].k) => lock'[proc[p].k] = p
    BY <1>1 DEF TypeOK, TakeLock
  <2> QED
    BY <1>1, <1>2, <2>1, LockStepOf DEF Prepare, Resting, At
<1>3. CASE ~Prepare(p)
  <2>1. lock[proc[p].k] = p
    BY <1>1, <1>3 DEF LockInv, Holds, Withdraw, ListInvites, DeleteInvite,
       SaveReceipt, CompleteWithdrawal
  <2>2. CASE Unlock(proc[p].k) /\ Become(p, Resting)
    BY <1>1, <2>1, <2>2, LockStepOf DEF Resting, At
  <2>3. CASE ~(Unlock(proc[p].k) /\ Become(p, Resting))
    BY <1>1, <1>3, <2>1, <2>3, LockStepOf DEF Withdraw, ListInvites, DeleteInvite,
       SaveReceipt, CompleteWithdrawal
  <2> QED
    BY <2>2, <2>3
<1> QED
  BY <1>2, <1>3

LEMMA EnvironmentLocks ==
  ASSUME TypeOK, LockInv, SessionInv, Environment
  PROVE  LockInv' /\ SessionInv'
<1> USE DEF Delivering, Polling, Withdrawing
<1>1. CASE UNCHANGED <<lock, proc>>
  BY <1>1 DEF LockInv, SessionInv, Holds
<1>2. ASSUME NEW p \in Procs, Fail(p) PROVE LockInv' /\ SessionInv'
  <2>1. proc'[p] = Resting /\ \A q \in Procs \ {p} : proc'[q] = proc[q]
    BY <1>2, OthersRest DEF Fail
  <2>2. \A j \in Attempts : lock[j] # p => lock'[j] = lock[j]
    BY <1>2 DEF Fail
  <2> QED
    BY <2>1, <2>2 DEF LockInv, SessionInv, Holds, Resting, At
<1>3. ASSUME NEW w \in Workers, LoseLock(w) PROVE LockInv' /\ SessionInv'
  <2>0. w \in Procs /\ proc[w] \in ProcState
    BY DEF Procs, TypeOK
  <2>1. proc[w] \in DeliveryState \/ proc[w] \in AnswerState
    BY <1>3, <2>0, PhaseShape DEF LoseLock
  <2> DEFINE s == [proc[w] EXCEPT !.session = FALSE]
  <2>2. s.phase = proc[w].phase /\ s.k = proc[w].k /\ ~s.session /\ proc[w].k \in Attempts
    BY <2>1 DEF DeliveryState, AnswerState
  <2>3. lock[proc[w].k] = w
    BY <1>3, <2>0, <2>2 DEF LockInv, Holds, LoseLock
  <2> HIDE DEF s
  <2> QED
    BY <1>3, <2>0, <2>2, <2>3, LockStepOf DEF LoseLock, s
<1> QED
  BY <1>1, <1>2, <1>3 DEF Environment, NextAttempt, AnswerInvitation, ChangeRule

LEMMA LockStep == TypeOK /\ LockInv /\ SessionInv /\ [Next]_vars => LockInv' /\ SessionInv'
<1>1. ASSUME LockInv, SessionInv, UNCHANGED vars PROVE LockInv' /\ SessionInv'
  BY <1>1 DEF vars, LockInv, SessionInv, Holds
<1> QED
  BY <1>1, DeliverLocks, PollLocks, SubmitLocks, WithdrawLocks, EnvironmentLocks
  DEF Next, InvitePoll, Procs

LEMMA LockInitial == Init => LockInv /\ SessionInv
BY DEF Init, LockInv, SessionInv, Holds, Resting, At, Delivering, Polling, Withdrawing

-------------------------------------------------------------------------------
(* What the rows say of the provider                                       *)

\* Two deliveries of one attempt exclude each other, and so do two polls or
\* withdrawals of it.
LEMMA Exclusion ==
  ASSUME LocksProtect, LockInv, SessionInv, NEW p \in Procs, NEW q \in Procs,
         proc[p].k \in Attempts, proc[p].k = proc[q].k,
         \/ proc[p].phase \in Delivering /\ proc[q].phase \in Delivering
         \/ /\ proc[p].phase \in Polling \cup Withdrawing
            /\ proc[q].phase \in Polling \cup Withdrawing
  PROVE  p = q
<1> USE DEF Delivering, Polling, Withdrawing
<1>1. CASE proc[p].phase \in Delivering /\ proc[q].phase \in Delivering
  <2>1. CASE LossyLocks
    BY <1>1, <2>1 DEF LocksProtect, SessionInv
  <2>2. CASE ~LossyLocks
    BY <1>1, <2>2 DEF SessionInv, LockInv, Holds
  <2> QED
    BY <2>1, <2>2
<1>2. CASE /\ proc[p].phase \in Polling \cup Withdrawing
           /\ proc[q].phase \in Polling \cup Withdrawing
  BY <1>2 DEF LockInv, Holds
<1> QED
  BY <1>1, <1>2

\* A step that writes no row and calls nobody.
LEMMA QuietStep ==
  ASSUME TypeOK, DataInv, NEW p \in Procs, NEW s, Become(p, s), WorkOf(s),
         UNCHANGED <<state, status, evidence, intent, provider, stray, posts, deletes>>
  PROVE  DataInv'
<1>1. proc'[p] = s /\ \A q \in Procs \ {p} : proc'[q] = proc[q]
  BY OthersRest
<1>2. \A k \in Attempts : AttemptInv(k)'
  BY DEF DataInv, AttemptInv
<1>3. OneLive'
  BY DEF DataInv, OneLive, Live
<1>4. \A t : WorkOf(t) => WorkOf(t)'
  BY DEF WorkOf, Member
<1>5. \A q \in Procs : WorkOf(proc[q])'
  BY <1>1, <1>4 DEF DataInv
<1> QED
  BY <1>2, <1>3, <1>5 DEF DataInv

LEMMA AttemptOf ==
  ASSUME IInv, NEW p \in Procs,
         proc[p].phase \in Delivering \cup Polling \cup Withdrawing \cup {"found", "poll_found", "waiting"}
  PROVE  /\ proc[p].k \in Attempts /\ AttemptInv(proc[p].k)
         /\ proc[p].phase \in Delivering => proc[p].session \in BOOLEAN
         /\ proc[p].phase \in {"answered", "noted"} => proc[p].answer \in Answers
<1>1. proc[p] \in DeliveryState \cup AnswerState \cup PollState \cup PageState \cup WithdrawState
  BY PhaseShape DEF IInv, TypeOK, Delivering, Polling, Withdrawing
<1>2. proc[p].phase \in Delivering => proc[p] \in DeliveryState \cup AnswerState
  BY PhaseShape DEF IInv, TypeOK, Delivering
<1>3. proc[p].phase \in {"answered", "noted"} => proc[p] \in AnswerState
  BY PhaseShape DEF IInv, TypeOK
<1> QED
  BY <1>1, <1>2, <1>3
  DEF IInv, DataInv, DeliveryState, AnswerState, PollState, PageState, WithdrawState

\* The rows of the other attempts stay as they are.
OnlyRowsOf(k) ==
  \A j \in Attempts \ {k} :
    /\ status'[j] = status[j] /\ evidence'[j] = evidence[j] /\ intent'[j] = intent[j]
    /\ provider'[j] = provider[j] /\ stray'[j] = stray[j]
    /\ posts'[j] = posts[j] /\ deletes'[j] = deletes[j]

\* What a delivery does to its attempt is nothing the others count on.
LEMMA OthersOfDelivery ==
  ASSUME LocksProtect, IInv, NEW w \in Procs, proc[w].phase \in Delivering,
         \A q \in Procs \ {w} : proc'[q] = proc[q],
         OnlyRowsOf(proc[w].k), UNCHANGED <<intent, deletes>>,
         status[proc[w].k] = "sent" => status'[proc[w].k] = "sent",
         provider[proc[w].k] \in {"accepted", "deleted"} =>
           provider'[proc[w].k] = provider[proc[w].k],
         stray[proc[w].k] = "accepted" => stray'[proc[w].k] = "accepted"
  PROVE  \A q \in Procs \ {w} : WorkOf(proc[q])'
<1> DEFINE k == proc[w].k
<1>0. k \in Attempts
  BY AttemptOf
<1> SUFFICES ASSUME NEW q \in Procs \ {w} PROVE WorkOf(proc[q])'
  OBVIOUS
<1>1. proc'[q] = proc[q] /\ WorkOf(proc[q])
  BY DEF IInv, DataInv
<1>2. proc[q].phase \in Delivering => proc[q].k # k
  BY <1>0, Exclusion DEF IInv
<1>3. proc[q].phase \in Delivering \cup Polling \cup Withdrawing => proc[q].k \in Attempts
  BY AttemptOf
<1>4. Member => Member'
  BY <1>0 DEF Member, OnlyRowsOf
<1> QED
  BY <1>0, <1>1, <1>2, <1>3, <1>4 DEF WorkOf, OnlyRowsOf, Delivering, Polling, Withdrawing

\* What a poll or a withdrawal does to its attempt is nothing the others count on.
LEMMA OthersOfWithdrawal ==
  ASSUME LocksProtect, IInv, NEW w \in Procs, proc[w].phase \in Polling \cup Withdrawing,
         \A q \in Procs \ {w} : proc'[q] = proc[q],
         OnlyRowsOf(proc[w].k), UNCHANGED <<evidence, stray, posts>>,
         status[proc[w].k] = "pending" => status'[proc[w].k] = "pending",
         provider[proc[w].k] = "none" <=> provider'[proc[w].k] = "none",
         provider[proc[w].k] = "accepted" => provider'[proc[w].k] = "accepted"
  PROVE  \A q \in Procs \ {w} : WorkOf(proc[q])'
<1> DEFINE k == proc[w].k
<1>0. k \in Attempts
  BY AttemptOf
<1> SUFFICES ASSUME NEW q \in Procs \ {w} PROVE WorkOf(proc[q])'
  OBVIOUS
<1>1. proc'[q] = proc[q] /\ WorkOf(proc[q])
  BY DEF IInv, DataInv
<1>2. proc[q].phase \in Polling \cup Withdrawing => proc[q].k # k
  BY <1>0, Exclusion DEF IInv
<1>3. proc[q].phase \in Delivering \cup Polling \cup Withdrawing => proc[q].k \in Attempts
  BY AttemptOf
<1>4. Member => Member'
  BY <1>0 DEF Member, OnlyRowsOf
<1> QED
  BY <1>0, <1>1, <1>2, <1>3, <1>4 DEF WorkOf, OnlyRowsOf, Delivering, Polling, Withdrawing

LEMMA AnnounceData ==
  ASSUME LocksProtect, IInv, NEW w \in Workers, Announce(w)
  PROVE  DataInv'
<1> DEFINE k == proc[w].k
<1>0. w \in Procs /\ proc[w] \in DeliveryState /\ k \in Attempts
  BY PhaseShape DEF Procs, TypeOK, IInv, Announce, DeliveryState
<1>1. status[k] = "pending" /\ evidence[k] = "none" /\ posts[k] = 0 /\ provider[k] = "none"
  BY <1>0 DEF IInv, DataInv, WorkOf, AttemptInv, Announce
<1>2. /\ proc'[w].phase = "posting" /\ proc'[w].k = k
      /\ \A q \in Procs \ {w} : proc'[q] = proc[q]
  BY <1>0, OthersRest DEF Announce, IInv, DeliveryState
<1>3. /\ evidence'[k] = "requested" /\ OnlyRowsOf(k)
      /\ UNCHANGED <<state, status, intent, provider, stray, posts, deletes>>
  BY <1>0 DEF Announce, IInv, TypeOK, OnlyRowsOf
<1>4. \A j \in Attempts : AttemptInv(j)'
  BY <1>0, <1>1, <1>3 DEF AttemptInv, IInv, DataInv, OnlyRowsOf
<1>5. OneLive'
  BY <1>3 DEF OneLive, Live, IInv, DataInv
<1>6. WorkOf(proc[w])'
  BY <1>1, <1>2, <1>3 DEF WorkOf
<1>7. \A q \in Procs \ {w} : WorkOf(proc[q])'
  BY <1>0, <1>2, <1>3, OthersOfDelivery DEF Announce, Delivering
<1> QED
  BY <1>4, <1>5, <1>6, <1>7 DEF DataInv

LEMMA PostData ==
  ASSUME LocksProtect, IInv, NEW w \in Workers, Post(w)
  PROVE  DataInv'
<1> DEFINE k == proc[w].k
<1>0. w \in Procs /\ proc[w] \in DeliveryState /\ k \in Attempts
  BY PhaseShape DEF Procs, TypeOK, IInv, Post, DeliveryState
<1>1. /\ status[k] = "pending" /\ evidence[k] = "requested" /\ posts[k] = 0
      /\ provider[k] = "none" /\ stray[k] = "none"
  BY <1>0 DEF IInv, DataInv, WorkOf, AttemptInv, Post
<1>2. PICK answer \in Answers, effect \in BOOLEAN :
        /\ answer \in {"created", "garbled", "erred"} => effect
        /\ answer \in {"no_seat", "refused"} => ~effect
        /\ provider' = IF effect /\ answer # "erred"
                         THEN [provider EXCEPT ![k] = "pending"] ELSE provider
        /\ stray' = IF answer = "erred" THEN [stray EXCEPT ![k] = "pending"] ELSE stray
        /\ Become(w, [phase |-> "answered", k |-> k, session |-> proc[w].session,
                      answer |-> answer])
  BY DEF Post
<1>3. /\ proc'[w] = [phase |-> "answered", k |-> k, session |-> proc[w].session,
                     answer |-> answer]
      /\ \A q \in Procs \ {w} : proc'[q] = proc[q]
  BY <1>0, <1>2, OthersRest DEF IInv
<1>4. /\ posts'[k] = 1
      /\ provider'[k] = IF effect /\ answer # "erred" THEN "pending" ELSE "none"
      /\ OnlyRowsOf(k) /\ UNCHANGED <<state, status, evidence, intent, deletes>>
  BY <1>0, <1>1, <1>2 DEF Post, IInv, TypeOK, OnlyRowsOf, rows
<1>5. \A j \in Attempts : AttemptInv(j)'
  BY <1>0, <1>1, <1>4 DEF AttemptInv, IInv, DataInv, OnlyRowsOf
<1>6. OneLive'
  BY <1>4 DEF OneLive, Live, IInv, DataInv
<1>7. WorkOf(proc[w])'
  BY <1>1, <1>2, <1>3, <1>4 DEF WorkOf
<1>8. \A q \in Procs \ {w} : WorkOf(proc[q])'
  BY <1>0, <1>1, <1>3, <1>4, OthersOfDelivery DEF Post, Delivering
<1> QED
  BY <1>5, <1>6, <1>7, <1>8 DEF DataInv

LEMMA NoteAnswerData ==
  ASSUME LocksProtect, IInv, NEW w \in Workers, NoteAnswer(w)
  PROVE  DataInv'
<1> DEFINE k == proc[w].k
<1>0. w \in Procs /\ proc[w] \in AnswerState /\ k \in Attempts
  BY PhaseShape DEF Procs, TypeOK, IInv, NoteAnswer, AnswerState
<1>1. /\ evidence[k] = "requested"
      /\ proc[w].answer \in {"created", "garbled"} => provider[k] # "none"
      /\ proc[w].answer \in {"no_seat", "refused", "erred"} => provider[k] = "none"
  BY <1>0 DEF IInv, DataInv, WorkOf, NoteAnswer
<1>2. proc'[w].phase = "noted" /\ \A q \in Procs \ {w} : proc'[q] = proc[q]
  BY <1>0, OthersRest DEF NoteAnswer, IInv, AnswerState
<1>3. /\ \/ proc[w].answer \in {"created", "garbled"} /\ evidence'[k] = "succeeded"
         \/ /\ proc[w].answer \in {"no_seat", "refused", "erred"}
            /\ evidence'[k] \in {"no_seat", "failed"}
         \/ evidence'[k] = "requested"
      /\ OnlyRowsOf(k) /\ UNCHANGED <<state, status, intent, provider, stray, posts, deletes>>
  BY <1>0, <1>1 DEF NoteAnswer, IInv, TypeOK, OnlyRowsOf, AnswerState, Answers
<1>4. \A j \in Attempts : AttemptInv(j)'
  BY <1>0, <1>1, <1>3 DEF AttemptInv, IInv, DataInv, OnlyRowsOf
<1>5. OneLive'
  BY <1>3 DEF OneLive, Live, IInv, DataInv
<1>6. WorkOf(proc[w])'
  BY <1>2 DEF WorkOf
<1>7. \A q \in Procs \ {w} : WorkOf(proc[q])'
  BY <1>0, <1>2, <1>3, OthersOfDelivery DEF NoteAnswer, Delivering
<1> QED
  BY <1>4, <1>5, <1>6, <1>7 DEF DataInv

LEMMA FinalizeData ==
  ASSUME LocksProtect, IInv, NEW w \in Workers, Finalize(w)
  PROVE  DataInv'
<1> DEFINE k == proc[w].k
<1>0. w \in Procs /\ proc[w] \in AnswerState /\ k \in Attempts
  BY PhaseShape DEF Procs, TypeOK, IInv, Finalize, AnswerState
<1>1. /\ proc'[w].phase \in {"resting", "to_poll"}
      /\ \A q \in Procs \ {w} : proc'[q] = proc[q]
  BY <1>0, OthersRest DEF Finalize, IInv, Resting, At
<1>2. WorkOf(proc[w])'
  BY <1>1 DEF WorkOf
<1>3. UNCHANGED <<evidence, intent, provider, stray, posts, deletes>>
  BY DEF Finalize
<1>4. CASE UNCHANGED <<state, status>>
  <2>1. OnlyRowsOf(k)
    BY <1>3, <1>4 DEF OnlyRowsOf
  <2>2. \A j \in Attempts : AttemptInv(j)'
    BY <1>3, <1>4 DEF AttemptInv, IInv, DataInv
  <2>3. OneLive'
    BY <1>4 DEF OneLive, Live, IInv, DataInv
  <2>4. \A q \in Procs \ {w} : WorkOf(proc[q])'
    BY <1>0, <1>1, <1>3, <1>4, <2>1, OthersOfDelivery DEF Finalize, Delivering
  <2> QED
    BY <1>2, <2>2, <2>3, <2>4 DEF DataInv
<1>5. CASE Justified(k, proc[w].answer)
           /\ state' = Outcome(proc[w].answer).state
           /\ status' = [status EXCEPT ![k] = Outcome(proc[w].answer).status]
  <2>1. /\ status[k] = "pending" /\ state = "provisioning"
        /\ \/ evidence[k] = "succeeded" /\ state' = "invited" /\ status'[k] = "sent"
           \/ /\ evidence[k] \in {"no_seat", "failed"} /\ status'[k] = "failed"
              /\ state' \in {"blocked_no_seat", "failed"}
        /\ OnlyRowsOf(k)
    BY <1>0, <1>3, <1>5 DEF Justified, Outcome, IInv, TypeOK, OnlyRowsOf, AnswerState, Answers
  <2>2. \A j \in Attempts \ {k} : ~Live(j)
    BY <1>0, <2>1 DEF IInv, DataInv, OneLive, Live
  <2>3. OneLive'
    BY <2>1, <2>2 DEF OneLive, Live, OnlyRowsOf
  <2>4. \A j \in Attempts : AttemptInv(j)'
    BY <1>0, <1>3, <2>1, <2>2 DEF AttemptInv, IInv, DataInv, OnlyRowsOf, Live
  <2>5. \A q \in Procs \ {w} : WorkOf(proc[q])'
    BY <1>0, <1>1, <1>3, <2>1, OthersOfDelivery DEF Finalize, Delivering
  <2> QED
    BY <1>2, <2>3, <2>4, <2>5 DEF DataInv
<1> QED
  BY <1>4, <1>5 DEF Finalize

\* The steps of a worker that only read, take a lock or give it up.
LEMMA QuietData ==
  ASSUME IInv, NEW p \in Procs,
         \/ ScanDelivery(p) \/ LockDelivery(p) \/ ScanPoll(p) \/ LockPoll(p) \/ FetchPage(p)
         \/ SaveCheckpoint(p) \/ ScanExpiry(p) \/ SubmitWithdrawal(p) \/ ListInvites(p)
         \/ Fail(p)
  PROVE  DataInv'
<1> USE DEF IInv
<1>1. UNCHANGED <<state, status, evidence, intent, provider, stray, posts, deletes>>
  BY DEF ScanDelivery, LockDelivery, ScanPoll, LockPoll, FetchPage, SaveCheckpoint, ScanExpiry,
     SubmitWithdrawal, ListInvites, Fail, rows
<1>2. \A phase \in {"resting", "to_poll", "to_expire"} : WorkOf(At(phase))
  BY DEF WorkOf, At
<1>3. \A k \in Attempts :
        /\ WorkOf([phase |-> "found", k |-> k, session |-> TRUE])
        /\ \A page : WorkOf([phase |-> "poll_found", k |-> k, page |-> page])
        /\ \A page : WorkOf([phase |-> "polling", k |-> k, page |-> page])
        /\ WorkOf([phase |-> "waiting", k |-> k])
  BY DEF WorkOf
<1>4. CASE ScanDelivery(p)
  BY <1>1, <1>2, <1>3, <1>4, QuietStep DEF ScanDelivery
<1>5. CASE LockDelivery(p)
  <2>1. proc[p] \in DeliveryState
    BY <1>5, PhaseShape DEF LockDelivery, TypeOK
  <2> DEFINE s == [proc[p] EXCEPT !.phase = "locked"]
  <2>2. s.phase = "locked" /\ s.k = proc[p].k
    BY <2>1 DEF DeliveryState
  <2>3. Deliverable(proc[p].k) => WorkOf(s)
    BY <2>2 DEF WorkOf, Deliverable
  <2> HIDE DEF s
  <2> QED
    BY <1>1, <1>2, <1>5, <2>3, QuietStep DEF LockDelivery, s
<1>6. CASE ScanPoll(p)
  BY <1>1, <1>2, <1>3, <1>6, QuietStep DEF ScanPoll
<1>7. CASE LockPoll(p)
  <2>1. proc[p] \in PollState
    BY <1>7, PhaseShape DEF LockPoll, TypeOK
  <2> DEFINE s == [proc[p] EXCEPT !.phase = "polling"]
  <2>2. s.phase = "polling"
    BY <2>1 DEF PollState
  <2>3. WorkOf(s)
    BY <2>2 DEF WorkOf
  <2> HIDE DEF s
  <2> QED
    BY <1>1, <1>2, <1>7, <2>3, QuietStep DEF LockPoll, s
<1>8. CASE FetchPage(p)
  <2>1. \A k, page :
          WorkOf([phase |-> "page_read", k |-> k, page |-> page,
                  accepted |-> Member /\ page = HomePage])
    BY DEF WorkOf
  <2> QED
    BY <1>1, <1>2, <1>8, <2>1, QuietStep DEF FetchPage
<1>9. CASE SaveCheckpoint(p)
  <2>1. proc[p].k \in Attempts
    BY <1>9, AttemptOf DEF SaveCheckpoint, Polling
  <2> QED
    BY <1>1, <1>2, <1>3, <1>9, <2>1, QuietStep DEF SaveCheckpoint
<1>10. CASE ScanExpiry(p) \/ SubmitWithdrawal(p)
  BY <1>1, <1>2, <1>3, <1>10, QuietStep DEF ScanExpiry, SubmitWithdrawal, Resting
<1>11. CASE ListInvites(p)
  <2>1. WorkOf([phase |-> "deleting", k |-> proc[p].k])
    BY <1>11 DEF WorkOf, ListInvites, DataInv
  <2> QED
    BY <1>1, <1>2, <1>11, <2>1, QuietStep DEF ListInvites, Resting
<1>12. CASE Fail(p)
  BY <1>1, <1>2, <1>12, QuietStep DEF Fail, Resting
<1> QED
  BY <1>4, <1>5, <1>6, <1>7, <1>8, <1>9, <1>10, <1>11, <1>12

LEMMA ActivateData ==
  ASSUME LocksProtect, IInv, NEW w \in Workers, Activate(w)
  PROVE  DataInv'
<1> DEFINE k == proc[w].k
<1>0. w \in Procs /\ k \in Attempts
  BY AttemptOf DEF Procs, Activate, Polling
<1>1. proc'[w].phase = "to_expire" /\ \A q \in Procs \ {w} : proc'[q] = proc[q]
  BY <1>0, OthersRest DEF Activate, IInv, At
<1>2. WorkOf(proc[w])'
  BY <1>1 DEF WorkOf
<1>3. UNCHANGED <<evidence, intent, provider, stray, posts, deletes>>
  BY DEF Activate
<1>4. CASE UNCHANGED <<state, status>>
  <2>1. OnlyRowsOf(k)
    BY <1>3, <1>4 DEF OnlyRowsOf
  <2>2. \A j \in Attempts : AttemptInv(j)'
    BY <1>3, <1>4 DEF AttemptInv, IInv, DataInv
  <2>3. OneLive'
    BY <1>4 DEF OneLive, Live, IInv, DataInv
  <2>4. \A q \in Procs \ {w} : WorkOf(proc[q])'
    BY <1>0, <1>1, <1>3, <1>4, <2>1, OthersOfWithdrawal DEF Activate, Polling
  <2> QED
    BY <1>2, <2>2, <2>3, <2>4 DEF DataInv
<1>5. CASE state = "invited" /\ status[k] = "sent"
           /\ state' = "active" /\ status' = [status EXCEPT ![k] = "confirmed"]
  <2>1. status'[k] = "confirmed" /\ OnlyRowsOf(k)
    BY <1>0, <1>3, <1>5 DEF IInv, TypeOK, OnlyRowsOf
  <2>2. \A j \in Attempts \ {k} : ~Live(j)
    BY <1>0, <1>5 DEF IInv, DataInv, OneLive, Live
  <2>3. OneLive'
    BY <2>1, <2>2 DEF OneLive, Live, OnlyRowsOf
  <2>4. \A j \in Attempts : AttemptInv(j)'
    BY <1>0, <1>3, <1>5, <2>1, <2>2 DEF AttemptInv, IInv, DataInv, OnlyRowsOf, Live
  <2>5. \A q \in Procs \ {w} : WorkOf(proc[q])'
    BY <1>0, <1>1, <1>3, <1>5, <2>1, OthersOfWithdrawal DEF Activate, Polling
  <2> QED
    BY <1>2, <2>3, <2>4, <2>5 DEF DataInv
<1> QED
  BY <1>4, <1>5 DEF Activate

LEMMA PrepareData ==
  ASSUME LocksProtect, IInv, NEW p \in Procs, Prepare(p)
  PROVE  DataInv'
<1> DEFINE k == proc[p].k
<1>0. k \in Attempts
  BY AttemptOf DEF Prepare
<1>1. UNCHANGED <<state, status, evidence, provider, stray, posts, deletes>>
  BY DEF Prepare
<1>2. CASE /\ intent[k].status = "none" /\ Withdrawable(k)
           /\ intent' = [intent EXCEPT ![k] = [status |-> "pending", by |-> Command(p)]]
           /\ TakeLock(p, k) /\ Become(p, [phase |-> "listing", k |-> k])
  <2>1. /\ proc'[p] = [phase |-> "listing", k |-> k]
        /\ \A q \in Procs \ {p} : proc'[q] = proc[q]
    BY <1>2, OthersRest DEF IInv
  <2>2. status[k] = "sent" /\ intent'[k].status = "pending" /\ deletes[k] = 0 /\ OnlyRowsOf(k)
    BY <1>0, <1>1, <1>2 DEF IInv, DataInv, AttemptInv, TypeOK, Withdrawable, OnlyRowsOf
  <2>3. \A j \in Attempts : AttemptInv(j)'
    BY <1>0, <1>1, <2>2 DEF AttemptInv, IInv, DataInv, OnlyRowsOf
  <2>4. OneLive'
    BY <1>1 DEF OneLive, Live, IInv, DataInv
  <2>5. WorkOf(proc[p])'
    BY <1>1, <2>1, <2>2 DEF WorkOf
  <2>6. ASSUME NEW q \in Procs \ {p} PROVE WorkOf(proc[q])'
    <3>1. proc'[q] = proc[q] /\ WorkOf(proc[q])
      BY <2>1 DEF IInv, DataInv
    <3>2. proc[q].phase \in Polling \cup Withdrawing => proc[q].k # k
      BY <1>0, <1>2, ProcsAssumption DEF IInv, LockInv, Holds, TakeLock, Procs, Delivering,
         Polling, Withdrawing
    <3>3. proc[q].phase \in Withdrawing => proc[q].k \in Attempts
      BY AttemptOf
    <3> QED
      BY <1>1, <2>2, <3>1, <3>2, <3>3 DEF WorkOf, OnlyRowsOf, Withdrawing, Member
  <2> QED
    BY <2>3, <2>4, <2>5, <2>6 DEF DataInv
<1>3. CASE UNCHANGED intent /\ Become(p, [phase |-> "completing", k |-> k])
  <2>1. WorkOf([phase |-> "completing", k |-> k])
    BY DEF WorkOf
  <2> QED
    BY <1>1, <1>3, <2>1, QuietStep DEF IInv
<1>4. CASE UNCHANGED intent /\ Become(p, Resting)
  <2>1. WorkOf(Resting)
    BY DEF WorkOf, Resting, At
  <2> QED
    BY <1>1, <1>4, <2>1, QuietStep DEF IInv
<1> QED
  BY <1>2, <1>3, <1>4 DEF Prepare

LEMMA DeleteInviteData ==
  ASSUME LocksProtect, IInv, NEW p \in Procs, DeleteInvite(p)
  PROVE  DataInv'
<1> DEFINE k == proc[p].k
<1>0. k \in Attempts
  BY AttemptOf DEF DeleteInvite, Withdrawing
<1>1. status[k] = "sent" /\ intent[k].status = "pending" /\ deletes[k] = 0
  BY DEF IInv, DataInv, WorkOf, DeleteInvite
<1>2. UNCHANGED <<state, status, evidence, intent, stray, posts>>
  BY DEF DeleteInvite, rows
<1>3. /\ deletes'[k] = 1 /\ OnlyRowsOf(k)
      /\ provider'[k] = IF provider[k] = "pending" THEN "deleted" ELSE provider[k]
  BY <1>0, <1>1, <1>2 DEF DeleteInvite, IInv, TypeOK, OnlyRowsOf
<1>4. /\ \/ proc'[p] = [phase |-> "deleted", k |-> k] /\ provider[k] = "pending"
         \/ proc'[p] = Resting
      /\ \A q \in Procs \ {p} : proc'[q] = proc[q]
  BY OthersRest DEF DeleteInvite, IInv
<1>5. \A j \in Attempts : AttemptInv(j)'
  BY <1>0, <1>1, <1>2, <1>3 DEF AttemptInv, IInv, DataInv, OnlyRowsOf
<1>6. OneLive'
  BY <1>2 DEF OneLive, Live, IInv, DataInv
<1>7. WorkOf(proc[p])'
  BY <1>1, <1>2, <1>3, <1>4 DEF WorkOf, Resting, At
<1>8. \A q \in Procs \ {p} : WorkOf(proc[q])'
  BY <1>2, <1>3, <1>4, OthersOfWithdrawal DEF DeleteInvite, Withdrawing
<1> QED
  BY <1>5, <1>6, <1>7, <1>8 DEF DataInv

LEMMA SaveReceiptData ==
  ASSUME LocksProtect, IInv, NEW p \in Procs, SaveReceipt(p)
  PROVE  DataInv'
<1> DEFINE k == proc[p].k
<1>0. k \in Attempts
  BY AttemptOf DEF SaveReceipt, Withdrawing
<1>1. intent[k].status = "pending" /\ provider[k] = "deleted"
  BY DEF IInv, DataInv, WorkOf, SaveReceipt
<1>2. UNCHANGED <<state, status, evidence, provider, stray, posts, deletes>>
  BY DEF SaveReceipt
<1>3. intent'[k].status = "receipt" /\ OnlyRowsOf(k)
  BY <1>0, <1>2 DEF SaveReceipt, IInv, TypeOK, OnlyRowsOf
<1>4. /\ proc'[p] = [phase |-> "completing", k |-> k]
      /\ \A q \in Procs \ {p} : proc'[q] = proc[q]
  BY OthersRest DEF SaveReceipt, IInv
<1>5. \A j \in Attempts : AttemptInv(j)'
  BY <1>0, <1>1, <1>2, <1>3 DEF AttemptInv, IInv, DataInv, OnlyRowsOf
<1>6. OneLive'
  BY <1>2 DEF OneLive, Live, IInv, DataInv
<1>7. WorkOf(proc[p])'
  BY <1>4 DEF WorkOf
<1>8. \A q \in Procs \ {p} : WorkOf(proc[q])'
  BY <1>2, <1>3, <1>4, OthersOfWithdrawal DEF SaveReceipt, Withdrawing
<1> QED
  BY <1>5, <1>6, <1>7, <1>8 DEF DataInv

LEMMA CompleteWithdrawalData ==
  ASSUME LocksProtect, IInv, NEW p \in Procs, CompleteWithdrawal(p)
  PROVE  DataInv'
<1> DEFINE k == proc[p].k
<1>0. k \in Attempts
  BY AttemptOf DEF CompleteWithdrawal, Withdrawing
<1>1. UNCHANGED <<evidence, provider, stray, posts, deletes>>
  BY DEF CompleteWithdrawal
<1>2. proc'[p] = Resting /\ \A q \in Procs \ {p} : proc'[q] = proc[q]
  BY OthersRest DEF CompleteWithdrawal, IInv
<1>3. WorkOf(proc[p])'
  BY <1>2 DEF WorkOf, Resting, At
<1>4. CASE UNCHANGED <<state, status, intent>>
  BY <1>1, <1>4, QuietStep DEF CompleteWithdrawal, IInv, WorkOf, Resting, At
<1>5. CASE /\ Withdrawable(k) /\ intent[k].status = "receipt"
           /\ state' = "deprovisioned" /\ status' = [status EXCEPT ![k] = "withdrawn"]
           /\ intent' = [intent EXCEPT ![k].status = "withdrawn"]
  <2>1. /\ status[k] = "sent" /\ provider[k] = "deleted"
        /\ status'[k] = "withdrawn" /\ intent'[k].status = "withdrawn" /\ OnlyRowsOf(k)
    BY <1>0, <1>1, <1>5 DEF IInv, DataInv, AttemptInv, TypeOK, Withdrawable, OnlyRowsOf
  <2>2. \A j \in Attempts \ {k} : ~Live(j)
    BY <1>0, <2>1 DEF IInv, DataInv, OneLive, Live
  <2>3. OneLive'
    BY <2>1, <2>2 DEF OneLive, Live, OnlyRowsOf
  <2>4. \A j \in Attempts : AttemptInv(j)'
    BY <1>0, <1>1, <1>5, <2>1, <2>2 DEF AttemptInv, IInv, DataInv, OnlyRowsOf, Live
  <2>5. \A q \in Procs \ {p} : WorkOf(proc[q])'
    BY <1>1, <1>2, <2>1, OthersOfWithdrawal DEF CompleteWithdrawal, Withdrawing
  <2> QED
    BY <1>3, <2>3, <2>4, <2>5 DEF DataInv
<1> QED
  BY <1>4, <1>5 DEF CompleteWithdrawal

LEMMA NextAttemptData ==
  ASSUME IInv, NEW k \in Attempts, NextAttempt(k)
  PROVE  DataInv'
<1>1. state \in {"failed", "blocked_no_seat"} /\ status[k] = "none"
  BY DEF NextAttempt, Retryable
<1>2. \A j \in Attempts : ~Live(j)
  BY <1>1 DEF IInv, DataInv, AttemptInv, Live
<1>3. /\ state' = "provisioning" /\ status'[k] = "pending"
      /\ \A j \in Attempts \ {k} : status'[j] = status[j]
      /\ UNCHANGED <<evidence, intent, provider, stray, posts, deletes, proc>>
  BY DEF NextAttempt, IInv, TypeOK
<1>4. \A j \in Attempts : AttemptInv(j)'
  BY <1>1, <1>2, <1>3 DEF AttemptInv, IInv, DataInv, Live
<1>5. OneLive'
  BY <1>2, <1>3 DEF OneLive, Live
<1>6. ASSUME NEW q \in Procs PROVE WorkOf(proc[q])'
  <2>1. proc[q].phase \in Delivering \cup Polling \cup Withdrawing => proc[q].k \in Attempts
    BY AttemptOf
  <2>2. WorkOf(proc[q])
    BY DEF IInv, DataInv
  <2> QED
    BY <1>1, <1>2, <1>3, <2>1, <2>2 DEF WorkOf, Live, Member, Delivering, Polling, Withdrawing
<1> QED
  BY <1>4, <1>5, <1>6 DEF DataInv

LEMMA AnswerInvitationData ==
  ASSUME IInv, NEW k \in Attempts, AnswerInvitation(k)
  PROVE  DataInv'
<1>1. /\ \/ /\ provider[k] = "pending" /\ provider'[k] \in {"accepted", "expired"}
            /\ UNCHANGED stray
         \/ /\ stray[k] = "pending" /\ stray'[k] \in {"accepted", "expired"}
            /\ UNCHANGED provider
      /\ \A j \in Attempts \ {k} : provider'[j] = provider[j] /\ stray'[j] = stray[j]
      /\ UNCHANGED <<state, status, evidence, intent, posts, deletes, proc>>
  BY DEF AnswerInvitation, IInv, TypeOK, rows
<1>2. \A j \in Attempts : AttemptInv(j)'
  BY <1>1 DEF AttemptInv, IInv, DataInv
<1>3. OneLive'
  BY <1>1 DEF OneLive, Live, IInv, DataInv
<1>4. Member => Member'
  BY <1>1 DEF Member
<1>5. ASSUME NEW q \in Procs PROVE WorkOf(proc[q])'
  <2>1. proc[q].phase \in Delivering \cup Polling \cup Withdrawing => proc[q].k \in Attempts
    BY AttemptOf
  <2>2. WorkOf(proc[q])
    BY DEF IInv, DataInv
  <2> QED
    BY <1>1, <1>4, <2>1, <2>2 DEF WorkOf, Delivering, Polling, Withdrawing
<1> QED
  BY <1>2, <1>3, <1>5 DEF DataInv

LEMMA LoseLockData ==
  ASSUME LocksProtect, IInv, NEW w \in Workers, LoseLock(w)
  PROVE  DataInv'
<1>0. w \in Procs /\ (proc[w] \in DeliveryState \/ proc[w] \in AnswerState)
  BY PhaseShape DEF LoseLock, IInv, TypeOK, Procs
<1> DEFINE s == [proc[w] EXCEPT !.session = FALSE]
<1>1. /\ s.phase = proc[w].phase /\ s.k = proc[w].k
      /\ proc[w].phase = "answered" => s.answer = proc[w].answer
  BY <1>0 DEF DeliveryState, AnswerState
<1>2. proc[w].phase \in {"locked", "posting", "answered", "noted"} /\ WorkOf(proc[w])
  BY <1>0 DEF LoseLock, IInv, DataInv
<1>3. WorkOf(s)
  BY <1>1, <1>2 DEF WorkOf
<1> HIDE DEF s
<1> QED
  BY <1>0, <1>3, QuietStep DEF LoseLock, IInv, s, rows

LEMMA IInvInitial == Init => IInv
<1> SUFFICES ASSUME Init PROVE IInv
  OBVIOUS
<1>1. \A k \in Attempts : AttemptInv(k)
  BY DEF Init, AttemptInv, NoIntent
<1>2. OneLive
  BY DEF Init, OneLive, Live
<1>3. \A p \in Procs : WorkOf(proc[p])
  BY DEF Init, WorkOf, Resting, At
<1> QED
  BY <1>1, <1>2, <1>3, InitTyped, LockInitial DEF IInv, DataInv

LEMMA IInvStep ==
  ASSUME LocksProtect, IInv, [Next]_vars
  PROVE  IInv'
<1>1. TypeOK'
  BY StepTyped DEF IInv
<1>2. LockInv' /\ SessionInv'
  BY LockStep DEF IInv
<1>3. DataInv'
  <2>1. ASSUME NEW w \in Workers, InvitePoll(w) PROVE DataInv'
    BY <2>1, QuietData, AnnounceData, PostData, NoteAnswerData, FinalizeData, ActivateData,
       PrepareData, DeleteInviteData, SaveReceiptData, CompleteWithdrawalData
    DEF InvitePoll, Deliver, Poll, Withdraw, Procs
  <2>2. ASSUME NEW a \in Admins, SubmitWithdrawal(a) \/ Withdraw(a) PROVE DataInv'
    BY <2>2, QuietData, PrepareData, DeleteInviteData, SaveReceiptData, CompleteWithdrawalData
    DEF Withdraw, Procs
  <2>3. CASE UNCHANGED <<rows, provider, stray, posts, deletes, proc>>
    <3>1. \A k \in Attempts : AttemptInv(k)'
      BY <2>3 DEF IInv, DataInv, AttemptInv, rows
    <3>2. OneLive'
      BY <2>3 DEF IInv, DataInv, OneLive, Live, rows
    <3>3. \A p \in Procs : WorkOf(proc[p])'
      BY <2>3 DEF IInv, DataInv, WorkOf, Member, rows
    <3> QED
      BY <3>1, <3>2, <3>3 DEF DataInv
  <2>4. CASE Environment
    BY <2>3, <2>4, NextAttemptData, AnswerInvitationData, QuietData, LoseLockData
    DEF Environment, ChangeRule
  <2> QED
    BY <2>1, <2>2, <2>3, <2>4 DEF Next, vars, rows
<1> QED
  BY <1>1, <1>2, <1>3 DEF IInv

\* Neither provider call is ever repeated for an attempt, for every number of
\* workers and administrators, whoever fails wherever, as long as connections
\* keep their advisory locks (or a single worker runs).
THEOREM CallsAreMadeOnce ==
  ASSUME LocksProtect
  PROVE  Spec => []CallsOnce
<1>1. IInv => CallsOnce
  BY DEF IInv, DataInv, AttemptInv, CallsOnce
<1>2. IInv /\ [Next]_vars => IInv'
  BY IInvStep
<1> QED
  BY <1>1, <1>2, IInvInitial, PTL DEF Spec

-------------------------------------------------------------------------------
(* The protocol implements InvitationContract                              *)

\* Standing as a function of what the provider holds.
StandingOf(held) ==
  LET made == {k \in Attempts : held[k] # "none"} IN
  IF made = {} THEN "none"
  ELSE IF Cardinality(made) = 1 THEN held[CHOOSE k \in made : TRUE]
  ELSE "several"

LEMMA StandingNone ==
  ASSUME NEW held, \A k \in Attempts : held[k] = "none"
  PROVE  StandingOf(held) = "none"
BY DEF StandingOf

LEMMA StandingAlone ==
  ASSUME NEW held, NEW k \in Attempts, held[k] # "none",
         \A j \in Attempts \ {k} : held[j] = "none"
  PROVE  StandingOf(held) = held[k]
<1>1. {j \in Attempts : held[j] # "none"} = {k}
  OBVIOUS
<1>2. Cardinality({k}) = 1
  BY FS_Singleton
<1>3. (CHOOSE j \in {k} : TRUE) = k
  OBVIOUS
<1> QED
  BY <1>1, <1>2, <1>3 DEF StandingOf

\* At most one invitation was ever made, for the attempt that is live.
LEMMA TheOnlyInvitation ==
  ASSUME IInv, NEW k \in Attempts, provider[k] # "none"
  PROVE  /\ Live(k) /\ \A j \in Attempts \ {k} : provider[j] = "none"
         /\ Standing = provider[k]
<1>1. \A j \in Attempts : provider[j] # "none" => Live(j)
  BY DEF IInv, DataInv, AttemptInv, TypeOK, Live
<1>2. Live(k) /\ \A j \in Attempts \ {k} : provider[j] = "none"
  BY <1>1 DEF IInv, DataInv, OneLive
<1> QED
  BY <1>2, StandingAlone DEF Standing, StandingOf

\* As long as no attempt is live, no invitation stands.
LEMMA NoInvitation ==
  ASSUME IInv, \A j \in Attempts : ~Live(j)
  PROVE  Standing = "none" /\ \A j \in Attempts : provider[j] = "none"
<1>1. \A j \in Attempts : provider[j] = "none"
  BY DEF IInv, DataInv, AttemptInv, TypeOK, Live
<1> QED
  BY <1>1, StandingNone DEF Standing, StandingOf

LEMMA SameStanding ==
  ASSUME UNCHANGED provider
  PROVE  Standing' = Standing
BY DEF Standing

LEMMA SameStrays ==
  ASSUME UNCHANGED stray
  PROVE  Strays' = Strays
BY DEF Strays

\* A provider call on the live attempt changes what stands as it changes the attempt.
LEMMA ChangedStanding ==
  ASSUME IInv, NEW k \in Attempts, Live(k), provider'[k] # "none",
         \A j \in Attempts \ {k} : provider'[j] = provider[j]
  PROVE  Standing = provider[k] /\ Standing' = provider'[k]
<1>1. \A j \in Attempts \ {k} : provider[j] = "none"
  BY DEF IInv, DataInv, OneLive, AttemptInv, TypeOK, Live
<1>2. Standing' = provider'[k]
  BY <1>1, StandingAlone DEF Standing, StandingOf
<1>3. Standing = provider[k]
  <2>1. CASE provider[k] # "none"
    BY <2>1, <1>1, StandingAlone DEF Standing, StandingOf
  <2>2. CASE provider[k] = "none"
    BY <2>2, <1>1, StandingNone DEF Standing, StandingOf
  <2> QED
    BY <2>1, <2>2
<1> QED
  BY <1>2, <1>3

LEMMA ContractInitial == Init => Contract!Init
<1> SUFFICES ASSUME Init PROVE Contract!Init
  OBVIOUS
<1>1. \A k \in Attempts : provider[k] = "none"
  BY DEF Init
<1> QED
  BY <1>1, StandingNone DEF Contract!Init, Init, Standing, StandingOf, Strays

LEMMA DeliverKeepsContract ==
  ASSUME LocksProtect, IInv, NEW w \in Workers, Deliver(w)
  PROVE  [Contract!Next]_(Contract!vars)
<1> USE DEF Contract!Next, Contract!vars
<1>0. w \in Procs
  BY DEF Procs
<1>1. CASE ScanDelivery(w) \/ LockDelivery(w) \/ Announce(w) \/ NoteAnswer(w)
  BY <1>1, SameStanding, SameStrays DEF ScanDelivery, LockDelivery, Announce, NoteAnswer, rows
<1>2. CASE Post(w)
  <2> DEFINE k == proc[w].k
  <2>1. k \in Attempts
    BY <1>0, <1>2, AttemptOf DEF Post, Delivering
  <2>2. /\ status[k] = "pending" /\ provider[k] = "none" /\ state = "provisioning"
        /\ stray[k] = "none"
    BY <1>0, <1>2, <2>1 DEF IInv, DataInv, WorkOf, AttemptInv, Post
  <2>3. /\ UNCHANGED state
        /\ \/ UNCHANGED <<provider, stray>>
           \/ provider' = [provider EXCEPT ![k] = "pending"] /\ UNCHANGED stray
           \/ stray' = [stray EXCEPT ![k] = "pending"] /\ UNCHANGED provider
    BY <1>2 DEF Post, rows
  <2>4. CASE UNCHANGED <<provider, stray>>
    BY <2>3, <2>4, SameStanding, SameStrays
  <2>5. CASE provider' = [provider EXCEPT ![k] = "pending"] /\ UNCHANGED stray
    <3>1. /\ provider'[k] = "pending"
          /\ \A j \in Attempts \ {k} : provider'[j] = provider[j]
      BY <2>1, <2>5 DEF IInv, TypeOK
    <3>2. Standing = "none" /\ Standing' = "pending"
      BY <2>1, <2>2, <3>1, ChangedStanding DEF Live
    <3> QED
      BY <2>2, <2>3, <2>5, <3>2, SameStrays DEF Contract!Create
  <2>6. CASE stray' = [stray EXCEPT ![k] = "pending"] /\ UNCHANGED provider
    <3>1. stray'[k] = "pending" /\ \A j \in Attempts \ {k} : stray'[j] = stray[j]
      BY <2>1, <2>6 DEF IInv, TypeOK
    <3>2. Strays' = Strays \cup {"pending"}
      BY <2>1, <2>2, <3>1 DEF Strays
    <3>3. \A j \in Attempts : provider[j] = "none"
      BY <2>1, <2>2 DEF IInv, DataInv, OneLive, AttemptInv, TypeOK, Live
    <3>4. Standing = "none" /\ Standing' = Standing
      BY <2>6, <3>3, StandingNone, SameStanding DEF Standing, StandingOf
    <3> QED
      BY <2>2, <2>3, <3>2, <3>4 DEF Contract!GoAstray
  <2> QED
    BY <2>3, <2>4, <2>5, <2>6
<1>3. CASE Finalize(w)
  <2> DEFINE k == proc[w].k
  <2>1. k \in Attempts /\ proc[w].answer \in Answers
    BY <1>0, <1>3, AttemptOf DEF Finalize, Delivering
  <2>2. Standing' = Standing /\ Strays' = Strays
    BY <1>3, SameStanding, SameStrays DEF Finalize
  <2>3. CASE UNCHANGED state
    BY <2>2, <2>3
  <2>4. CASE Justified(k, proc[w].answer) /\ state' = Outcome(proc[w].answer).state
    <3>1. /\ state = "provisioning" /\ status[k] = "pending"
          /\ \/ evidence[k] = "succeeded" /\ state' = "invited"
             \/ evidence[k] \in {"no_seat", "failed"} /\ state' \in {"blocked_no_seat", "failed"}
      BY <2>1, <2>4 DEF Justified, Outcome, Answers
    <3>2. CASE evidence[k] = "succeeded" /\ state' = "invited"
      <4>1. Standing # "none"
        BY <2>1, <3>2, TheOnlyInvitation DEF IInv, DataInv, AttemptInv
      <4> QED
        BY <2>2, <3>1, <3>2, <4>1 DEF Contract!Report
    <3>3. CASE evidence[k] \in {"no_seat", "failed"} /\ state' \in {"blocked_no_seat", "failed"}
      <4>1. \A j \in Attempts : provider[j] = "none"
        BY <2>1, <3>1, <3>3 DEF IInv, DataInv, OneLive, AttemptInv, TypeOK, Live
      <4>2. Standing = "none"
        BY <4>1, StandingNone DEF Standing, StandingOf
      <4> QED
        BY <2>2, <3>1, <3>3, <4>2 DEF Contract!Refuse
    <3> QED
      BY <3>1, <3>2, <3>3
  <2> QED
    BY <1>3, <2>3, <2>4 DEF Finalize
<1> QED
  BY <1>1, <1>2, <1>3 DEF Deliver

LEMMA PollKeepsContract ==
  ASSUME IInv, NEW w \in Workers, Poll(w)
  PROVE  [Contract!Next]_(Contract!vars)
<1> USE DEF Contract!Next, Contract!vars
<1>1. Standing' = Standing /\ Strays' = Strays
  BY SameStanding, SameStrays DEF Poll, ScanPoll, LockPoll, FetchPage, Activate, SaveCheckpoint
<1>2. CASE UNCHANGED state
  BY <1>1, <1>2
<1>3. CASE /\ Activate(w) /\ state = "invited" /\ status[proc[w].k] = "sent" /\ state' = "active"
  <2>1. w \in Procs
    BY DEF Procs
  <2>2. proc[w].k \in Attempts
    BY <1>3, <2>1, AttemptOf DEF Activate, Polling
  <2>3. Member
    BY <1>3, <2>1 DEF IInv, DataInv, WorkOf, Activate
  <2>4. Standing = "accepted" \/ "accepted" \in Strays
    BY <2>3, TheOnlyInvitation DEF Member, Strays
  <2> QED
    BY <1>1, <1>3, <2>4 DEF Contract!Join
<1> QED
  BY <1>2, <1>3 DEF Poll, ScanPoll, LockPoll, FetchPage, Activate, SaveCheckpoint, rows

LEMMA WithdrawKeepsContract ==
  ASSUME LocksProtect, IInv, NEW p \in Procs, Withdraw(p)
  PROVE  [Contract!Next]_(Contract!vars)
<1> USE DEF Contract!Next, Contract!vars
<1>1. CASE Prepare(p) \/ ListInvites(p) \/ SaveReceipt(p)
  BY <1>1, SameStanding, SameStrays DEF Prepare, ListInvites, SaveReceipt, rows
<1>2. CASE DeleteInvite(p)
  <2> DEFINE k == proc[p].k
  <2>1. k \in Attempts
    BY <1>2, AttemptOf DEF DeleteInvite, Withdrawing
  <2>2. status[k] = "sent" /\ state = "invited" /\ UNCHANGED state /\ Strays' = Strays
    BY <1>2, <2>1, SameStrays DEF IInv, DataInv, WorkOf, AttemptInv, DeleteInvite, rows
  <2>3. CASE provider[k] = "pending"
    <3>1. provider'[k] = "deleted" /\ \A j \in Attempts \ {k} : provider'[j] = provider[j]
      BY <1>2, <2>1, <2>3 DEF DeleteInvite, IInv, TypeOK
    <3>2. Standing = "pending" /\ Standing' = "deleted"
      BY <2>1, <2>2, <2>3, <3>1, ChangedStanding DEF Live
    <3> QED
      BY <2>2, <3>2 DEF Contract!Delete
  <2>4. CASE provider[k] # "pending"
    BY <1>2, <2>2, <2>4, SameStanding DEF DeleteInvite
  <2> QED
    BY <2>3, <2>4
<1>3. CASE CompleteWithdrawal(p)
  <2> DEFINE k == proc[p].k
  <2>1. k \in Attempts
    BY <1>3, AttemptOf DEF CompleteWithdrawal, Withdrawing
  <2>2. Standing' = Standing /\ Strays' = Strays
    BY <1>3, SameStanding, SameStrays DEF CompleteWithdrawal
  <2>3. CASE UNCHANGED state
    BY <2>2, <2>3
  <2>4. CASE Withdrawable(k) /\ intent[k].status = "receipt" /\ state' = "deprovisioned"
    <3>1. provider[k] = "deleted"
      BY <2>1, <2>4 DEF IInv, DataInv, AttemptInv
    <3>2. Standing = "deleted"
      BY <2>1, <3>1, TheOnlyInvitation
    <3> QED
      BY <2>2, <2>4, <3>2 DEF Contract!Withdraw, Withdrawable
  <2> QED
    BY <1>3, <2>3, <2>4 DEF CompleteWithdrawal
<1> QED
  BY <1>1, <1>2, <1>3 DEF Withdraw

LEMMA EnvironmentKeepsContract ==
  ASSUME IInv, Environment
  PROVE  [Contract!Next]_(Contract!vars)
<1> USE DEF Contract!Next, Contract!vars
<1>1. ASSUME NEW k \in Attempts, NextAttempt(k)
      PROVE  Contract!TryAgain
  <2>1. state \in {"failed", "blocked_no_seat"} /\ state' = "provisioning"
    BY <1>1 DEF NextAttempt, Retryable
  <2>2. \A j \in Attempts : ~Live(j)
    BY <2>1 DEF IInv, DataInv, AttemptInv, Live
  <2>3. Standing = "none" /\ Standing' = Standing /\ Strays' = Strays
    BY <1>1, <2>2, NoInvitation, SameStanding, SameStrays DEF NextAttempt
  <2> QED
    BY <2>1, <2>3 DEF Contract!TryAgain
<1>2. ASSUME NEW k \in Attempts, AnswerInvitation(k)
      PROVE  Contract!Answer \/ Contract!AnswerStray
  <2>1. CASE provider[k] = "pending" /\ UNCHANGED stray
             /\ \E answer \in {"accepted", "expired"} : provider' = [provider EXCEPT ![k] = answer]
    <3>1. /\ provider[k] = "pending" /\ provider'[k] \in {"accepted", "expired"}
          /\ \A j \in Attempts \ {k} : provider'[j] = provider[j]
          /\ UNCHANGED state
      BY <1>2, <2>1 DEF AnswerInvitation, IInv, TypeOK, rows
    <3>2. Standing = "pending" /\ Standing' \in {"accepted", "expired"}
      BY <3>1, TheOnlyInvitation, ChangedStanding
    <3> QED
      BY <2>1, <3>1, <3>2, SameStrays DEF Contract!Answer
  <2>2. ASSUME stray[k] = "pending", UNCHANGED provider,
               NEW answer \in {"accepted", "expired"}, stray' = [stray EXCEPT ![k] = answer]
        PROVE  Contract!AnswerStray
    <3>1. stray'[k] = answer /\ \A j \in Attempts \ {k} : stray'[j] = stray[j]
      BY <2>2 DEF IInv, TypeOK
    <3>2. "pending" \in Strays
      BY <2>2 DEF Strays
    <3>3. Strays' \in {Strays \cup {answer}, (Strays \ {"pending"}) \cup {answer}}
      <4>1. CASE \E j \in Attempts \ {k} : stray[j] = "pending"
        <5>1. Strays' = Strays \cup {answer}
          BY <2>2, <3>1, <4>1 DEF Strays
        <5> QED
          BY <5>1
      <4>2. CASE \A j \in Attempts \ {k} : stray[j] # "pending"
        <5>1. Strays' = (Strays \ {"pending"}) \cup {answer}
          BY <2>2, <3>1, <4>2 DEF Strays
        <5> QED
          BY <5>1
      <4> QED
        BY <4>1, <4>2
    <3>4. UNCHANGED state /\ Standing' = Standing
      BY <1>2, <2>2, SameStanding DEF AnswerInvitation, rows
    <3> QED
      BY <3>2, <3>3, <3>4 DEF Contract!AnswerStray
  <2> QED
    BY <1>2, <2>1, <2>2 DEF AnswerInvitation
<1>3. CASE UNCHANGED <<state, provider, stray>>
  BY <1>3, SameStanding, SameStrays
<1> QED
  BY <1>1, <1>2, <1>3 DEF Environment, ChangeRule, Fail, LoseLock, rows

LEMMA StepKeepsContract ==
  ASSUME LocksProtect, IInv, [Next]_vars
  PROVE  [Contract!Next]_(Contract!vars)
<1>1. CASE UNCHANGED <<state, provider, stray>>
  BY <1>1, SameStanding, SameStrays DEF Contract!vars
<1> QED
  BY <1>1, DeliverKeepsContract, PollKeepsContract, WithdrawKeepsContract,
     EnvironmentKeepsContract
  DEF Next, InvitePoll, ScanExpiry, SubmitWithdrawal, vars, rows, Procs

\* The ledger and the provider never contradict each other: under the same
\* condition the protocol implements InvitationContract, initial state and every
\* step, for every number of processes and attempts.
THEOREM ImplementsContract ==
  ASSUME LocksProtect
  PROVE  Spec => HonoursContract
<1>1. IInv /\ [Next]_vars => IInv'
  BY IInvStep
<1>2. IInv /\ [Next]_vars => [Contract!Next]_(Contract!vars)
  BY StepKeepsContract
<1> QED
  BY <1>1, <1>2, IInvInitial, ContractInitial, PTL DEF Spec, HonoursContract, Contract!Spec
====
