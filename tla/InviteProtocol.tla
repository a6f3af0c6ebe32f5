----------------------------- MODULE InviteProtocol -----------------------------
(***************************************************************************)
(* The automated invitation of one licence request: delivery, membership   *)
(* poll, expiry (the three parts of the worker's invitePoll job) and the   *)
(* withdrawal by an administrator.  A provider call is never made inside a *)
(* transaction: a session-level advisory lock on the action keeps the      *)
(* processes apart, and rows committed before and after each call (the     *)
(* observations, the withdrawal intent and its receipt) decide what may be *)
(* done again after a crash.                                               *)
(***************************************************************************)
EXTENDS Naturals, FiniteSets

CONSTANTS
  Workers,      \* workers that run invitePoll
  Admins,       \* administrators withdrawing an invitation
  MaxAttempts,  \* bound: invitations tried for the request
  Pages,        \* pages of the provider's member list, then one of invitations
  HomePage,     \* the page on which the invited person is listed once a member
  MaxFaults,    \* bound: failing statements, dead processes, lost answers
  LossyLocks    \* whether the connection that holds a lock may be lost

Procs    == Workers \cup Admins
Attempts == 1..MaxAttempts
None     == "none"

ASSUME ProcsAssumption == Workers \cap Admins = {} /\ None \notin Procs
ASSUME InviteBoundsAssumption ==
  /\ MaxAttempts \in Nat \ {0} /\ MaxFaults \in Nat
  /\ Pages \in Nat \ {0} /\ HomePage \in 1..Pages
  /\ LossyLocks \in BOOLEAN

VARIABLES
  state,       \* license_request.state
  status,      \* provisioning_action.status of each invite action
  evidence,    \* its connector_call_observation rows
  checkpoint,  \* the page its membership poll has saved (0: none, or complete)
  intent,      \* its withdraw_invite action: status, and whose command it is
  provider,    \* what the provider holds for the attempt
  stray,       \* what it holds although it answered the call with an error
  overdue,     \* the invitation is past the window of an enabled expiry rule
  lock,        \* holder of the advisory lock of each action
  proc,        \* what each process is doing
  posts,       \* history: create_invite calls made for each attempt
  deletes,     \* history: delete_invite calls made for each attempt
  faults       \* history: what went wrong so far

rows == <<state, status, evidence, checkpoint, intent>>
vars == <<state, status, evidence, checkpoint, intent, provider, stray, overdue, lock,
          proc, posts, deletes, faults>>

NoIntent == [status |-> "none", by |-> None]
At(phase) == [phase |-> phase]
Resting  == At("resting")

Answers == {"created", "garbled", "no_seat", "refused", "erred", "lost"}

ProcState ==
  {Resting, At("to_poll"), At("to_expire")}
  \cup [phase : {"found", "locked", "posting"}, k : Attempts, session : BOOLEAN]
  \cup [phase : {"answered", "noted"}, k : Attempts, session : BOOLEAN, answer : Answers]
  \cup [phase : {"poll_found", "polling"}, k : Attempts, page : 0..Pages]
  \cup [phase : {"page_read"}, k : Attempts, page : 1..(Pages + 1), accepted : BOOLEAN]
  \cup [phase : {"waiting", "listing", "deleting", "deleted", "completing"}, k : Attempts]

TypeOK ==
  /\ state \in {"provisioning", "invited", "active", "failed", "blocked_no_seat", "deprovisioned"}
  /\ status \in [Attempts -> {"none", "pending", "sent", "failed", "confirmed", "withdrawn"}]
  /\ evidence \in [Attempts -> {"none", "requested", "succeeded", "no_seat", "failed"}]
  /\ checkpoint \in [Attempts -> 0..Pages]
  /\ intent \in [Attempts -> [status : {"none", "pending", "receipt", "withdrawn"},
                              by : Admins \cup {None, "expiry"}]]
  /\ provider \in [Attempts -> {"none", "pending", "accepted", "expired", "deleted"}]
  /\ stray \in [Attempts -> {"none", "pending", "accepted", "expired"}]
  /\ overdue \in BOOLEAN
  /\ lock \in [Attempts -> Procs \cup {None}]
  /\ proc \in [Procs -> ProcState]
  /\ posts \in [Attempts -> Nat]
  /\ deletes \in [Attempts -> Nat]
  /\ faults \in 0..MaxFaults

-------------------------------------------------------------------------------

\* The person has joined; the member list does not say by which invitation.
Member == \E k \in Attempts : "accepted" \in {provider[k], stray[k]}

\* The latest invite action of the request.
Latest(k) == status[k] # "none" /\ \A j \in Attempts : j > k => status[j] = "none"

Become(p, s)    == proc' = [proc EXCEPT ![p] = s]
Unlock(k)       == lock' = [lock EXCEPT ![k] = None]

\* Mutant: the recheck under the lock forgets the observations.
PendingInvite(k) == state = "provisioning" /\ status[k] = "pending"

\* The query of candidates and its recheck: never an action with an observation.
Deliverable(k) == state = "provisioning" /\ status[k] = "pending" /\ evidence[k] = "none"

\* current(): the sent invitation of a request that is still waiting for its answer.
Withdrawable(k) == state = "invited" /\ status[k] = "sent" /\ Latest(k)

\* Which command a process submits: the expiry job always the same one.
Command(p) == IF p \in Workers THEN "expiry" ELSE p

TakeLock(p, k) == lock[k] = None /\ lock' = [lock EXCEPT ![k] = p]

-------------------------------------------------------------------------------
(* Delivery: automated-invite-delivery.ts *)

\* The job starts: one candidate at most for the request, read without a lock.
ScanDelivery(w) ==
  /\ proc[w].phase = "resting"
  /\ \/ \E k \in Attempts : Deliverable(k)
          /\ Become(w, [phase |-> "found", k |-> k, session |-> TRUE])
     \/ (\A k \in Attempts : ~Deliverable(k)) /\ Become(w, At("to_poll"))
  /\ UNCHANGED <<rows, provider, stray, overdue, lock, posts, deletes, faults>>

\* pg_try_advisory_lock and the recheck; otherwise the candidate is skipped.
LockDelivery(w) ==
  /\ proc[w].phase = "found"
  /\ LET k == proc[w].k IN
     IF lock[k] = None /\ Deliverable(k)
       THEN TakeLock(w, k) /\ Become(w, [proc[w] EXCEPT !.phase = "locked"])
       ELSE UNCHANGED lock /\ Become(w, At("to_poll"))
  /\ UNCHANGED <<rows, provider, stray, overdue, posts, deletes, faults>>

\* The observation `requested` is committed before the call, on a connection of
\* its own.
Announce(w) ==
  /\ proc[w].phase = "locked"
  /\ evidence' = [evidence EXCEPT ![proc[w].k] = "requested"]
  /\ Become(w, [proc[w] EXCEPT !.phase = "posting"])
  /\ UNCHANGED <<state, status, checkpoint, intent, provider, stray, overdue, lock, posts, deletes, faults>>

\* The provider creates the invitation and says so (in a body the connector can
\* read or not), fails without an effect, answers with an error (5xx) although it
\* has created the invitation, or its answer is lost with or without an effect.
Post(w) ==
  /\ proc[w].phase = "posting"
  /\ LET k == proc[w].k IN
     /\ posts' = [posts EXCEPT ![k] = @ + 1]
     /\ \E answer \in Answers, effect \in BOOLEAN :
          /\ answer \in {"created", "garbled", "erred"} => effect
          /\ answer \in {"no_seat", "refused"} => ~effect
          /\ faults' = IF answer \in {"garbled", "erred", "lost"} THEN faults + 1 ELSE faults
          /\ faults' <= MaxFaults
          /\ provider' = IF effect /\ answer # "erred"
                           THEN [provider EXCEPT ![k] = "pending"] ELSE provider
          /\ stray' = IF answer = "erred" THEN [stray EXCEPT ![k] = "pending"] ELSE stray
          /\ Become(w, [phase |-> "answered", k |-> k, session |-> proc[w].session,
                        answer |-> answer])
  /\ UNCHANGED <<rows, overdue, lock, deletes>>

\* The terminal observation, before the ledger changes; none for a lost answer.
NoteAnswer(w) ==
  /\ proc[w].phase = "answered"
  /\ LET k == proc[w].k  answer == proc[w].answer IN
     /\ evidence' = [evidence EXCEPT ![k] =
          CASE answer \in {"created", "garbled"} -> "succeeded"
            [] answer = "no_seat" -> "no_seat"
            [] answer \in {"refused", "erred"} -> "failed"
            [] answer = "lost"    -> @]
     /\ Become(w, [proc[w] EXCEPT !.phase = "noted"])
  /\ UNCHANGED <<state, status, checkpoint, intent, provider, stray, overdue, lock, posts, deletes, faults>>

\* Mutant: the outcome is written without asking the journal for it.
FinalizeUnchecked(k, answer) == state = "provisioning" /\ status[k] = "pending"

\* Each finalizer asks the journal for the observation that justifies it: a
\* success, a refusal for want of a seat, or any other failure.
Justified(k, answer) ==
  /\ state = "provisioning" /\ status[k] = "pending"
  /\ evidence[k] = CASE answer = "created" -> "succeeded"
                     [] answer = "no_seat" -> "no_seat"
                     [] OTHER -> "failed"

Outcome(answer) ==
  CASE answer = "created" -> [state |-> "invited", status |-> "sent"]
    [] answer = "no_seat" -> [state |-> "blocked_no_seat", status |-> "failed"]
    [] OTHER -> [state |-> "failed", status |-> "failed"]

\* finalize, finalizeNoSeat or finalizeGenericFailure; on the connection that
\* holds the lock, so it throws when that is gone.
Finalize(w) ==
  /\ proc[w].phase = "noted"
  /\ LET k == proc[w].k  o == Outcome(proc[w].answer) IN
     /\ IF proc[w].session /\ Justified(k, proc[w].answer)
          THEN state' = o.state /\ status' = [status EXCEPT ![k] = o.status]
          ELSE UNCHANGED <<state, status>>
     /\ IF proc[w].session THEN Unlock(k) /\ Become(w, At("to_poll"))
                           ELSE UNCHANGED lock /\ Become(w, Resting)
  /\ UNCHANGED <<evidence, checkpoint, intent, provider, stray, overdue, posts, deletes, faults>>

-------------------------------------------------------------------------------
(* Membership poll: membership-poll.ts                                     *)

\* The candidates, with their checkpoints, are read before any lock is taken.
ScanPoll(w) ==
  /\ proc[w].phase = "to_poll"
  /\ \/ \E k \in Attempts : state = "invited" /\ status[k] = "sent"
          /\ Become(w, [phase |-> "poll_found", k |-> k, page |-> checkpoint[k]])
     \/ /\ \A k \in Attempts : ~(state = "invited" /\ status[k] = "sent")
        /\ Become(w, At("to_expire"))
  /\ UNCHANGED <<rows, provider, stray, overdue, lock, posts, deletes, faults>>

LockPoll(w) ==
  /\ proc[w].phase = "poll_found"
  /\ LET k == proc[w].k IN
     IF lock[k] = None
       THEN TakeLock(w, k) /\ Become(w, [proc[w] EXCEPT !.phase = "polling"])
       ELSE UNCHANGED lock /\ Become(w, At("to_expire"))
  /\ UNCHANGED <<rows, provider, stray, overdue, posts, deletes, faults>>

\* syncMemberPage: the member pages, then the invitations.  A failing page ends
\* the poll of the candidate without a trace.
FetchPage(w) ==
  /\ proc[w].phase = "polling"
  /\ LET k == proc[w].k  page == proc[w].page + 1 IN
     \/ /\ Become(w, [phase |-> "page_read", k |-> k, page |-> page,
                      accepted |-> Member /\ page = HomePage])
        /\ UNCHANGED <<lock, faults>>
     \/ /\ faults < MaxFaults /\ faults' = faults + 1
        /\ Unlock(k) /\ Become(w, At("to_expire"))
  /\ UNCHANGED <<rows, provider, stray, overdue, posts, deletes>>

\* activate(): the seat, the confirmed action and the active request in one
\* transaction, if the invitation is still waiting.
Activate(w) ==
  /\ proc[w].phase = "page_read" /\ proc[w].accepted
  /\ LET k == proc[w].k IN
     /\ IF state = "invited" /\ status[k] = "sent"
          THEN /\ state' = "active"
               /\ status' = [status EXCEPT ![k] = "confirmed"]
               /\ checkpoint' = [checkpoint EXCEPT ![k] = 0]
          ELSE UNCHANGED <<state, status, checkpoint>>
     /\ Unlock(k)
  /\ Become(w, At("to_expire"))
  /\ UNCHANGED <<evidence, intent, provider, stray, overdue, posts, deletes, faults>>

\* Mutant: a completed list is resumed behind its end.
KeepPage(page) == IF page > Pages THEN Pages ELSE page

\* The checkpoint of a completed list starts over.
SavedPage(page) == IF page > Pages THEN 0 ELSE page

SaveCheckpoint(w) ==
  /\ proc[w].phase = "page_read" /\ ~proc[w].accepted
  /\ LET k == proc[w].k  page == proc[w].page IN
     IF state = "invited" /\ status[k] = "sent"
       THEN /\ checkpoint' = [checkpoint EXCEPT ![k] = SavedPage(page)]
            /\ IF page > Pages
                 THEN Unlock(k) /\ Become(w, At("to_expire"))
                 ELSE UNCHANGED lock /\ Become(w, [phase |-> "polling", k |-> k, page |-> page])
       ELSE UNCHANGED checkpoint /\ Unlock(k) /\ Become(w, At("to_expire"))
  /\ UNCHANGED <<state, status, evidence, intent, provider, stray, overdue, posts, deletes, faults>>

-------------------------------------------------------------------------------
(* Expiry and withdrawal: automatic-invitation-expiry.ts,                  *)
(* invitation-withdrawal.ts                                                *)

\* Mutant: a withdrawal is resumed only while the rule is enabled.
RecoverableWhenDue(k) == overdue /\ intent[k] = [status |-> "receipt", by |-> "expiry"]

Recoverable(k) == intent[k] = [status |-> "receipt", by |-> "expiry"]

\* The commands of the expiry job: withdrawals to finish first, then what is due.
ScanExpiry(w) ==
  /\ proc[w].phase = "to_expire"
  /\ LET due == {k \in Attempts : Recoverable(k) \/ (overdue /\ Withdrawable(k))} IN
     \/ \E k \in due : Become(w, [phase |-> "waiting", k |-> k])
     \/ due = {} /\ Become(w, Resting)
  /\ UNCHANGED <<rows, provider, stray, overdue, lock, posts, deletes, faults>>

\* An administrator submits the form of an invitation shown to be waiting.
SubmitWithdrawal(a) ==
  /\ proc[a].phase = "resting"
  /\ \E k \in Attempts : Withdrawable(k) /\ Become(a, [phase |-> "waiting", k |-> k])
  /\ UNCHANGED <<rows, provider, stray, overdue, lock, posts, deletes, faults>>

\* The preparing transaction, under the lock: resume the same command with its
\* receipt, or write a new intent; a different command, an invitation that is no
\* longer waiting, an expiry no longer due and an intent without a receipt end it.
Prepare(p) ==
  /\ proc[p].phase = "waiting"
  /\ LET k == proc[p].k IN
     /\ lock[k] = None
     /\ \/ /\ intent[k].status = "none" /\ Withdrawable(k) /\ (p \in Workers => overdue)
           /\ intent' = [intent EXCEPT ![k] = [status |-> "pending", by |-> Command(p)]]
           /\ TakeLock(p, k) /\ Become(p, [phase |-> "listing", k |-> k])
        \/ /\ intent[k] = [status |-> "receipt", by |-> Command(p)] /\ Withdrawable(k)
           /\ TakeLock(p, k) /\ Become(p, [phase |-> "completing", k |-> k])
           /\ UNCHANGED intent
        \/ /\ \/ intent[k].status = "none" /\ ~(Withdrawable(k) /\ (p \in Workers => overdue))
              \/ intent[k].status # "none" /\ intent[k].by # Command(p)
              \/ intent[k].status \in {"pending", "withdrawn"}
              \/ intent[k].status = "receipt" /\ ~Withdrawable(k)
           /\ Become(p, Resting)
           /\ UNCHANGED <<intent, lock>>
  /\ UNCHANGED <<state, status, evidence, checkpoint, provider, stray, overdue, posts, deletes, faults>>

\* The invitation must be listed as pending; a failing list ends the attempt and
\* leaves the intent as it is.
ListInvites(p) ==
  /\ proc[p].phase = "listing"
  /\ LET k == proc[p].k IN
     \/ provider[k] = "pending" /\ Become(p, [phase |-> "deleting", k |-> k])
        /\ UNCHANGED <<lock, faults>>
     \/ provider[k] # "pending" /\ Become(p, Resting) /\ Unlock(k)
        /\ UNCHANGED faults
     \/ /\ faults < MaxFaults /\ faults' = faults + 1
        /\ Become(p, Resting) /\ Unlock(k)
  /\ UNCHANGED <<rows, provider, stray, overdue, posts, deletes>>

\* One DELETE at most.  The provider deletes a pending invitation; its answer may
\* be lost, and an invitation that was answered meanwhile is refused.
DeleteInvite(p) ==
  /\ proc[p].phase = "deleting"
  /\ LET k == proc[p].k IN
     /\ deletes' = [deletes EXCEPT ![k] = @ + 1]
     /\ provider' = IF provider[k] = "pending" THEN [provider EXCEPT ![k] = "deleted"]
                                               ELSE provider
     /\ UNCHANGED stray
     /\ \/ /\ provider[k] = "pending" /\ Become(p, [phase |-> "deleted", k |-> k])
           /\ UNCHANGED <<lock, faults>>
        \/ /\ provider[k] = "pending" /\ faults < MaxFaults /\ faults' = faults + 1
           /\ Become(p, Resting) /\ Unlock(k)
        \/ /\ provider[k] # "pending" /\ Become(p, Resting) /\ Unlock(k)
           /\ UNCHANGED faults
  /\ UNCHANGED <<rows, overdue, posts>>

\* The receipt is committed by itself, before the ledger changes.
SaveReceipt(p) ==
  /\ proc[p].phase = "deleted"
  /\ LET k == proc[p].k IN
     /\ intent' = [intent EXCEPT ![k].status = "receipt"]
     /\ Become(p, [phase |-> "completing", k |-> k])
  /\ UNCHANGED <<state, status, evidence, checkpoint, provider, stray, overdue, lock, posts, deletes, faults>>

\* The completing transaction re-reads the request, the invitation and the intent.
CompleteWithdrawal(p) ==
  /\ proc[p].phase = "completing"
  /\ LET k == proc[p].k IN
     /\ IF Withdrawable(k) /\ intent[k] = [status |-> "receipt", by |-> Command(p)]
          THEN /\ state' = "deprovisioned"
               /\ status' = [status EXCEPT ![k] = "withdrawn"]
               /\ intent' = [intent EXCEPT ![k].status = "withdrawn"]
          ELSE UNCHANGED <<state, status, intent>>
     /\ Unlock(k)
  /\ Become(p, Resting)
  /\ UNCHANGED <<evidence, checkpoint, provider, stray, overdue, posts, deletes, faults>>

-------------------------------------------------------------------------------
(* Around the protocol                                                     *)

\* retryProvisioning: the last attempt failed, none is live and none unresolved.
Retryable ==
  /\ state = "failed"
  /\ \E j \in Attempts : status[j] = "failed" /\ evidence[j] = "failed"
  /\ \A j \in Attempts : status[j] \notin {"pending", "sent"}
  /\ \A j \in Attempts : evidence[j] # "requested"

\* A new attempt: by retry after a failure, by capacity recovery after a refusal.
NextAttempt(k) ==
  /\ Retryable \/ state = "blocked_no_seat"
  /\ status[k] = "none" /\ \A j \in Attempts : j < k => status[j] # "none"
  /\ state' = "provisioning"
  /\ status' = [status EXCEPT ![k] = "pending"]
  /\ UNCHANGED <<evidence, checkpoint, intent, provider, stray, overdue, lock, proc, posts, deletes, faults>>

\* The person accepts an invitation, or the provider lets it lapse.
AnswerInvitation(k) ==
  /\ \E answer \in {"accepted", "expired"} :
       \/ /\ provider[k] = "pending" /\ provider' = [provider EXCEPT ![k] = answer]
          /\ UNCHANGED stray
       \/ /\ stray[k] = "pending" /\ stray' = [stray EXCEPT ![k] = answer]
          /\ UNCHANGED provider
  /\ UNCHANGED <<rows, overdue, lock, proc, posts, deletes, faults>>

\* The invitation grows old, or the rule is enabled or disabled.
ChangeRule ==
  /\ overdue' = ~overdue
  /\ UNCHANGED <<rows, provider, stray, lock, proc, posts, deletes, faults>>

\* A statement fails or the process dies: its locks go with its connection, and
\* the rest of the job is skipped.
Fail(p) ==
  /\ faults < MaxFaults /\ faults' = faults + 1
  /\ proc[p].phase # "resting"
  /\ lock' = [k \in Attempts |-> IF lock[k] = p THEN None ELSE lock[k]]
  /\ Become(p, Resting)
  /\ UNCHANGED <<rows, provider, stray, overdue, posts, deletes>>

\* Only the connection that holds the lock is lost; the delivery goes on until it
\* needs it again.
LoseLock(w) ==
  /\ LossyLocks /\ faults < MaxFaults /\ faults' = faults + 1
  /\ proc[w].phase \in {"locked", "posting", "answered", "noted"} /\ proc[w].session
  /\ Unlock(proc[w].k)
  /\ Become(w, [proc[w] EXCEPT !.session = FALSE])
  /\ UNCHANGED <<rows, provider, stray, overdue, posts, deletes>>

-------------------------------------------------------------------------------

Init ==
  /\ state = "provisioning"
  /\ status = [k \in Attempts |-> IF k = 1 THEN "pending" ELSE "none"]
  /\ evidence = [k \in Attempts |-> "none"]
  /\ checkpoint = [k \in Attempts |-> 0]
  /\ intent = [k \in Attempts |-> NoIntent]
  /\ provider = [k \in Attempts |-> "none"]
  /\ stray = [k \in Attempts |-> "none"]
  /\ overdue = FALSE
  /\ lock = [k \in Attempts |-> None]
  /\ proc = [p \in Procs |-> Resting]
  /\ posts = [k \in Attempts |-> 0]
  /\ deletes = [k \in Attempts |-> 0]
  /\ faults = 0

Deliver(w)  == ScanDelivery(w) \/ LockDelivery(w) \/ Announce(w) \/ Post(w)
               \/ NoteAnswer(w) \/ Finalize(w)
Poll(w)     == ScanPoll(w) \/ LockPoll(w) \/ FetchPage(w) \/ Activate(w) \/ SaveCheckpoint(w)
Withdraw(p) == Prepare(p) \/ ListInvites(p) \/ DeleteInvite(p) \/ SaveReceipt(p)
               \/ CompleteWithdrawal(p)
InvitePoll(w) == Deliver(w) \/ Poll(w) \/ ScanExpiry(w) \/ Withdraw(w)

Environment ==
  \/ \E k \in Attempts : NextAttempt(k) \/ AnswerInvitation(k)
  \/ ChangeRule
  \/ \E p \in Procs : Fail(p)
  \/ \E w \in Workers : LoseLock(w)

Next ==
  \/ \E w \in Workers : InvitePoll(w)
  \/ \E a \in Admins : SubmitWithdrawal(a) \/ Withdraw(a)
  \/ Environment

Spec == Init /\ [][Next]_vars

\* pg-boss starts invitePoll every quarter of an hour and a lock request waits in
\* the queue of PostgreSQL; nothing obliges an administrator, a person or a rule.
Fairness ==
  /\ \A w \in Workers : WF_vars(Deliver(w) \/ Poll(w) \/ ScanExpiry(w))
  /\ \A p \in Procs : SF_vars(Withdraw(p))

FairSpec == Spec /\ Fairness

-------------------------------------------------------------------------------

\* Every invitation the provider has made for the request and not answered with an
\* error, seen as one.
Standing ==
  LET made == {k \in Attempts : provider[k] # "none"} IN
  IF made = {} THEN "none"
  ELSE IF Cardinality(made) = 1 THEN provider[CHOOSE k \in made : TRUE]
  ELSE "several"

Strays == {stray[k] : k \in Attempts} \ {"none"}

Contract == INSTANCE InvitationContract WITH
  ledger <- state, invitation <- Standing, strays <- Strays

\* The ledger and the provider never contradict each other, but for invitations
\* made behind an error the provider answered with: the protocol of locks,
\* observations, intents and receipts implements InvitationContract (one invitation
\* at most beside those; a seat only for who accepted; a seat freed only after the
\* deletion) in every interleaving and with every fault.
HonoursContract == Contract!Spec

\* Neither provider call is ever repeated for an attempt, whoever runs, dies or
\* comes back (automated-invite-delivery.ts, invitation-withdrawal.ts:98).
CallsOnce == \A k \in Attempts : posts[k] <= 1 /\ deletes[k] <= 1

\* An attempt that was announced and that nobody works on any more.
Stranded(k) ==
  /\ evidence[k] = "requested"
  /\ \A w \in Workers :
       proc[w].phase \in {"posting", "answered", "noted"} => proc[w].k # k

\* Who accepted the invitation on record gets the seat: whatever the poll's
\* checkpoints and its failing pages were, it becomes an active request.  (Who
\* accepted a stray one may be withdrawn with the one on record.)
AcceptedJoins ==
  (state = "invited" /\ \E k \in Attempts : provider[k] = "accepted") ~> (state = "active")

\* A withdrawal the expiry job has a receipt for is finished, also after a crash
\* and with the rule disabled since, unless the poll finds the person a member by
\* a stray invitation first.
ReceiptSettles ==
  \A k \in Attempts :
    Recoverable(k) ~> \/ intent[k].status = "withdrawn"
                      \/ state = "active" /\ \E j \in Attempts : stray[j] = "accepted"

\* Evidence of a success is followed by its state (docs/stories/sprint-3/r1_misc_us_063.md:30).
EvidenceGetsItsState ==
  \A k \in Attempts : (evidence[k] = "succeeded") ~> (status[k] # "pending")

\* "Thus only one poller can reach transport"
\* (docs/superpowers/specs/2026-09-07-us-063-automated-invite-delivery-design.md:102).
OneSender == \A k \in Attempts : posts[k] <= 1
=================================================================================
