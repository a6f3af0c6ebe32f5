------------------------- MODULE LifecycleNotifications -------------------------
(***************************************************************************)
(* The outbox of lifecycle e-mail.  A business transaction enqueues a      *)
(* notification; dispatchers (the drain loop of the worker, and the web    *)
(* server right after a commit) scan for ready notifications, claim one    *)
(* attempt under a lease, send the mail, and record the result if the      *)
(* claim is still good.  The scan, the claim, the sending and the record   *)
(* are separate transactions, and several dispatchers interleave them.     *)
(*                                                                         *)
(* packages/notifications/src/lifecycle-dispatcher.ts, and the functions   *)
(* claim_lifecycle_notification and complete_lifecycle_notification.       *)
(***************************************************************************)
EXTENDS Integers, FiniteSets

CONSTANTS
  Notifications,   \* rows of lifecycle_notification, numbered by created_at
  Dispatchers,     \* processes that drain the outbox
  Worker,          \* the dispatcher of the drain loop, which scans everything
  MaxAttempts,     \* maxAttempts: the cap on attempts per notification
  MaxMailFaults,   \* bound: crashes, lost answers, failing records, overrun leases
  MaxMailChanges   \* bound: changes of the recipients' authorization

ASSUME MailAssumption ==
  /\ Notifications \subseteq Nat
  /\ IsFiniteSet(Dispatchers) /\ Worker \in Dispatchers
  /\ MaxAttempts \in Nat \ {0} /\ MaxMailFaults \in Nat /\ MaxMailChanges \in Nat

\* Every dispatcher may claim once from a scan that is out of date.
Attempts == 1..(MaxAttempts + Cardinality(Dispatchers))

VARIABLES
  queued,       \* the notifications committed so far
  deliveries,   \* lifecycle_notification_delivery, one record per attempt
  authorized,   \* the notifications whose recipient may be mailed now
  drain,        \* what each dispatcher is doing
  accepted,     \* history: mails the SMTP server accepted per notification
  mailFaults,   \* history: what went wrong so far
  mailChanges   \* history: changes of authorization so far

mailVars == <<queued, deliveries, authorized, drain, accepted, mailFaults, mailChanges>>

\* The rows of an attempt: its outcome, whether its lease is over, and whether
\* the retry delay has passed since it failed or its lease ended.
NoRow    == [outcome |-> "none", over |-> FALSE, rested |-> FALSE]
ClaimRow == [outcome |-> "claimed", over |-> FALSE, rested |-> FALSE]
Resting  == [phase |-> "resting"]

DrainState ==
  {Resting}
  \cup [phase : {"draining"}, todo : (SUBSET Notifications) \ {{}}]
  \cup [phase : {"claimed", "sending"}, todo : SUBSET Notifications,
        n : Notifications, attempt : Attempts]
  \cup [phase : {"settling"}, todo : SUBSET Notifications, n : Notifications,
        attempt : Attempts, result : {"succeeded", "failed", "suppressed"}, inTime : BOOLEAN]

MailTypeOK ==
  /\ queued \subseteq Notifications
  /\ deliveries \in [Notifications -> [Attempts ->
       [outcome : {"none", "claimed", "succeeded", "failed", "suppressed"},
        over : BOOLEAN, rested : BOOLEAN]]]
  /\ authorized \subseteq Notifications
  /\ drain \in [Dispatchers -> DrainState]
  /\ accepted \in [Notifications -> Nat]
  /\ mailFaults \in 0..MaxMailFaults
  /\ mailChanges \in 0..MaxMailChanges

-------------------------------------------------------------------------------

LastAttempt(n) ==
  Cardinality({k \in Attempts : deliveries[n][k].outcome # "none"})

MailSucceeded(n) == \E k \in Attempts : deliveries[n][k].outcome = "succeeded"

\* A claim without a terminal row whose lease is not over.
LiveClaims(n) ==
  {k \in Attempts : deliveries[n][k].outcome = "claimed" /\ ~deliveries[n][k].over}

\* Mutant: attempts are not capped.
ReadyUncapped(n) ==
  \/ LastAttempt(n) = 0
  \/ LET last == deliveries[n][LastAttempt(n)] IN
       /\ last.rested
       /\ last.outcome \in {"failed", "claimed"}

\* Mutant: an attempt whose dispatcher died is not retried.
ReadyFailed(n) ==
  \/ LastAttempt(n) = 0
  \/ /\ LastAttempt(n) < MaxAttempts
     /\ LET last == deliveries[n][LastAttempt(n)] IN
          last.rested /\ last.outcome = "failed"

\* The scan looks at the last attempt only: none yet, or it failed or lost its
\* lease a retry delay ago, and the cap is not reached.  A suppressed one rests
\* for ever.
Ready(n) ==
  \/ LastAttempt(n) = 0
  \/ /\ LastAttempt(n) < MaxAttempts
     /\ LET last == deliveries[n][LastAttempt(n)] IN
          last.rested /\ last.outcome \in {"failed", "claimed"}

Continue(todo) ==
  IF todo = {} THEN Resting ELSE [phase |-> "draining", todo |-> todo]

-------------------------------------------------------------------------------

\* A business transaction commits the notification and its pending row.
Enqueue(n) ==
  /\ n \notin queued
  /\ queued' = queued \cup {n}
  /\ UNCHANGED <<deliveries, authorized, drain, accepted, mailFaults, mailChanges>>

\* The recipient is disabled, enabled, given or denied the approver's role.
ChangeAuthorization(n) ==
  /\ mailChanges < MaxMailChanges                  \* bound: MaxMailChanges
  /\ mailChanges' = mailChanges + 1
  /\ authorized' = IF n \in authorized THEN authorized \ {n} ELSE authorized \cup {n}
  /\ UNCHANGED <<queued, deliveries, drain, accepted, mailFaults>>

\* The drain loop scans everything (at most a hundred at once; an instance has
\* fewer), the web server the notifications of one request.
ScanOutbox(d, scope) ==
  LET ready == {n \in queued \cap scope : Ready(n)} IN
  /\ drain[d] = Resting
  /\ ready # {}
  /\ drain' = [drain EXCEPT ![d] = [phase |-> "draining", todo |-> ready]]
  /\ UNCHANGED <<queued, deliveries, authorized, accepted, mailFaults, mailChanges>>

\* Mutant: a claim does not look for a recorded success.
ClaimableAfterSuccess(n) == LiveClaims(n) = {}

\* claim_lifecycle_notification refuses after a success, or beside a live claim.
Claimable(n) == ~MailSucceeded(n) /\ LiveClaims(n) = {}

\* Notifications are claimed in the order of created_at; the claim does not repeat
\* the conditions of the scan.
ClaimAttempt(d) ==
  /\ drain[d].phase = "draining"
  /\ \E n \in drain[d].todo :
       LET left    == drain[d].todo \ {n}
           attempt == LastAttempt(n) + 1
       IN /\ \A m \in left : n <= m
          /\ IF Claimable(n)
             THEN /\ deliveries' = [deliveries EXCEPT ![n][attempt] = ClaimRow]
                  /\ drain' = [drain EXCEPT ![d] =
                       [phase |-> "claimed", todo |-> left, n |-> n, attempt |-> attempt]]
             ELSE /\ drain' = [drain EXCEPT ![d] = Continue(left)]
                  /\ UNCHANGED deliveries
  /\ UNCHANGED <<queued, authorized, accepted, mailFaults, mailChanges>>

\* The mail or its refusal came back: the dispatcher reads the clock at once.
Settling(d, result) ==
  LET run == drain[d] IN
  [phase |-> "settling", todo |-> run.todo, n |-> run.n, attempt |-> run.attempt,
   result |-> result, inTime |-> ~deliveries[run.n][run.attempt].over]

\* loadNotification: who may not be mailed now is suppressed.
Load(d) ==
  /\ drain[d].phase = "claimed"
  /\ drain' = [drain EXCEPT ![d] =
       IF drain[d].n \in authorized THEN [@ EXCEPT !.phase = "sending"]
       ELSE Settling(d, "suppressed")]
  /\ UNCHANGED <<queued, deliveries, authorized, accepted, mailFaults, mailChanges>>

\* The SMTP server accepts the mail, or refuses it; rendering may fail first.
SendMail(d) ==
  /\ drain[d].phase = "sending"
  /\ \/ /\ accepted' = [accepted EXCEPT ![drain[d].n] = @ + 1]
        /\ drain' = [drain EXCEPT ![d] = Settling(d, "succeeded")]
     \/ /\ drain' = [drain EXCEPT ![d] = Settling(d, "failed")]
        /\ UNCHANGED accepted
  /\ UNCHANGED <<queued, deliveries, authorized, mailFaults, mailChanges>>

\* The mail was accepted and the answer lost.
AnswerLost(d) ==
  /\ drain[d].phase = "sending"
  /\ mailFaults < MaxMailFaults                    \* bound: MaxMailFaults
  /\ mailFaults' = mailFaults + 1
  /\ accepted' = [accepted EXCEPT ![drain[d].n] = @ + 1]
  /\ drain' = [drain EXCEPT ![d] = Settling(d, "failed")]
  /\ UNCHANGED <<queued, deliveries, authorized, mailChanges>>

\* complete_lifecycle_notification: the claim is this attempt's, its lease was
\* not over at the time the dispatcher read, and at most one success is recorded.
ResultFence(run) ==
  /\ run.inTime
  /\ deliveries[run.n][run.attempt].outcome = "claimed"
  /\ run.result = "succeeded" => ~MailSucceeded(run.n)

\* A failing record of a success is recorded as a failure, at a new reading of
\* the clock; any other failing record ends the drain.
RecordThrows(d) ==
  drain' = [drain EXCEPT ![d] =
    IF drain[d].result = "succeeded" THEN Settling(d, "failed") ELSE Resting]

RecordResult(d) ==
  LET run == drain[d] IN
  /\ run.phase = "settling"
  /\ IF ResultFence(run)
     THEN /\ deliveries' = [deliveries EXCEPT ![run.n][run.attempt] =
               [@ EXCEPT !.outcome = run.result, !.rested = FALSE]]
          /\ drain' = [drain EXCEPT ![d] = Continue(run.todo)]
     ELSE RecordThrows(d) /\ UNCHANGED deliveries
  /\ UNCHANGED <<queued, authorized, accepted, mailFaults, mailChanges>>

\* The transaction of the record (journal and audit rows) rolls back.
RecordFails(d) ==
  /\ drain[d].phase = "settling"
  /\ mailFaults < MaxMailFaults                    \* bound: MaxMailFaults
  /\ mailFaults' = mailFaults + 1
  /\ RecordThrows(d)
  /\ UNCHANGED <<queued, deliveries, authorized, accepted, mailChanges>>

\* The process dies, or the database fails the claim or the load.
CrashDispatcher(d) ==
  /\ drain[d] # Resting
  /\ mailFaults < MaxMailFaults                    \* bound: MaxMailFaults
  /\ mailFaults' = mailFaults + 1
  /\ drain' = [drain EXCEPT ![d] = Resting]
  /\ UNCHANGED <<queued, deliveries, authorized, accepted, mailChanges>>

-------------------------------------------------------------------------------
(* Time *)

\* A dispatcher still works on attempt k of n.
Attended(n, k) ==
  \E d \in Dispatchers : /\ drain[d].phase \in {"claimed", "sending", "settling"}
                         /\ drain[d].n = n /\ drain[d].attempt = k

\* The lease runs out, over a dead dispatcher or, as a fault, a slow one.
AttemptLeaseEnds(n, k) ==
  /\ deliveries[n][k].outcome = "claimed" /\ ~deliveries[n][k].over
  /\ \/ ~Attended(n, k) /\ UNCHANGED mailFaults
     \/ /\ Attended(n, k)
        /\ mailFaults < MaxMailFaults              \* bound: MaxMailFaults
        /\ mailFaults' = mailFaults + 1
  /\ deliveries' = [deliveries EXCEPT ![n][k].over = TRUE]
  /\ UNCHANGED <<queued, authorized, drain, accepted, mailChanges>>

\* The retry delay passes.
DelayPasses(n, k) ==
  /\ ~deliveries[n][k].rested
  /\ \/ deliveries[n][k].outcome = "claimed" /\ deliveries[n][k].over
     \/ deliveries[n][k].outcome = "failed"
  /\ deliveries' = [deliveries EXCEPT ![n][k].rested = TRUE]
  /\ UNCHANGED <<queued, authorized, drain, accepted, mailFaults, mailChanges>>

-------------------------------------------------------------------------------

MailInit ==
  /\ queued = {}
  /\ deliveries = [n \in Notifications |-> [k \in Attempts |-> NoRow]]
  /\ authorized \in SUBSET Notifications
  /\ drain = [d \in Dispatchers |-> Resting]
  /\ accepted = [n \in Notifications |-> 0]
  /\ mailFaults = 0
  /\ mailChanges = 0

Scans(d) ==
  \E scope \in SUBSET Notifications : (d = Worker => scope = Notifications) /\ ScanOutbox(d, scope)

Works(d) == ClaimAttempt(d) \/ Load(d) \/ SendMail(d) \/ RecordResult(d)

MailNext ==
  \/ \E n \in Notifications : Enqueue(n) \/ ChangeAuthorization(n)
  \/ \E d \in Dispatchers :
       Scans(d) \/ Works(d) \/ AnswerLost(d) \/ RecordFails(d) \/ CrashDispatcher(d)
  \/ \E n \in Notifications, k \in Attempts : AttemptLeaseEnds(n, k) \/ DelayPasses(n, k)

MailSpec == MailInit /\ [][MailNext]_mailVars

TimePasses ==
  \E n \in Notifications, k \in Attempts :
    \/ ~Attended(n, k) /\ AttemptLeaseEnds(n, k)
    \/ DelayPasses(n, k)

\* The drain loop scans every minute, statements and calls end, and time passes
\* (a lease ends once and a delay passes once, so that all of them do).
MailFairness ==
  /\ WF_mailVars(ScanOutbox(Worker, Notifications))
  /\ \A d \in Dispatchers : WF_mailVars(Works(d))
  /\ WF_mailVars(TimePasses)

-------------------------------------------------------------------------------
(* Properties *)

\* The outbox is honest and repeats itself only for a reason: a recorded success
\* means a mail was accepted, and every mail beyond the first is explained by a
\* crash, a lost answer, a failing record or an overrun lease
\* (lifecycle-dispatcher.ts:126).
MailsExplained ==
  \A n \in Notifications : /\ MailSucceeded(n) => accepted[n] >= 1
                           /\ accepted[n] <= 1 + mailFaults

\* Scans that are out of date exceed the cap by at most one attempt for every
\* dispatcher but one (lifecycle-dispatcher.ts:69).
AttemptsBounded ==
  \A n \in Notifications : LastAttempt(n) < MaxAttempts + Cardinality(Dispatchers)

\* Nothing more will happen to the notification by itself.
Settled(n) ==
  \/ MailSucceeded(n)
  \/ /\ LastAttempt(n) # 0
     /\ \/ deliveries[n][LastAttempt(n)].outcome = "suppressed"
        \/ LastAttempt(n) >= MaxAttempts /\ LiveClaims(n) = {}

\* Every enqueued notification is mailed, suppressed or given up, whatever
\* dispatchers died on the way (lifecycle-dispatcher.ts:69).
NotificationsSettle ==
  []<>(\A n \in queued : Settled(n))
===============================================================================
