----------------------------- MODULE AlertEvaluation -----------------------------
(***************************************************************************)
(* The alert job of the worker: runs of several workers find the breaches   *)
(* of each rule (evaluate-alerts.ts), open one alert event for each dedupe   *)
(* key, and deliver its mails through a journal of fenced claims (outbox.ts, *)
(* the SQL of V20260729050000).  The web decides requests and changes the    *)
(* approvers meanwhile; failing jobs report through the same outbox.         *)
(***************************************************************************)
EXTENDS Naturals, Sequences, FiniteSets

CONSTANTS
  Workers,     \* processes that run the alert job or report a failing job
  Subjects,    \* requests, invitations, pools, accounts that rules are about
  KindsSeen,   \* the kinds of rule these subjects can fall under
  Approvers,   \* users who may be approvers of the company
  MaxChanges,  \* bound: changes of conditions and of approvers
  MaxWindow,   \* bound: quarter-hour windows
  MaxFaults    \* bound: crashes, overruns, failing mails and statements

\* "aging": a request pending approval.  "invite": an unaccepted invitation.
\* "once": a blocked request or a missed close.  "window": pools, credentials,
\* failures, stale data.  "failure": a failing job, reported as it happens.
Kinds  == {"aging", "invite", "once", "window", "failure"}
Stages == {"reminder", "escalation", "alert"}

ASSUME AlertAssumption ==
  /\ KindsSeen \subseteq Kinds /\ IsFiniteSet(Workers)
  /\ MaxChanges \in Nat /\ MaxWindow \in Nat /\ MaxFaults \in Nat

VARIABLES
  kind,        \* the kind of rule each subject falls under; it never changes
  cond,        \* each subject's condition: whether it holds, which breach, how old
  approvers,   \* the active approvers of the company today
  window,      \* the current quarter hour
  events,      \* alert_event: the dedupe key, and the breach it was fired for
  streams,     \* the pending rows of alert_notification_delivery
  journal,     \* its claims and their ends, for each stream, by attempt
  run,         \* what each worker is doing
  mails,       \* history: mails sent for each stream
  unrecorded,  \* history: of these, how many have no success behind them
  changes, faults

world == <<kind, cond, approvers, window>>
vars  == <<world, events, streams, journal, run, mails, unrecorded, changes, faults>>

Marks      == 0..(IF MaxChanges > MaxWindow THEN MaxChanges ELSE MaxWindow)
Keys       == {k \in [of : Subjects, mark : Marks, stage : Stages] :
                 k.stage # "alert" => k.mark = 0}
Recipients == Approvers \cup {"escalation", "default"}
Streams    == {x \in Keys \X Recipients :
                 CASE x[1].stage = "reminder"   -> x[2] \in Approvers
                   [] x[1].stage = "escalation" -> x[2] = "escalation"
                   [] x[1].stage = "alert"      -> x[2] = "default"}
Items      == [key : Keys, gen : 0..MaxChanges, to : SUBSET Recipients]

NoItem == [key |-> [of |-> "none", mark |-> 0, stage |-> "none"], gen |-> 0, to |-> {}]
Idle   == [pc |-> "idle", stale |-> FALSE, todo |-> {}, item |-> NoItem,
           rest |-> {}, rcpt |-> "none", attempt |-> 0, valid |-> {}]

Claims == [live : BOOLEAN, end : {"open", "failed", "succeeded"}]
Runs   == [pc : {"idle", "next", "claim", "check", "send", "record"}, stale : BOOLEAN,
           todo : SUBSET Items, item : {NoItem} \cup Items, rest : SUBSET Recipients,
           rcpt : {"none"} \cup Recipients, attempt : Nat,
           valid : SUBSET {"recipient", "breach"}]

TypeOK ==
  /\ kind \in [Subjects -> KindsSeen]
  /\ cond \in [Subjects -> [on : BOOLEAN, gen : 0..MaxChanges, age : 0..2]]
  /\ approvers \subseteq Approvers /\ window \in 0..MaxWindow
  /\ events \subseteq [key : Keys, gen : 0..MaxChanges] /\ streams \subseteq Streams
  /\ journal \in [Streams -> Seq(Claims)] /\ run \in [Workers -> Runs]
  /\ mails \in [Streams -> Nat] /\ unrecorded \in [Streams -> Nat]
  /\ changes \in 0..MaxChanges /\ faults \in 0..MaxFaults

-------------------------------------------------------------------------------
(* What a run reads *)

Stream(w)       == <<run[w].item.key, run[w].rcpt>>
Current(s, gen) == cond[s].on /\ cond[s].gen = gen
Breached(s)     == cond[s].on /\ cond[s].age >= 1

\* The stages a subject has reached; only approvals have two.
StagesOf(s) ==
  IF kind[s] # "aging" THEN {"alert"}
  ELSE {"reminder"} \cup (IF cond[s].age = 2 THEN {"escalation"} ELSE {})

\* What makes two breaches of a subject different events: the start of the
\* pending state, the invitation, the quarter hour, or nothing at all.
Mark(s, win) ==
  CASE kind[s] \in {"aging", "invite"}   -> cond[s].gen
    [] kind[s] \in {"window", "failure"} -> win
    [] kind[s] = "once"                  -> 0

RecipientsOf(s, stage) ==
  CASE stage = "reminder"   -> approvers
    [] stage = "escalation" -> {"escalation"}
    [] stage = "alert"      -> {"default"}

ItemsOf(s, win) ==
  {[key |-> [of |-> s, mark |-> Mark(s, win), stage |-> g], gen |-> cond[s].gen,
    to |-> RecipientsOf(s, g)] : g \in StagesOf(s)}

\* Mutant: a delivery that succeeded is claimed again.
SucceededNever(x) == FALSE

Succeeded(x) == \E n \in DOMAIN journal[x] : journal[x][n].end = "succeeded"

\* Mutant: the claim of a dead run is respected for ever.
LiveForever(w, x) == \E n \in DOMAIN journal[x] : journal[x][n].end = "open"

\* A claim is live until its lease ends; a retried job compares the lease with
\* the time of its first try, to which an ended lease is still live.
Live(w, x) ==
  \E n \in DOMAIN journal[x] :
    journal[x][n].end = "open" /\ (journal[x][n].live \/ run[w].stale)

\* Only the latest attempt is completed, once, by the run that made it.
Fence(w) ==
  LET claims == journal[Stream(w)] IN
  claims[Len(claims)].end = "open" /\ Len(claims) = run[w].attempt

-------------------------------------------------------------------------------
(* One rule of one run *)

Set(w, r) == run' = [run EXCEPT ![w] = r]
Stop(w)   == Set(w, Idle)

\* The conditions that hold for the rule of a kind, with the approvers of today.
\* The job is retried with its old time only after something failed.
Scan(w, k, stale) ==
  /\ run[w].pc = "idle" /\ k # "failure"
  /\ stale => faults > 0
  /\ \E s \in Subjects : kind[s] = k /\ Breached(s)
  /\ \E win \in IF stale /\ window > 0 THEN {window - 1} ELSE {window} :
       Set(w, [Idle EXCEPT !.pc = "next", !.stale = stale, !.todo =
         UNION {ItemsOf(s, win) : s \in {t \in Subjects : kind[t] = k /\ Breached(t)}}])
  /\ UNCHANGED <<world, events, streams, journal, mails, unrecorded, changes, faults>>

\* A job that failed reports it under the bucket of the time.
Report(w, s) ==
  /\ run[w].pc = "idle" /\ kind[s] = "failure" /\ Breached(s)
  /\ Set(w, [Idle EXCEPT !.pc = "next", !.todo = ItemsOf(s, window)])
  /\ UNCHANGED <<world, events, streams, journal, mails, unrecorded, changes, faults>>

\* Mutant: an invitation is alerted as it was scanned.
StillDueAlways(it) == TRUE

\* An invitation is read again under the locks of its action and its request.
StillDue(it) ==
  kind[it.key.of] = "invite" => Current(it.key.of, it.gen) /\ Breached(it.key.of)

\* The next breach: its event and pending deliveries are inserted, or found.
Open(w) ==
  /\ run[w].pc = "next"
  /\ \/ /\ run[w].todo = {} /\ Stop(w) /\ UNCHANGED <<events, streams>>
     \/ \E it \in run[w].todo :
          LET left == run[w].todo \ {it} IN
          \/ /\ ~StillDue(it) /\ Set(w, [run[w] EXCEPT !.todo = left])
             /\ UNCHANGED <<events, streams>>
          \/ /\ StillDue(it)
             /\ IF \E e \in events : e.key = it.key
                  THEN UNCHANGED <<events, streams>>
                  ELSE /\ events' = events \cup {[key |-> it.key, gen |-> it.gen]}
                       /\ streams' = streams \cup ({it.key} \X it.to)
             /\ Set(w, [run[w] EXCEPT !.pc = "claim", !.todo = left, !.item = it,
                  !.rest = {r \in Recipients : <<it.key, r>> \in streams'}])
  /\ UNCHANGED <<world, journal, mails, unrecorded, changes, faults>>

\* What is true of the delivery at this moment, for the properties.
Truths(it, r) == (IF r \in approvers \cup {"escalation", "default"} THEN {"recipient"} ELSE {})
                 \cup (IF Current(it.key.of, it.gen) THEN {"breach"} ELSE {})

FirstCheck(it) ==
  IF it.key.stage = "alert" THEN "send" ELSE "check"

\* The next recipient: skipped if served; a live claim of another run ends the
\* rule, and the report of a failing job; otherwise a new attempt is claimed.
Claim(w) ==
  /\ run[w].pc = "claim"
  /\ \/ /\ run[w].rest = {}
        /\ Set(w, [Idle EXCEPT !.pc = "next", !.stale = run[w].stale, !.todo = run[w].todo])
        /\ UNCHANGED journal
     \/ \E r \in run[w].rest :
          LET x    == <<run[w].item.key, r>>
              left == run[w].rest \ {r} IN
          \/ /\ Succeeded(x) /\ Set(w, [run[w] EXCEPT !.rest = left])
             /\ UNCHANGED journal
          \/ /\ ~Succeeded(x) /\ Live(w, x) /\ Stop(w) /\ UNCHANGED journal
          \/ /\ ~Succeeded(x) /\ ~Live(w, x)
             /\ journal' = [journal EXCEPT ![x] = Append(@, [live |-> TRUE, end |-> "open"])]
             /\ Set(w, [run[w] EXCEPT !.pc = FirstCheck(run[w].item), !.rest = left,
                  !.rcpt = r, !.valid = Truths(run[w].item, r),
                  !.attempt = Len(journal'[x])])
  /\ UNCHANGED <<world, events, streams, mails, unrecorded, changes, faults>>

End(w, end) ==
  journal' = IF ~Fence(w) THEN journal
             ELSE [journal EXCEPT ![Stream(w)][run[w].attempt].end = end]

Served(w) == [run[w] EXCEPT !.pc = "claim", !.rcpt = "none", !.attempt = 0, !.valid = {}]

\* A delivery that is no longer due is closed as a success, without a mail; a
\* refused completion ends the rule.
Suppress(w) ==
  /\ End(w, "succeeded")
  /\ IF Fence(w) THEN Set(w, Served(w)) ELSE Stop(w)

Proceed(w, pc) ==
  /\ Set(w, [run[w] EXCEPT !.pc = pc,
                           !.valid = @ \cup Truths(run[w].item, run[w].rcpt)])
  /\ UNCHANGED journal

\* Mutant: the recipient is mailed as the event names him.
StillDueAsQueued(w) == Current(run[w].item.key.of, run[w].item.gen)

\* The grant of an approver and the state of the request are read again.
StillWanted(w) ==
  /\ run[w].item.key.stage = "reminder" => run[w].rcpt \in approvers
  /\ Current(run[w].item.key.of, run[w].item.gen)

Check(w) ==
  /\ run[w].pc = "check"
  /\ IF StillWanted(w) THEN Proceed(w, "send") ELSE Suppress(w)
  /\ UNCHANGED <<world, events, streams, mails, unrecorded, changes, faults>>

\* The mail goes out, or is refused: the failure is recorded and ends the rule.
Send(w) ==
  /\ run[w].pc = "send"
  /\ \/ /\ mails' = [mails EXCEPT ![Stream(w)] = @ + 1]
        /\ Set(w, [run[w] EXCEPT !.pc = "record"]) /\ UNCHANGED <<journal, faults>>
     \/ /\ faults < MaxFaults /\ faults' = faults + 1
        /\ End(w, "failed") /\ Stop(w) /\ UNCHANGED mails
  /\ UNCHANGED <<world, events, streams, unrecorded, changes>>

\* The success is recorded; if the statement fails, a failure is recorded in its
\* place; behind a later attempt neither is accepted.
Record(w) ==
  /\ run[w].pc = "record"
  /\ LET lost == unrecorded' = [unrecorded EXCEPT ![Stream(w)] = @ + 1] IN
     \/ /\ Fence(w) /\ End(w, "succeeded") /\ Set(w, Served(w))
        /\ UNCHANGED <<unrecorded, faults>>
     \/ /\ Fence(w) /\ faults < MaxFaults /\ faults' = faults + 1
        /\ End(w, "failed") /\ Stop(w) /\ lost
     \/ /\ ~Fence(w) /\ Stop(w) /\ lost /\ UNCHANGED <<journal, faults>>
  /\ UNCHANGED <<world, events, streams, mails, changes>>

Crash(w) ==
  /\ run[w].pc # "idle" /\ faults < MaxFaults /\ faults' = faults + 1
  /\ Stop(w)
  /\ unrecorded' = IF run[w].pc = "record"
                     THEN [unrecorded EXCEPT ![Stream(w)] = @ + 1] ELSE unrecorded
  /\ UNCHANGED <<world, events, streams, journal, mails, changes>>

Holds(w, x) ==
  run[w].pc \in {"check", "send", "record"} /\ Stream(w) = x
    /\ run[w].attempt = Len(journal[x])

\* Five minutes pass after a claim; its run may be dead, or still at it.
LeaseEnds(x) ==
  /\ journal[x] # <<>>
  /\ LET n == Len(journal[x]) IN
     /\ journal[x][n].live /\ journal[x][n].end = "open"
     /\ journal' = [journal EXCEPT ![x][n].live = FALSE]
  /\ faults' = IF \E w \in Workers : Holds(w, x) THEN faults + 1 ELSE faults
  /\ faults' <= MaxFaults
  /\ UNCHANGED <<world, events, streams, run, mails, unrecorded, changes>>

-------------------------------------------------------------------------------
(* The world *)

Others == UNCHANGED <<events, streams, journal, run, mails, unrecorded, faults>>

\* A condition grows older; only approvals have a second threshold.
Age(s) ==
  /\ cond[s].on /\ cond[s].age < IF kind[s] = "aging" THEN 2 ELSE 1
  /\ cond' = [cond EXCEPT ![s].age = @ + 1]
  /\ UNCHANGED <<kind, approvers, window, changes>> /\ Others

\* It ends, or begins again; a request is pending approval once in its life.
Change(s) ==
  /\ changes < MaxChanges /\ changes' = changes + 1
  /\ \/ cond[s].on /\ cond' = [cond EXCEPT ![s].on = FALSE]
     \/ /\ ~cond[s].on /\ kind[s] # "aging"
        /\ cond' = [cond EXCEPT ![s] = [on |-> TRUE, gen |-> @.gen + 1, age |-> 0]]
  /\ UNCHANGED <<kind, approvers, window>> /\ Others

ChangeApprovers ==
  /\ changes < MaxChanges /\ changes' = changes + 1
  /\ approvers' \in SUBSET Approvers /\ approvers' # approvers
  /\ UNCHANGED <<kind, cond, window>> /\ Others

NextWindow ==
  /\ window < MaxWindow /\ window' = window + 1
  /\ \E s \in Subjects : kind[s] \in {"window", "failure"}  \* it tells nothing else apart
  /\ UNCHANGED <<kind, cond, approvers, changes>> /\ Others

-------------------------------------------------------------------------------

Init ==
  /\ kind \in [Subjects -> KindsSeen]
  /\ cond = [s \in Subjects |-> [on |-> TRUE, gen |-> 0, age |-> 0]]
  /\ approvers = Approvers /\ window = 0
  /\ events = {} /\ streams = {}
  /\ journal = [x \in Streams |-> <<>>]
  /\ run = [w \in Workers |-> Idle]
  /\ mails = [x \in Streams |-> 0] /\ unrecorded = [x \in Streams |-> 0]
  /\ changes = 0 /\ faults = 0

Work(w) ==
  Open(w) \/ Claim(w) \/ Check(w) \/ Send(w) \/ Record(w)

Next ==
  \/ \E w \in Workers :
       \/ Work(w) \/ Crash(w)
       \/ \E k \in Kinds, stale \in BOOLEAN : Scan(w, k, stale)
       \/ \E s \in Subjects : Report(w, s)
  \/ \E x \in Streams : LeaseEnds(x)
  \/ \E s \in Subjects : Age(s) \/ Change(s)
  \/ ChangeApprovers \/ NextWindow

Spec == Init /\ [][Next]_vars

\* Runs end, leases end, and a first try of the job comes every quarter hour.
Fairness ==
  /\ \A w \in Workers : WF_vars(Work(w))
  /\ \A x \in Streams : WF_vars(LeaseEnds(x) /\ faults' = faults)
  /\ \A s \in Subjects : SF_vars(\E w \in Workers : Scan(w, kind[s], FALSE))

FairSpec == Spec /\ Fairness

-------------------------------------------------------------------------------

\* A recipient gets the mail of one event twice only where a fault kept the
\* sending from being recorded (evaluate-alerts.ts:495): one more for each.
DuplicatesExplained ==
  \A x \in Streams :
    mails[x] <= 1 + unrecorded[x]
      + Cardinality({w \in Workers : run[w].pc = "record" /\ Stream(w) = x /\ ~Fence(w)})

\* A reminder goes to someone who was an approver, and about a request that was
\* pending, at a moment after its delivery was claimed: what the run found when
\* it scanned, and what the event names, are not trusted (evaluate-alerts.ts:434).
RemindersJustified ==
  \A w \in Workers :
    run[w].pc = "record" /\ kind[run[w].item.key.of] = "aging" =>
      run[w].valid = {"recipient", "breach"}

\* The event of an invitation is fired while that very invitation is overdue and
\* unaccepted, however long ago the run scanned it (evaluate-alerts.ts:987).
InvitationsDueWhenFired ==
  [][\A e \in events' \ events : kind[e.key.of] = "invite" =>
       Breached(e.key.of) /\ Current(e.key.of, e.key.mark)]_vars

\* What an opened event promises is delivered to everyone it was opened for, or
\* the condition ends: a failed mail is taken up by the runs after it.
Outstanding ==
  {x \in streams : kind[x[1].of] \in {"aging", "invite", "once"}
                     /\ cond[x[1].of].on /\ ~Succeeded(x)}

AlertsDelivered == []<>(Outstanding = {})
=================================================================================
