----------------------------- MODULE ConnectorCalls -----------------------------
(***************************************************************************)
(* The calls of the worker to a provider (request.ts, rate-limiter.ts): each *)
(* attempt is announced in the observation log, waits for the budgets of its *)
(* endpoint, is sent, and its answer is noted; some answers are tried again. *)
(* Time is kept as ages, so that the module needs no bound on the clock.     *)
(***************************************************************************)
EXTENDS Naturals, Sequences, FiniteSets, SequencesExt, FiniteSetsExt

CONSTANTS
  Callers,    \* operations that may call the provider at the same time
  Limiters,   \* the limiters; every run of a job makes one for itself
  LimiterOf,  \* the limiter each caller was given
  Endpoints,  \* the endpoints called
  Limit,      \* BUDGET_WINDOWS: calls in a window, for each budget
  Window,     \* and its length
  Attempts    \* how often a request is sent at most (3)

Budgets  == {"user_management", "analytics", "invite_create"}

ASSUME CallAssumption ==
  /\ LimiterOf \in [Callers -> Limiters]
  /\ Endpoints \subseteq {"members", "analytics_users", "create_invite"}
  /\ Limit \in [Budgets -> Nat \ {0}] /\ Window \in [Budgets -> Nat \ {0}]
  /\ Attempts \in Nat \ {0}

VARIABLES
  call,    \* what each caller is doing
  stamps,  \* each limiter's timestamps by budget, oldest first, as ages
  tail,    \* the acquisitions of each limiter, in the order of their arrival
  rows,    \* connector_call_observation: what is on record of each caller's operation
  grants   \* history: what each limiter granted in each window, as ages

vars == <<call, stamps, tail, rows, grants>>

\* endpoints.ts: what an endpoint costs, and whether it may be sent again.
BudgetsOf(e) ==
  CASE e = "members"         -> {"user_management"}
    [] e = "analytics_users" -> {"analytics"}
    [] e = "create_invite"   -> {"user_management", "invite_create"}

RetrySafe(e) == e # "create_invite"

Classes == {"success", "rate_limited", "provider_error", "client_error", "transport_ambiguous"}

NoCall == [pc |-> "idle", endpoint |-> "none", attempt |-> 0, wait |-> 0, answers |-> <<>>]
NoRows == [requested |-> 0, ended |-> 0]

Longest == Max({Window[b] : b \in Budgets})

Calls == [pc : {"idle", "queued", "sleeping", "sent", "resting"},
          endpoint : Endpoints \cup {"none"}, attempt : 0..Attempts, wait : 0..Longest,
          answers : Seq(Classes)]

TypeOK ==
  /\ call \in [Callers -> Calls]
  /\ stamps \in [Limiters -> [Budgets -> Seq(Nat)]]
  /\ \A l \in Limiters, b \in Budgets : Len(stamps[l][b]) <= Limit[b]
  /\ tail \in [Limiters -> Seq(Callers)]
  /\ \A l \in Limiters : IsInjective(tail[l]) /\ ToSet(tail[l]) =
       {c \in Callers : LimiterOf[c] = l /\ call[c].pc \in {"queued", "sleeping"}}
  /\ rows \in [Callers -> [requested : 0..Attempts, ended : 0..Attempts]]
  /\ \A c \in Callers : rows[c].ended <= rows[c].requested
  /\ grants \in [Limiters -> [Budgets -> Seq(Nat)]]

-------------------------------------------------------------------------------

Set(c, r) == call' = [call EXCEPT ![c] = r]

\* The operation returns, or throws; what it left on record no longer concerns it.
End(c) ==
  /\ Set(c, NoCall)
  /\ rows' = [rows EXCEPT ![c] = NoRows]

\* The attempt is put on record before anything is sent, and takes its place in
\* the row; if the record fails the operation throws.
Announce(c, next) ==
  \/ /\ Set(c, [next EXCEPT !.pc = "queued"])
     /\ rows' = [rows EXCEPT ![c].requested = @ + 1]
     /\ tail' = [tail EXCEPT ![LimiterOf[c]] = Append(@, c)]
  \/ End(c) /\ UNCHANGED tail

NoStamps == [b \in Budgets |-> <<>>]

\* The ages below w of a sequence that has the oldest first.
Recent(ages, w) ==
  SubSeq(ages, Cardinality({n \in DOMAIN ages : ages[n] >= w}) + 1, Len(ages))

\* Mutant: a timestamp leaves its window one moment early.
ActiveEarly(l, b) == Recent(stamps[l][b], Window[b] - 1)

\* The timestamps of a budget that are still in its window.
Active(l, b) == Recent(stamps[l][b], Window[b])

Full(l, b) == Len(Active(l, b)) >= Limit[b]

\* How long the budgets of an endpoint make it wait: until the oldest timestamp
\* of every full window has left it.
Wait(l, e) ==
  Max({0} \cup {Window[b] - Active(l, b)[1] : b \in {x \in BudgetsOf(e) : Full(l, x)}})

\* Acquisitions of one account are granted in the order of their arrival.
Turn(c) == Head(tail[LimiterOf[c]]) = c

-------------------------------------------------------------------------------

Start(c, e) ==
  /\ call[c].pc = "idle"
  /\ Announce(c, [NoCall EXCEPT !.endpoint = e, !.attempt = 1])
  /\ UNCHANGED <<stamps, grants>>

\* The first in the row takes all its budgets at once and is sent, or sleeps and
\* looks again.
Acquire(c) ==
  /\ call[c].pc = "queued" /\ Turn(c)
  /\ LET l      == LimiterOf[c]
         needs  == BudgetsOf(call[c].endpoint)
         pruned == [b \in Budgets |-> IF b \in needs THEN Active(l, b) ELSE stamps[l][b]]
         charge(f) == [b \in Budgets |-> IF b \in needs THEN Append(f[b], 0) ELSE f[b]]
         wait   == Wait(l, call[c].endpoint) IN
     \/ /\ wait > 0
        /\ Set(c, [call[c] EXCEPT !.pc = "sleeping", !.wait = wait])
        /\ stamps' = [stamps EXCEPT ![l] = pruned]
        /\ UNCHANGED <<tail, grants>>
     \/ /\ wait = 0
        /\ Set(c, [call[c] EXCEPT !.pc = "sent"])
        /\ stamps' = [stamps EXCEPT ![l] = charge(pruned)]
        /\ tail' = [tail EXCEPT ![l] = Tail(@)]
        /\ grants' = [grants EXCEPT ![l] = charge(@)]
  /\ UNCHANGED rows

Wake(c) ==
  /\ call[c].pc = "sleeping" /\ call[c].wait = 0
  /\ Set(c, [call[c] EXCEPT !.pc = "queued"])
  /\ UNCHANGED <<stamps, tail, rows, grants>>

TryAgain(c) ==
  /\ call[c].pc = "resting" /\ call[c].wait = 0
  /\ Announce(c, [call[c] EXCEPT !.attempt = @ + 1])
  /\ UNCHANGED <<stamps, grants>>

\* Mutant: whatever failed is sent again.
RetryableAlways(e, class) == class # "success"

Retryable(e, class) ==
  RetrySafe(e) /\ class \in {"rate_limited", "provider_error", "transport_ambiguous"}

\* The transport throws, or answers: the answer is put on record, and the request
\* rests before another attempt, or the operation ends.
Answer(c) ==
  /\ call[c].pc = "sent"
  /\ \E class \in Classes :
       IF class # "transport_ambiguous" /\ Retryable(call[c].endpoint, class)
            /\ call[c].attempt < Attempts
         THEN \/ /\ Set(c, [call[c] EXCEPT !.pc = "resting", !.wait = 1,
                                           !.answers = Append(@, class)])
                 /\ rows' = [rows EXCEPT ![c].ended = @ + 1]
              \/ End(c)
         ELSE End(c)
  /\ UNCHANGED <<stamps, tail, grants>>

\* The run of a job ends, or dies with its operations; the next one has a new
\* limiter, which knows nothing of the calls before it.
NewRun(l) ==
  /\ stamps[l] # NoStamps \/ tail[l] # <<>>
  /\ call' = [c \in Callers |-> IF LimiterOf[c] = l THEN NoCall ELSE call[c]]
  /\ rows' = [c \in Callers |-> IF LimiterOf[c] = l THEN NoRows ELSE rows[c]]
  /\ stamps' = [stamps EXCEPT ![l] = NoStamps]
  /\ tail' = [tail EXCEPT ![l] = <<>>]
  /\ grants' = [grants EXCEPT ![l] = NoStamps]

\* A moment passes: everything is older, up to the end of its window, after which
\* it never counts again; sleepers have less to wait.
Tick ==
  /\ stamps' = [l \in Limiters |-> [b \in Budgets |->
       [n \in DOMAIN stamps[l][b] |->
          IF stamps[l][b][n] < Window[b] THEN stamps[l][b][n] + 1 ELSE Window[b]]]]
  /\ grants' = [l \in Limiters |-> [b \in Budgets |->
       Recent([n \in DOMAIN grants[l][b] |-> grants[l][b][n] + 1], Window[b])]]
  /\ call' = [c \in Callers |-> [call[c] EXCEPT !.wait = IF @ > 0 THEN @ - 1 ELSE 0]]
  /\ UNCHANGED <<tail, rows>>

-------------------------------------------------------------------------------

Init ==
  /\ call = [c \in Callers |-> NoCall]
  /\ stamps = [l \in Limiters |-> NoStamps]
  /\ tail = [l \in Limiters |-> <<>>]
  /\ rows = [c \in Callers |-> NoRows]
  /\ grants = [l \in Limiters |-> NoStamps]

Step(c) == Acquire(c) \/ Wake(c) \/ TryAgain(c) \/ Answer(c)

Next ==
  \/ \E c \in Callers : Step(c) \/ \E e \in Endpoints : Start(c, e)
  \/ \E l \in Limiters : NewRun(l)
  \/ Tick

Spec == Init /\ [][Next]_vars

-------------------------------------------------------------------------------

\* A limiter grants no more than the limit of a budget in any window, whatever
\* mix of endpoints, waits and retries asks for it (rate-limiter.ts:79).
GrantsWithinBudget ==
  \A l \in Limiters, b \in Budgets : Len(grants[l][b]) <= Limit[b]

\* What may have had its effect at the provider is never sent again: an
\* invitation after any answer or none, a read after anything but a refusal that
\* is on record (request.ts:454).
NeverSentBlind ==
  \A c \in Callers :
    LET n == Len(call[c].answers) IN
    call[c].pc \in {"queued", "sleeping", "sent"} /\ n > 0 =>
      /\ call[c].endpoint # "create_invite"
      /\ ToSet(call[c].answers) \subseteq {"rate_limited", "provider_error"}
      /\ rows[c].ended = n
=================================================================================
