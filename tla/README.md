# Ledger: TLA+ models of its transactions, jobs and provider protocols

Ledger (repository `opensmp`) is where a group of companies requests, approves,
provisions, bills and releases software licences. Its hard part is a shared,
finite resource, the seats of a *capacity pool* (one vendor account and one
licence type), handled by web transactions, scheduled jobs, vendor APIs and mail
that meet only in one database. This directory models those protocols, checks
them with TLC, and proves with TLAPS the safety of the pool, its recovery job, the
invitations, the job runtime, the two outboxes of mail, the moves, the rate limiter
and the migrations.

Paths below are relative to `src/`; `web/` stands for `apps/web/src/modules/`,
`worker/` for `apps/worker/src/`, `db/` for `packages/db/src/`, `domain/` for
`packages/domain/src/`, `infra/` for `infra/` itself.

## 1. The system

A Next.js application (`apps/web`) serves the users, a pg-boss worker
(`apps/worker`) runs scheduled jobs, and both meet in one PostgreSQL database
(`packages/db`), at READ COMMITTED. Nothing is shared in memory between
processes: **every interaction is a row, a row lock, an advisory lock or a
unique index**. The worker alone calls vendor APIs (`packages/connectors`) and
sends mail (`packages/notifications`); the web calls the identity provider.
Shell scripts (`infra/`) back the database up, restore it and migrate it.

| Component | State it keeps | Operations | What makes it correct | Model |
|---|---|---|---|---|
| Request lifecycle (`domain/request-workflow/lifecycle.ts`, `db/request-transition.ts`, `web/request-workflow/transition-core.ts`) | `license_request.state`, `request_transition` | one transition per step | only legal moves (BR-04) | `RequestLifecycle` |
| Seat pool (`web/request-workflow/orchestration.ts`, `approval/repository.ts`, `provisioning-service.ts`, `db/provisioning-routing.ts`) | requests, `provisioning_action`, `license_assignment` | approve, reject, route, block, confirm or fail a checklist, retry | states, reservations and seats agree; the pool is not over-committed | `SeatPool` |
| Capacity (`web/vendor-catalog/capacity-service.ts`) | `vendor_account_capacity`, `capacity_recovery_work` | change capacity | the row and its recovery work commit together | `SeatPool` |
| Capacity recovery (`worker/jobs/capacity-recovery.ts`) | leases on the work rows | claim, recover, complete, fail | no over-commitment, no overtaking, no seat left idle, due work completes | `CapacityRecovery` |
| Offboarding (`web/org-registry/repository.ts`, `lifecycle.ts`) | removal action, end of the seat | start, complete | a seat ends once, after it started | `SeatPool`, `Moves` |
| Moves between companies and accounts (`web/org-registry/repository.ts`, `web/vendor-catalog/cross-org-move.ts`) | person's company, seats of two pools | move a person, move a seat | one seat per holder, pool and day; both pools fit; a move ends | `Moves` |
| Invitations: delivery, membership poll, withdrawal, expiry (`worker/jobs/automated-invite-delivery.ts`, `membership-poll.ts`, `automatic-invitation-expiry.ts`, `db/invitation-withdrawal.ts`) | actions, observations of provider calls, intents, receipts, checkpoints | send once, activate, withdraw | ledger and provider agree; no call is repeated | `InviteProtocol`, `InvitationContract` |
| Lifecycle mail (`packages/notifications/src/lifecycle-dispatcher.ts`, `worker/lifecycle-notification-drain.ts`) | append-only delivery journal, claims with leases | enqueue, scan, claim, send, record | repeats only after a fault, attempts bounded, every mail settles | `LifecycleNotifications` |
| Alerts and their outbox (`worker/alerts/`, `packages/notifications/src/outbox.ts`) | `alert_event` with dedupe keys, the journal of each recipient | evaluate, open, claim, check, send, record | one event per breach and stage; reminders only while justified; open events are delivered | `AlertEvaluation` |
| Job runtime (`worker/runtime.ts`, `idempotency.ts`) | `worker_job_execution`, pg-boss rows | fetch, run, record, retry, expire | a finished job is not run again; one run at a time; jobs end | `JobExecution` |
| Connectors and limiter (`packages/connectors/src/providers/anthropic/`) | timestamps per budget, observation rows | announce, acquire, send, classify, retry | no window over its limit; nothing ambiguous is sent twice | `ConnectorCalls` |
| Identity-provider operations (`web/identity-access/`) | `identity_provider_operation` with leases | create, disable, reset, undo, clean up, recover | provider and ledger agree in the end, no user is left behind | `IdentityOperations` |
| Monthly close and reconciliation (`web/close/`, `db/license-close.ts`, `domain/close/`) | statements, lines, rates, `close_run`, reconciliation | run, finalise, edit rates, reconcile | final statements stand, every day is charged once and exactly | `MonthlyClose` |
| Usage and inactivity (`worker/jobs/analytics-activity.ts`, `db/analytics-ingestion.ts`, `db/inactivity-flagging.ts`) | `activity_record`, `flagged_inactive` | ask, route, upsert; flag and unflag | flags rest on evidence that stands; newer answers win | `Usage` |
| Backup and guarded restore (`infra/scripts/`, `infra/postgres/`) | files of a backup, the restore role, the restored database | back up, stage, open, restore, close | a backup is whole; authority is closed and not shared | `BackupRestore` |
| Migrations (`packages/db/scripts/apply-migrations.mjs`) | `ledger_schema_migrations` | compare, apply | the history is a prefix of a release | `SchemaMigrations` |
| Register backfill, imports, go-live, authorization, audit, pages, contracts, UI, checking scripts | - | - | - | see *Not modelled* |

How the parts interact:

- **Approval** reads the clock, opens a transaction, takes the advisory lock of
  the pool, re-reads the request under a row lock, counts the pool *as of the
  clock reading*, and in the same transaction either inserts a pending
  provisioning action or blocks the request.
- A **checklist** is confirmed (under the pool lock, counting again) or marked not
  done. An **invitation** is sent by the worker: the job announces the call in
  the observation log, calls, notes the answer and finalises the action, each in a
  commit of its own; the membership poll turns an accepted one into a seat, a
  user or the expiry job withdraws a pending one.
- **Changing the capacity** writes a capacity row and a row of recovery work. The
  **recovery job** claims due work under a lease and resumes the oldest blocked
  requests. A **move** closes seats and opens others in the same transaction.
- Transitions and alert rules enqueue **mail**; dispatchers claim it under
  leases. The **close** reads the register that all of these leave. **Analytics**
  writes what vendors report of the seats, and the **flagging job** moves requests
  between active and flagged_inactive.

What is hard here: commands read the clock before they wait for a lock and count
rows by creation time; several kinds of processes touch one request; jobs are
retried with their original time; workers die between a provider call and its
record; leases run out under living runs; locks live on connections that can be
lost; and a blocked request depends on somebody else's step to be woken.
`PROJECT.json` lists the hazards at their lines.

## 2. The modules

| Module | What it is |
|---|---|
| `RequestLifecycle` | abstract specification: a state per request, moved along `REQUEST_TRANSITIONS`; implemented by `SeatPool` |
| `SeatPool` | one pool and every transaction on it |
| `CapacityRecovery` | extends `SeatPool` with the recovery job: runs, leases, faults |
| `InvitationContract` | abstract specification: what the ledger may say while the provider holds an invitation |
| `InviteProtocol` | the automated invitation of one request; implements `InvitationContract` |
| `Moves` | seats of several persons on several pools: company moves, account moves, offboardings |
| `MonthlyClose` | the close of one month, with the computation of the lines in cents |
| `JobExecution` | pg-boss, the execution row, and the handler between them |
| `AlertEvaluation` | the alert job and its outbox |
| `LifecycleNotifications` | the outbox of lifecycle mail and its dispatchers |
| `ConnectorCalls` | requests to a vendor behind the sliding-window limiter |
| `IdentityOperations` | users at the identity provider and in the ledger |
| `Usage` | reports of use and the inactivity flag |
| `BackupRestore` | backups, staging, the restore window and the restore |
| `SchemaMigrations` | runners of several releases over one history |
| `MCCapacityRecovery`, `MCJobs`, `MCInviteProtocol`, `MCNotifications`, `MCProviderCalls`, `MCMoves`, `MCRegister` | instances for TLC |
| `SeatPoolProofs` | theorems about `SeatPool` |
| `CapacityRecoveryProofs` | theorems about `CapacityRecovery` and its scenarios, on top of those |
| `InviteProtocolProofs`, `JobExecutionProofs`, `AlertEvaluationProofs`, `LifecycleNotificationsProofs` | theorems about the module of that name |
| `RegisterProofs` | theorems about `Moves`, with the history `MCMoves` keeps of it, and about `MonthlyClose` |
| `ProviderCallsProofs` | theorems about `ConnectorCalls`, `SchemaMigrations`, `BackupRestore`, `IdentityOperations` and `Usage` |

Modules that share no state are checked side by side: an MC module extends them
(`MCJobs` instantiates `CapacityRecovery`, to name its constants anew) and has a variable `part` (or `scenario`, for several
instances of one module) that says which of them a behaviour is about; the
variables of the others keep their initial value. The state spaces add and do not
multiply.

### The pool

**State of `SeatPool`.** `request` is `license_request.state`; `action[r][k]` the
k-th provisioning action of request r, with `status`, `kind`, `created_at` and
the failure reason that decides whether it may be retried; `assignment[r]` the
seat row of the request; `capacity` the pool's capacity rows; `work` the
recovery work, one row per capacity row (both are unique per effective date, so
`work` is indexed by day); `now` the clock; `session[s]` what an open web
transaction has read so far; `poolLock` the holder of the advisory lock and the
request rows it has locked.

**Transactions under the pool lock** are three steps. `Begin` reads the clock;
`Evaluate` takes the lock, re-reads the rows and counts the pool; a `Commit...`
writes everything and releases the lock. Between them, any other transaction
may step, also `Rollback`, which stands for a failing statement, a dead process
and the explicit `CHECKLIST_CAPACITY_UNAVAILABLE`. `Refuse` is the early return
when the re-read rows no longer allow the command.

| Code | Action |
|---|---|
| `decide` (approve), `routeApprovedRequestInTransaction`, `observeNoSeatInTransaction` | `CommitApproval` |
| `confirmChecklistDone` | `CommitConfirmation` |
| `retryProvisioning` | `CommitRetry` (it does not count the pool, as in the code) |
| `changeCapacity` + `enqueueCapacityRecovery` | `CommitCapacity` |
| `decide` (reject) | `Reject` |
| `markChecklistNotDone` | `MarkChecklistNotDone` |
| `finalize`, `finalizeNoSeat`, `finalizeGenericFailure` of the delivery job | `DeliverInvite`, `RefuseInviteNoSeat`, `FailInvite` |
| `activate` of the membership poll | `ActivateMember` |
| completing transaction of `withdraw` | `WithdrawInvitation` |
| `startOffboarding`, `finalizeOffboarding` | `StartOffboarding`, `CompleteOffboarding` |
| claiming statement, `recover`, completing `UPDATE`, `catch` of the recovery job | `Claim`, `Recover` / `CommitRecovery`, `Complete`, `RecoveryFails` |
| death of a worker, five minutes passing | `CrashWorker`, `ExpireLease` |

The second group of `SeatPool` locks only the rows of the request. Each is one
transaction whose guard is re-read under those locks, so it is one step; it
waits for rows that the holder of the pool lock has locked (`RowFree`).

**Counting.** `FreeSeats(d, at, own)` is the SQL of the availability query:
the quantity of the latest capacity row effective on day d and created by `at`,
minus seats held on d and created by `at`, minus live provision actions created
by `at`. The web commands pass their clock reading (`FreeAsOf`); the recovery
job has no cut-off (`Free`). A confirmation leaves its own reservation out.

**Selecting.** `Recover` selects the oldest blocked requests `FOR UPDATE OF request
SKIP LOCKED` (`capacity-recovery.ts:152`). `held` are those whose rows another
transaction has locked at that moment, any subset of them while a seat is free; they
are passed over (`skipped`), younger ones may be resumed in their place, and the
work is completed all the same.

Abstractions: one pool, one clock, instants mapped monotonely to days (Ecuador
has one offset all year). `approved` is never committed by itself, since approval
and routing share a transaction. Requests start in `pending_approval`, where
`submit` leaves them, numbered by `created_at`. Replays of a command already
carried out are stutters. The planner (`packages/connectors/src/action-planner.ts`)
may choose any kind of action in `Kinds`, within the unique index of one checklist
per request. `FOR UPDATE SKIP LOCKED LIMIT 10` of the claim is one atomic claim
of all due rows. The order of the locks on account rows and pools, which lets
PostgreSQL abort one of two transactions, is only visible as `Rollback`.

### Moves and the close

`Moves` has persons, companies, pools, and requests that may follow one another
(`from`). `MoveCompany` is the branch of `update` that closes every seat of the
person yesterday and opens its successor today, with a request of its own that is
active at once; `MoveAccount` is `move`, which issues a provisioning in the
target pool and a removal of the old seat; a seat that begins on the day of the
move refuses the former.

`confirmChecklistDone` is three steps. `AskConfirmation` reads the clock
(`orchestration.ts:469,479`) and then waits for the lock of the pool (`:497`).
`ReadConfirmation`, or `RefuseConfirmation`, finds the rows as they are by then but
counts only those created up to its clock (`:580,590,602`): every step that inserts
rows of a pool marks them as `Younger` for the confirmations that wait. The person
is not locked, so that `WriteConfirmation` may write for a company the person has
left; the seat begins on the day of the clock. All other transactions lock what they
read and are single steps whose clock is that of the step, except that the count
of `Issue` may miss any rows (`SeatPool` has that race in detail).

A company move takes the date of UTC (`UtcDay`, `org-registry/repository.ts:202-210`),
everything else the operating day of Ecuador. From 19:00 (`Nightfall`) to midnight
(`Midnight`) the old seat still ends today and the successor begins tomorrow, so
that the pool counts a moved seat for neither company. The old request of a company
move stays `active`, as in the code.

`MonthlyClose` has one person's seats of one account. A run (`StartRun`,
`ReadRegister`, `Draw`, `FailRun`, `LoseRun`) holds the lock of the month from its
reading of the register; `Lines` is `computeLicenseClose`: one piece per seat and
rate, with the cumulative rounding that makes the cents of a rate add up.
`Finalize`, `SaveRate`, `SaveInvoice` and `Override` are the other transactions,
`TakeSeat`, `MoveSeat` and `EndSeat` what happens to the register. `eager` says
whether months are closed before they end, which the code allows.

### Invitations

`InviteProtocol` follows one request. `status`, `evidence`, `intent` and
`checkpoint` are rows; `lock` the advisory lock of each action, `proc[p]` what a
worker or administrator is doing, `provider` what the provider holds. Delivery is
`ScanDelivery`, `LockDelivery` (which re-reads), `Announce`, `Post`,
`NoteAnswer`, `Finalize`; the poll `ScanPoll`, `LockPoll`, `FetchPage`,
`Activate`, `SaveCheckpoint`; a withdrawal `Prepare`, `ListInvites`,
`DeleteInvite`, `SaveReceipt`, `CompleteWithdrawal`. `Fail` ends a process at any
point; `LoseLock` takes the connection of the lock away and leaves the process
alive.

A provider may make an invitation and answer with an error (a 5xx). The code records
a failed observation (`packages/connectors/src/providers/anthropic/observation.ts:145-156`),
finalises the action as failed (`automated-invite-delivery.ts:343`) and lets an
administrator try again (`provisioning-service.ts:95-121`); such an invitation is a
`stray`, which the ledger knows nothing of. The contract has them as `strays`
(`GoAstray`, `AnswerStray`) and promises one invitation on record besides them. A
person may become a member by a stray: the poll then activates the request, or a
withdrawal deletes the invitation on record and the ledger says that there is none.

In the refinement, `invitation` is `Standing`, what the provider has made
for the request, with a value no step of the contract reaches if there are two.

### Jobs, alerts and mail

`JobExecution` has the rows of pg-boss, the execution row of each key, and what
each delivery of a job is doing; handlers either do their work or fail.
`AlertEvaluation` has the events (dedupe keys), the streams (recipients of an
event), their journals, and the runs of the alert job, each of which scans, opens
events, claims a stream, checks again, sends and records; reports of failing jobs
use the same steps. Conditions and approvers change meanwhile.

`LifecycleNotifications` is the outbox of mail about requests. `deliveries[n][k]`
gathers the rows of attempt k of notification n (claimed, then succeeded, failed
or suppressed); `over` says that its lease has ended and `rested` that the retry
delay has passed, which is all the code asks of the clock. The clock reading that
the fence compares with the lease is taken when the mail server answers
(`inTime`), before the record waits for anything. A failing record of a success
is recorded as a failure; a second failure ends the drain and drops the rest of
the scan. The scan returns all ready notifications, where the code returns a
hundred.

### The edge of the ledger

`ConnectorCalls` keeps ages instead of times, counted up to the length of the
window, where a grant leaves it: `stamps` are the limiter's timestamps, `grants` a
history of what it granted; `Tick` ages both. A call
acquires its budgets in the order of `tail`, announces itself, is sent, and is
tried again only after a refusal on record of a call that is safe to repeat.

`IdentityOperations` has operations (`op`) claimed by sessions under leases, the
provider's user and the ledger's account of one address, and the existing user
that is disabled or reset. A session may outlive its lease (`late`), calls and
statements may fail, sessions may die.

`Usage` numbers days by the activity they hold. A run of analytics pins its time,
asks, routes the records to companies, writes under shared locks on the persons,
commits. A run of the flagging job lists the candidates of a company, and
examines each in a transaction that locks the person, the seat and the request
before it reads the evidence; `open` is that transaction before its commit.
Counters are reduced to whether one of them is a use of the seat
(`hasPositiveVendorActivity`). Which days are asked for is left open: the job
asks once for the day three days ago, and a missed day is not asked for again.
A run's time is that of the youngest run so far or the next: the clocks of the
workers do not go back, and may be equal. `outrun` is a history: which runs asked
for a day before a run did, and of whom a run that asked later has stored its
answer.

`BackupRestore` has the files of a name, by the run that made each; the lock of
the directory; the advisory lock that backups share and restores hold alone, which
is derived from what the scripts are doing; and the role `ledger_restore_admin`.
`Prepare` terminates the sessions of the role (`prepare-restore-window.sh:57-59`) in
a transaction that `CommitWindow` commits (`:69`): in between, a session may still
log in with the old password, and stays when the password is new (`outlived`). The
closing script may end before it has closed anything or after it with sessions left
(`FailToClose`); its callers note the status and end (`run-guarded-restore.sh:41`),
the former leaves the restore `unclosed`.
A signal is delivered when the command a shell waits for has ended: `Stop` and
`StopRestore` are the traps as they are written, among them that the trap of
`backup-db.sh` does not end the script. `Expire` is `VALID UNTIL`.

`SchemaMigrations` has releases as sets of numbered files with checksums; a
runner takes the lock, compares once, applies file by file, and may end anywhere.

## 3. What is checked

All runs set `CHECK_DEADLOCK FALSE`: clocks, attempts, faults and queues are
bounded and requests end in terminal states, so an instance really stops. Every
property of a passing run has a mutant in `PROJECT.json`: a change of one
definition, of the kind a bug in the code would be, that violates it.

| Run | Instance | Properties |
|---|---|---|
| `seat_pool` | five scenarios of `CapacityRecovery`, see below | `TypeOK`, `ActionMatchesState`, `SeatMatchesState`, `FreshTakeFits`, `LifecycleIsLegal`, `RecoveryFits`, `ResumeInOrder`, `RecoveryUsesEverySeat` |
| `jobs` | two worker instances, two jobs of one key, one retry each, 2 faults; or two recovery runs, 1 request, 2 days, 2 faults | `RepeatsExplained`, `OneAtATime`, `JobsEnd`, `DueWorkCompletes` |
| `invites` | two workers and an administrator whose locks hold, or one worker whose lock may be lost; 2 attempts, 2 faults | `CallsOnce`, `HonoursContract`, `AcceptedJoins`, `ReceiptSettles` |
| `notifications` | alerts: one subject, one approver, 2 workers, 2 windows, 1 change, 1 fault; mail: two mails with 1 fault, or one with 2 faults and a change of authorization | `DuplicatesExplained`, `RemindersJustified`, `InvitationsDueWhenFired`, `AlertsDelivered`, `MailsExplained`, `AttemptsBounded`, `NotificationsSettle` |
| `provider` | six parts: connector calls, creations, changes, usage, copies, schema | `GrantsWithinBudget`, `NeverSentBlind`, `NoOrphans`, `ChangesTakeEffect`, `OperationsSettle`, `FlagsEarned`, `NewestAnswerStays`, `BackupsAreWhole`, `WindowIsAnswered`, `AuthorityLasts`, `HistoryIsPrefix` |
| `register` | 2 persons, 2 companies, 2 pools of one seat, 3 requests, 2 days with the evening between; or the close of a month of 3 days with 2 runs, 2 rates, 2 invoices | `SeatsFit`, `MovedOnce`, `DayChargedOnce`, `SplitIsExact`, `RollupStands`, `FinalsStand` |
| `final_seat_race` | the instance of `seat_pool` | violates `FinalSeatReservedOnce` |
| `blocked_after_release` | 1 session, 1 recovery run; approve, confirm, offboard; fairness | violates `BlockedAutoResume` |
| `invite_lost_lock` | `invites`, 1 attempt, 1 fault, any lock may be lost | violates `OneSender` |
| `invite_stranded_success` | `invites`, 1 attempt, 1 fault; fairness | violates `EvidenceGetsItsState` |
| `stranded_removal` | `Moves`, account moves only; fairness | violates `RemovalsEnd` |
| `seat_left_behind` | `Moves`, company moves only | violates `SeatsFollowHolder` |

What the properties say, and what it takes to break them:

- **Pool.** `LifecycleIsLegal` is refinement: `SeatPool` implements
  `RequestLifecycle`. `ActionMatchesState`: one live action exactly while a
  request is provisioning or invited; a forgotten one would hold a seat for
  ever. `SeatMatchesState`: seats are open exactly for active and offboarding
  requests, won by one action, and end after they start. `FreshTakeFits`: if no
  row of the pool is younger than the clock reading of an approval or
  confirmation, its commit does not over-commit the pool, whatever ran between
  count and commit. The premise is the precise condition under which the code is
  safe; `final_seat_race` shows that it cannot be dropped. It leaves out a
  retry's own reservation, since a retry does not count the pool.
- **Recovery.** `RecoveryFits`, `ResumeInOrder`, `RecoveryUsesEverySeat`: a run
  never resumes too many, never a younger request before an older one that was
  blocked when it counted, and (nothing being released meanwhile) never too few.
  The formulas name the exceptions. A request whose row another transaction held
  when the run selected is passed over (`SKIP LOCKED`; `PassedOver`, `skipped`): a
  younger one may be resumed before it, and it may stay blocked beside a free seat.
  And a provider that has no seat puts an older request back among the blocked
  without taking the lock of the pool (`finalizeNoSeat`,
  `worker/jobs/automated-invite-delivery.ts:240`; `Refused`), also between a run's
  count and its commit, and the run then resumes the younger one it had counted.
  `DueWorkCompletes`: due work completes although runs fail, die or outlive their
  leases.
- **Jobs.** `RepeatsExplained`: the work of a key is done twice only where a
  fault kept it from being recorded, once for each fault. `OneAtATime`: never by
  two deliveries at once. `JobsEnd`: every job completes or is given up.
- **Invitations.** `HonoursContract` is refinement: `InviteProtocol` implements
  `InvitationContract`, so an invitation on record gives its seat back only when the
  provider has deleted it, and no attempt begins beside one. Strays are beside the
  record, and the contract says which they can be: the provider answered that call
  with an error. `CallsOnce`: no
  call of an attempt is made twice (by processes that keep their locks:
  `invite_lost_lock` shows the rest). `AcceptedJoins`: who accepted the invitation on
  record becomes active. `ReceiptSettles`: a withdrawal whose deletion is on record
  is finished, unless the person joined by a stray first.
- **Outboxes.** `DuplicatesExplained` and `MailsExplained`: a mail is repeated
  only after a fault between sending and record. `RemindersJustified`: a
  reminder goes to an approver, about a request that waited when it was checked.
  `InvitationsDueWhenFired`: an event fires about an invitation that is due at
  that moment, not when it was scanned (events are a set of dedupe keys, so that
  the unique index and not this property excludes a second event of one key).
  `AttemptsBounded`: stale scans exceed the
  cap by at most one attempt for every other dispatcher. `AlertsDelivered`,
  `NotificationsSettle`: everything is delivered, suppressed or given up.
- **Providers.** `GrantsWithinBudget`: in no window of any budget does one
  limiter grant more than its limit. `NeverSentBlind`: nothing is repeated whose
  first answer is unknown, and nothing sent that was not announced. `NoOrphans`,
  `ChangesTakeEffect`, `OperationsSettle`: an operation that was undone leaves no
  user behind, one reported as done was done and stays done, and all end. The
  exception of `NoOrphans` (a session that overran its lease) is part of its formula.
- **Usage.** `FlagsEarned`: a request is flagged only while no evidence of use
  stands against it, at the moment of the commit. `NewestAnswerStays`: once a run
  that asked later has stored its answer about a person and a day, no run that asked
  before it changes that row, however late its answer comes and in whatever order
  they commit. That the code pins the time before it asks is what makes the guard
  of the upsert sufficient: the mutant reads it after the wait.
- **Copies and schema.** `BackupsAreWhole`: a published ciphertext has its
  companions of the same run, and what was restored was one backup.
  `WindowIsAnswered`: the restore that opened the window that is open is still to
  close it, unless it was killed or signalled while preparing (`abandoned`), or its
  closing script failed (`unclosed`); for these only the expiry of the password is
  left. `AuthorityLasts`: a restore that holds the lock is not robbed of its role by
  another one's clean-up, unless its session logged in between the termination and
  the commit of the other one's window (`outlived`); and one that loads or promotes
  always has the authority. `HistoryIsPrefix`: the schema is
  always the beginning of some release.
- **Register.** `SeatsFit`: confirmed seats never exceed what was purchased,
  although moves reserve without counting, as long as two things have not happened
  that do over-commit the pool: a holder left a seat behind to which he may return
  (`leftBehind`, the race of `seat_left_behind`), or a confirmation was accepted
  that could not see a seat that stood (`overlooked`), because the seat is younger
  than its clock, or was moved in the evening and begins tomorrow. `MovedOnce`: a seat moves to one
  account, stays in force until its removal is confirmed, and nobody has two
  seats of a pool on a day. `DayChargedOnce`: statements of months that have
  ended charge no day twice. `SplitIsExact`: splitting at a rate change or a
  change of hands charges the same days and the same cents. `RollupStands`,
  `FinalsStand`: what is reconciled or final does not change under late runs,
  rate edits or invoices.

### Bounds, and why they are enough

Each of them is a constant of a `.cfg` or a named operator of an MC module.

- *Pool*: two sessions make every pairwise race of web transactions; two runs
  the race for a lease; two requests compete for one seat, three make order and
  count differ; two instants are one reading older than another, on one day or
  across midnight; two attempts make a retry; two faults let both runs fail, or
  one twice. One run takes five scenarios in turn (`scenario`): the web alone
  with all operations on one day; the web alone across midnight with checklists;
  two recovery runs beside checklists; one beside invitations, with one or two
  seats, so that a refusal may come between its count and its commit; one beside three
  requests and two seats with no release and no fault, where recovery must use
  every seat. Sessions are alike, and so are recovery runs (`SYMMETRY`).
- *Jobs*: two jobs of one key are the least that must exclude each other; one
  retry and two faults exhaust a job by faults alone.
- *Invitations*: two workers and an administrator make all pairs (delivery,
  poll, expiry, withdrawal); two attempts make a retry after a withdrawal;
  one page beyond the checkpoint distinguishes a saved from a lost checkpoint.
- *Outboxes*: two mails show what a drain that ends early does to the rest of
  its scan; a change of approvers or of a condition may fall into any gap.
- *Providers*: three callers exceed every limit of `SmallLimits`; windows of
  different length make the budgets age differently; two creations of one
  address compete; a disable and a reset meet on one user. One person, two
  companies, two days, two runs of analytics (at once only while nobody has
  moved) and one flagging run; two backups of the same second, or two restores,
  with one fault; four releases that share files, disagree in contents, or
  extend each other, with two runners.
- *Register*: three requests are a seat, its successor and a competitor; pools of
  one seat make every mistake in counting visible; persons, companies, pools and
  rates are symmetric. Two days with an evening between are a move with either date,
  and a seat that ends before, on, or after the day of a count. A month of three days is the least with a day before and
  a day after a change inside it.

The type invariants of the modules other than `SeatPool` are stated in them and
hold on these instances; no listed run repeats them, and section 4 proves them.

### Fairness

- `RecoveryFairness`: the job is scheduled every five minutes, so a claim with the
  current time is weakly fair; statements of a run end, so its other steps are;
  leases of dead runs run out; open transactions close. Taking the lock of the
  pool is strongly fair, since PostgreSQL queues the waiters of an advisory
  lock. Users are not fair. Leases that outlive a living run are faults: two
  runs that overran for ever would steal the work from each other for ever.
- `JobExecution`: pg-boss fetches and expires, handlers end, and a lock request
  is queued (`Begin` strongly fair).
- `InviteProtocol`: the jobs of a worker go on; the requests for the lock of an
  action are queued, so withdrawals that were begun are strongly fair. Nobody
  need accept, withdraw or expire anything.
- `AlertEvaluation`: runs end, leases end, and a first try of the job comes every
  quarter of an hour, so scanning is strongly fair (it may be busy meanwhile).
- `LifecycleNotifications`: the worker's loop scans every minute; mail server and
  database answer; leases of dead dispatchers end and retry delays pass. The
  web's dispatchers need not start.
- `IdentityOperations`: calls end, minutes and leases pass, and administrators
  keep opening the page that claims due operations (`claimDue` runs nowhere
  else); the claim is strongly fair, since a lease may be in its way.
- `Moves`: administrators confirm what they can. It is assumed in
  `stranded_removal` only, where it makes the violation stronger: nobody *can*
  confirm the removal.
- `ConnectorCalls`, `Usage`, `MonthlyClose`, `BackupRestore`, `SchemaMigrations`
  state no fairness. For `Usage` it would be wrong: runs of analytics whose shared
  locks overlap for ever can keep a flagging transaction waiting.

### The violations

They are real disagreements of the code with its own documentation, listed with
the lines in `PROJECT.json`.

- `final_seat_race`: two approvals read clocks 0 and 1; the one with 1 commits a
  reservation stamped 1; the one with 0 counts only rows up to 0 and reserves the
  same seat. The integration tests give both one timestamp.
- `blocked_after_release`: a seat freed by an offboarding enqueues no recovery
  work, so a blocked request waits for the next change of capacity.
- `invite_lost_lock`: the lock of the action is a session lock on an idle
  connection; when it is lost before the call is announced, another worker passes
  the same recheck, and both send.
- `invite_stranded_success`: a worker dies after the observation of a success and
  before the ledger; every later scan excludes the action.
- `stranded_removal`: the removal of a cross-account move lacks the facts its
  confirmation validates, so it is refused every time.
- `seat_left_behind`: a confirmation reads the holder's company, a company move
  commits, and the new seat is written for the company the holder left.

### Seen, and covered by no run

Found while reading; they are facts about the code that the models contain or
that the bounds leave out, and nothing states the contrary clearly enough to
call them a violation.

- The cap, the retry delay and the suppression of lifecycle mail are conditions
  of the scan only, so a stale scan overruns the cap (`AttemptsBounded` says by
  how much).
- An error of the provider is taken for a refusal, so that an administrator's retry
  after a 502 or 504 may invite a second time
  (`automated-invite-delivery.ts:343`, `provisioning-service.ts:95-121`). The design
  rejects "Replay unmatched or failed invite attempts", since an ambiguous attempt
  "could create two invitations"
  (`docs/superpowers/specs/2026-09-07-us-063-automated-invite-delivery-design.md:120-123`);
  it is the worker that never does, and the administrator who may. A withdrawal
  deletes the invitation on record, and the stray stands.
- A confirmation that waits for the lock of the pool misses the successor seat of a
  company move that was faster (`orchestration.ts:590`, `created_at` against a clock
  read before the wait), and one in the evening misses every seat moved that evening
  (`org-registry/repository.ts:202-210` takes the date of UTC): each lets a pool of
  one seat have two (`overlooked`).
- A restore window whose closing script fails stays open until `VALID UNTIL`, and the
  membership of the role beyond that (`run-guarded-restore.sh:41`). A session that
  logs in with the old password while a new window is being prepared
  (`prepare-restore-window.sh:57-69`) may hold the lock of the restore under a role
  that is another one's; its next login fails, so that it loads nothing.
- An intent without a receipt blocks every later withdrawal of the invitation
  (`db/invitation-withdrawal.ts:92`); it stays overdue.
- In `worker/alerts/evaluate-alerts.ts`: a request blocked, resumed and blocked
  again fires its alert once (`:168`, the key names the request and not the
  blocking); the recipients of a reminder are those of the run that opened its
  stage (`:367`), so an approver granted later is never reminded; a mail that is
  refused ends the rule for this run, and with a recipient who is always refused
  the requests behind it wait for ever (`:525`; the bound on faults rules that
  out of `AlertsDelivered`).
- A report of a failing job whose mail fails is not taken up again, since the key
  of the next one is another window (`worker/alerts/report-job-failure.ts:104`).
- An approval with an old clock overlooks a capacity row whose recovery has
  already run, and blocks without a further wake-up
  (`web/request-workflow/orchestration.ts:261`).
- Each run of a job makes a limiter of its own, so budgets that the design shares
  are kept per run (`docs/stories/sprint-3/r1_misc_us_056.md:30`).
- A sign-in may link a user that a clean-up is about to delete
  (`web/identity-access/repository.ts:149`).
- A close run whose process dies stays `running` (`db/license-close.ts:27`).
- A company move during an offboarding leaves the request offboarding
  (`orchestration.ts:57`); after a company move the old request stays `active`.
- Closing a month before it has ended and moving a seat afterwards charges days
  twice (`DayChargedOnce` is about months that have ended).
- A retry and a cross-account move reserve without counting
  (`provisioning-service.ts:127`, `cross-org-move.ts:200`).
- A blocked request that already had a checklist cannot get a second one, by a
  unique index; the recovery run fails at it.
- `capacity-service.ts:71` and `org-registry/repository.ts:431` take locks in other
  orders than routing does; PostgreSQL aborts one of the two transactions.
- `infra/scripts/backup-db.sh` tests for a file of the same name before it takes
  the directory lock (line 49), so two backups of one second may meet; its signal
  trap does not end the script (line 130). `restore-db.sh:329`: a death between
  `RENAME` and `ALTER OWNER` leaves the wrong owner, and later restores refuse.
- The analytics job asks once for the day three days ago; a day it missed is not
  asked for again.

## 4. What is proved

Theorems hold for every value of the constants that satisfies the `ASSUME`s of the
module (TLC evaluates these on every run) and the hypotheses a theorem states.
Every argument is an inductive invariant; TLC checked it on small instances before
it was proved, and some invariants and properties were corrected that way.
Every safety property of the passing runs, invariant or action property, is proved.

### The pool (`SeatPoolProofs`)

For every number of requests, sessions, attempts, instants, days and seats:

| Theorem | Statement |
|---|---|
| `TypeCorrect`, `LockHeld` | `Spec => []TypeOK`, `Spec => []LockInv` |
| `LifecycleImplemented` | `Spec => LifecycleIsLegal`: a refinement of `RequestLifecycle` |
| `ActionsMatch`, `SeatsMatch` | `Spec => []ActionMatchesState`, `Spec => []SeatMatchesState` |
| `FreshTakesFit` | `Spec => FreshTakeFits` |

The argument goes in layers, each inductive relative to the ones before:

1. `LockInv`: the lock of the pool is held exactly by the one session that has
   evaluated, together with the row of its request, and the state it evaluated
   (`Admissible`) still holds. It is what makes a commit legal: the steps that
   lock rows only cannot touch a locked row.
2. `ActionInv` strengthens `ActionMatchesState` with the shape of the attempts:
   used attempts are a prefix, so the next one is free. `SeatInv` adds that
   only requests past `active` have a seat row and a confirmed action.
3. `GrantInv`: while a session that was granted a seat with a fresh clock has
   not committed, a seat is free for it. The steps of others can only give seats
   back meanwhile, since taking one needs the lock, which the session holds.
   That is a statement about cardinalities: `StepsGiveBack` shows that no such
   step enlarges the union of seats and reservations (an activation exchanges a
   reservation for a seat, `Exchange`), `FreshSees` that a fresh count misses
   nothing, and `TakeFits` concludes.

### Recovery (`CapacityRecoveryProofs`, on top of the pool's)

| Theorem | Statement |
|---|---|
| `RecoveryTypeCorrect` | `RecoverySpec => []RecoveryTypeOK` |
| `RecoveryActionsMatch`, `RecoverySeatsMatch`, `FreshTakesFitBesideRuns`, `RecoveryImplementsLifecycle` | what holds of the pool alone holds beside any number of runs |
| `RunsFit` | `RecoverySpec => RecoveryFits` |
| `ResumesInOrder` | `RecoverySpec => ResumeInOrder` |
| `EverySeatIsUsed` | `1 \in Times`, `1 \in Days`: `MCSpec => RecoveryUsesEverySeat` |

`PoolInv` is `LockInv`, `ActionInv` and `SeatInv` again, with `ChoiceInv` (what a
run has chosen is locked and blocked, fits the free seats, and is the oldest but
for those whose rows were held and those the provider refused since) and `QueueInv` (a blocked request can be
given a further attempt). `OldestFew` says that the n oldest of a queue are at most
n, `OldestFirst` that nothing older is left out. The proof of the order failed at
first, and rightly: a refusal may put an older request back between a run's count
and its commit. `ResumeInOrder` names that exception now, and the run has an
instance in which it happens.

`EverySeatIsUsed` is about the scenario of `MCCapacityRecovery` in which nothing is
released, for all constants that have an instant 1 and a day 1, where it begins.
There `EnoughInv` holds: a run that has counted chose all who are blocked and were
not passed over, or at least as many as there are free seats. `OldestEnough` is the converse of `OldestFew`: while
somebody is left out, the one who is left out first has n before him. `RunFits` and
`RunUsesAll` use that a commit reserves at most (`RecoveryAdds`) and at least
(`RecoveryTakes`) one seat for each request it picked.

### Invitations (`InviteProtocolProofs`)

| Theorem | Statement |
|---|---|
| `TypeCorrect` | `Spec => []TypeOK` |
| `CallsAreMadeOnce` | `LocksProtect`: `Spec => []CallsOnce` |
| `ImplementsContract` | `LocksProtect`: `Spec => HonoursContract`, a refinement of `InvitationContract` |

`LocksProtect` says that no lock is lost, or that there is one worker. Without it
both fail: `invite_lost_lock` is the counterexample. `LockInv`: who works on
an attempt holds its lock. `DataInv` relates, for each attempt, the row, the
observation, the calls made and what the provider holds, and says what every
process knows of the attempt it works on; at most one attempt is live
(`OneLive`), so that the provider holds one invitation on record at most. A stray
belongs to an attempt whose call was answered with an error, which steps of other
attempts leave alone, and maps to the strays of the contract. Crashes, retries,
polls and withdrawals by any number of processes are among the steps.

### Jobs (`JobExecutionProofs`)

| Theorem | Statement |
|---|---|
| `TypeCorrect` | `Spec => []TypeOK` |
| `HandlersExcludeEachOther` | `Spec => []OneAtATime` |
| `RepeatsAreExplained` | `Spec => []RepeatsExplained` |

`BalanceInv` is the account: how often the work of a key was done equals the
recorded success, plus the runs a fault kept from their record, plus the runs on
the way to it. That at most one is on the way is `LockInv` with `FetchInv`, for
runs whose connection is there.

### Mail (`AlertEvaluationProofs`, `LifecycleNotificationsProofs`)

| Theorem | Statement |
|---|---|
| `AlertEvaluationProofs!TypeCorrect` | `Spec => []TypeOK` |
| `DuplicatesAreExplained` | `Spec => []DuplicatesExplained` |
| `RemindersAreJustified`, `InvitationsAreDue` | `Spec => []RemindersJustified`, `Spec => InvitationsDueWhenFired` |
| `LifecycleNotificationsProofs!TypeCorrect` | `MailSpec => []MailTypeOK` |
| `MailsAreExplained` | `MailSpec => []MailsExplained` |
| `AttemptsAreBounded` | `MailSpec => []AttemptsBounded` |

*Alerts.* No two runs hold one attempt (`OwnInv`) and nothing is claimed behind a
success (`ClaimInv`), so of the runs that have sent and not recorded, one at most
will pass the fence; `MailInv` counts the others as repeats that have their fault.
`ValidInv` says that a reminder is sent only behind both of its checks.

*Lifecycle mail.* The dispatchers are finitely many, the drain loop's among them.
`PrefixInv`: attempts are claimed in turn. `CountInv` is
the cap: beyond it only those may claim whose scan listed the notification before
it was reached, one of them reached it, and every claim uses one up. `MailInv` is
stronger than the property: the mails sent, with those still to be sent under some
claim, exceed the faults by one at most, and not at all while nothing succeeded
and nobody holds a lease (`Holding`); a claim needs exactly that, and adds one.
`TimeInv` and `OwnInv` make a refused record one of a lease that ended, or of an
attempt beside a success.

### Moves and the close (`RegisterProofs`)

| Theorem | Statement |
|---|---|
| `TypeCorrect` | `Spec => []TypeOK` of `Moves` |
| `SeatsMoveOnce` | `Spec => []MovedOnce` |
| `PoolsFit` | `MCSpec => []SeatsFit` of `MCMoves` |
| `CloseTypeCorrect` | `CloseSpec => []CloseTypeOK` of `MonthlyClose` |
| `ChargedOneCompany` | `CloseSpec => []DayChargedOnce` |
| `SplitsExactly` | `CloseSpec => []SplitIsExact` |
| `FinalsAreKept` | `CloseSpec => FinalsStand` |
| `RollupsStand` | `CloseSpec => []RollupStands` |

*Moves.* `RowInv`, `SeatInv`, `ConfirmInv` and `FromInv` say what request, seat and actions
tell of each other; `DisjointInv` that of two seats of a person in a pool one
ended before the other began. A company move fills as many new rows as it closes
seats: that the lowest unused numbers exist, and that the assignment of heirs is
injective, are `RanksExist`, `LowestExist` and their companions. `FitInv` is about the
seats that stand (open, or in force today, and not left by their holder): with a
place kept for the confirmation that has counted (`Claimed`), they are at most what
was purchased. It needs the two histories that `MCMoves` records, that no seat was
left behind and that no accepted confirmation overlooked one. `EveningInv` shows
that an evening's move leaves nothing behind: who left a seat that ends today
has its successor from tomorrow on.

*The close.* `CloseInv` says of the register that its seats meet on no day
(`RegisterInv`); of the reading of a run that, where months are closed only after
they have ended, its seats are still those of the register as far as the month goes
(`SnapshotInv`, `Known`), however the register moved on; of every line of a
statement that it falls into one seat of its company and meets no other line, and
of final ones that their rate stands (`StatementInv`). `DayChargedOnce` follows: two
lines that meet fall into seats that meet, which are one seat of one company.

The sums are `MapThenSumSet`, which adds the elements of a finite set in the order
of a `CHOOSE`. `AddedElement` shows that the order is immaterial, by the set that is
smallest among those for which it would matter: strict inclusion of finite
sets is well-founded, and that needs no induction over an operator. Sums over images
(`AddedImage`), that a sum of costs grows with its set, and
that finitely many dates have a last one, come from the same argument.
With them, the cumulative rounding of `Lines` telescopes: the lines of a rate up to
some day cost what the days up to there cost when they are rounded once, so all of
them cost what the unsplit charge costs (`SplitsExactly`). And as lines cost nothing
less than zero and final lines are only ever added, what was reconciled stays
billed (`RollupsStand`).

### What enters and leaves the ledger (`ProviderCallsProofs`)

| Theorem | Statement |
|---|---|
| `TypeCorrect` | `Spec => []TypeOK` of `ConnectorCalls` |
| `LimitsHold` | `Spec => []GrantsWithinBudget` |
| `NothingSentBlind` | `Spec => []NeverSentBlind` |
| `HistoryStaysPrefix` | `Releases # {}`, `Numbered`: `SchemaSpec => []HistoryIsPrefix` of `SchemaMigrations` |
| `CopiesTypeCorrect`, `WholeBackups` | `CopiesSpec => []CopiesTypeOK`, `CopiesSpec => []BackupsAreWhole` |
| `WindowsAnswered`, `AuthorityHeld` | `CopiesSpec => []WindowIsAnswered`, `CopiesSpec => []AuthorityLasts` |
| `IdentityTypeCorrect`, `NoOrphanLeft` | `IdentitySpec => []IdentityTypeOK`, `IdentitySpec => []NoOrphans` |
| `ChangesHold` | `IdentitySpec => []ChangesTakeEffect` |
| `FlagsAreEarned`, `NewestAnswersStay` | `UsageSpec => FlagsEarned`, `UsageSpec => NewestAnswerStays` |

The five modules share no state and are proved in one module.

*Connector calls.* A limiter forgets stamps when it prunes, and counts only what it remembers: `StampInv` says that
nothing it forgot is in the window, so that what it remembers is what it granted
there. `CallInv` says that every attempt is on record, and that all before the one under
way were refusals that may be repeated.

*Migrations.* A runner compares the history once and then trusts what it
remembers. `Remembered` says that this is sound: while a runner applies, the
history is a prefix of its release and what it has left to do is exactly the rest.
It is inductive together with `OneRunner`, that one runner at most has the lock;
`NextFileExtends` is the arithmetic of the step. `Numbered` says that the files of
a release are ordered by their names; releases may disagree with each other.

*Copies.* `CopiesInv`: who works in the directory holds its lock (`MutexInv`); a file
bears the name of a run that has published it (`OwnInv`), and of a run that is
publishing, exactly the files it has counted are there (`CountInv`), so that
the last one, the ciphertext, finds its companions in place (`WholeInv`). Two backups
of one second that meet are the exception the property names. `CopyInv` is why a
restore may copy files that change under it: it compares what it has copied. Who
connects, or has the lock with his session, is the one the open window belongs to,
unless his session outlived its window; who loads or promotes always is, since that
takes another login (`RoleInv`). Whoever opens or closes a window does so under the
lock, and terminates the sessions that wait for it; those that log in before he
commits are the ones that outlive it.

*Identity provider.* `EffectInv` holds for every session at every step, overrun or
not: what a change has done at the provider is not undone by a session that comes
late, which is why `ChangesHold` needs no premise about leases. `NoOrphans` does:
`InTime` says that, as long as no session overran its lease, who works on an
operation has its lease and the row is where he left it (`LeaseInv`), and what he
believes of the user is so (`MarkInv`). The one exception is a row that somebody else
completed while he was about to undo it.

*Usage.* `UsageInv` says of a person who is being examined that no other run examines
him, that no answer about him is under way into the store, and, when he is about to
be flagged, that the evidence stands now. Answers about others go on meanwhile, and
may make the account's newest day later, which only makes him longer inactive
(`NewestGrows`). `OutrunInv` is behind the newest answers: times are pinned in the order
in which runs ask, and a row that a later run has stored is not older than the times
of those it outran, whose upserts therefore find nothing to replace.

### Only model-checked

- Liveness under fairness (`DueWorkCompletes`, `JobsEnd`, `AcceptedJoins`,
  `ReceiptSettles`, `AlertsDelivered`, `NotificationsSettle`, `OperationsSettle`):
  out of the prover's reach.
- What the code violates has no theorem, of course; each of those six runs is a
  counterexample on its instance.
- The theorems are about each module's own specification. That the MC modules put
  parts side by side, and that their bounds are instances of the constants, is
  not stated as a theorem; every step of such a part is a step of its module.

## 5. Plan

Done: all modules of section 2, and the proofs of every safety property and every
refinement that a passing run checks.

Next, in order:

1. Composition: `InviteProtocol` as the refinement of the four atomic invitation
   steps of `SeatPool`, and `JobExecution` around a handler that is itself
   modelled.
2. Reclamation proposals beside the flags; costs and member observations, which
   the close does not read.
3. Pure functions against reference definitions: business days of the reminders,
   schedules, the planner's choice of a kind.

## 6. Not modelled

- *Register backfill, company import and go-live* (`web/org-registry/`:
  `register-backfill*`, `import-companies*`, `go-live-*`): one transaction each, under an advisory lock, run by an operator
  before the system is in use, and idempotent by unique keys.
- *Costs, member observations and imports by hand*: upserts of rows that no
  modelled transaction reads. *Reclamation proposals* read the flags and draft a
  mail.
- *Exports, rollup page, navigation, UI*: they read.
- *Authorization and audit*: a check before each command and a row beside it in
  the same transaction; no state of their own that a later step depends on. An
  action of a model is a command that was allowed.
- *Observation of a confirmed checklist* (`verifyChecklistObservation`,
  `orchestration.ts:793-935`): sets the confirmed action of an active request to
  `verification_failed` and back, with an alert, by observations whose times must
  grow. It is a port for a member synchronisation that does not exist yet
  (`member-sync-checklist-observation.ts`); nothing calls it but tests, and neither
  status is counted by the pool. In the models a confirmed action stays confirmed.
- *Contracts, design system, deployment*: types and files.
- *The repository's own tools* (`scripts/`: mutation scope and evidence, checks of
  audited actions, probes, `verify-schema.mjs`) run beside the build and are no
  part of the running system. They are also a large share of its lines.
- *Within modelled parts*: replays of a command already carried out (they change
  nothing), decoding and formatting, credentials, the contents of mails, roles
  granted at user creation, acknowledgement of alerts, variance lines of an open
  reconciliation, queues and schedules registered at start.
