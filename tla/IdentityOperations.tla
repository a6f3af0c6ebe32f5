--------------------------- MODULE IdentityOperations ---------------------------
(***************************************************************************)
(* Users are created, disabled and reset in two systems: the identity       *)
(* provider (keycloak-admin.ts) and the ledger (repository.ts).  Each        *)
(* operation is a row that sessions claim under a lease, take to the         *)
(* provider call by call, and finish in the ledger, or undo                 *)
(* (user-admin-service.ts, provider-operation-repository.ts).                *)
(***************************************************************************)
EXTENDS Naturals, FiniteSets

CONSTANTS
  Sessions,  \* administrators' requests; each may also recover due operations
  Creates,   \* operations that create a user, all for one email address
  Disables,  \* operations that disable one existing user
  Resets,    \* operations that reset the second factor of that user
  Users,     \* subjects the provider may hand out, each once
  MaxFaults  \* bound: failing calls and statements, crashes, overrun leases

None == "none"
Ops  == Creates \cup Disables \cup Resets

ASSUME IdentityAssumption ==
  /\ IsFiniteSet(Sessions) /\ MaxFaults \in Nat
  /\ None \notin Sessions \cup Creates \cup Users /\ "import" \notin Creates
  /\ Creates \cap (Disables \cup Resets) = {} /\ Disables \cap Resets = {}

VARIABLES
  op,       \* identity_provider_operation
  run,      \* what each session is doing for which operation
  user,     \* the provider's user with the email of Creates, if any
  unused,   \* subjects not handed out yet
  account,  \* the ledger's account with that email, if any
  target,   \* the existing user, at the provider and in the ledger
  late,     \* history: sessions that went on after their lease had ended
  faults    \* history: faults so far

create       == <<user, unused, account>>
identityVars == <<op, run, create, target, late, faults>>

Open     == {"pending", "provider_applied", "cleanup_pending"}
Terminal == {"completed", "compensated", "failed"}

NoUser    == [subject |-> None, marker |-> None]
NoAccount == [exists |-> FALSE, subject |-> None, by |-> None]
Idle      == [pc |-> "idle", of |-> None, subject |-> None, listed |-> {}]

IdentityTypeOK ==
  /\ op \in [Ops -> [status : Open \cup Terminal \cup {None}, lease : Sessions \cup {None},
                     over : BOOLEAN, due : BOOLEAN, subject : Users \cup {None}]]
  /\ \A s \in Sessions : run[s].pc # "idle" => run[s].of \in Ops
  /\ user \in [subject : Users \cup {None}, marker : Creates \cup {None}]
  /\ unused \subseteq Users
  /\ account \in [exists : BOOLEAN, subject : Users \cup {None}, by : Creates \cup {None, "import"}]
  /\ target \in [enabled : BOOLEAN, session : BOOLEAN, otp : SUBSET {"old", "new"},
                 required : BOOLEAN, status : {"active", "disabled"}]
  /\ late \subseteq Sessions /\ faults \in 0..MaxFaults
  /\ \A o \in Creates : op[o].status \in {"provider_applied", "cleanup_pending", "completed", "compensated"}
                          => op[o].subject \in Users

-------------------------------------------------------------------------------

Of(s)   == run[s].of
Go(s, pc) == run' = [run EXCEPT ![s].pc = pc]
Stop(s)   == run' = [run EXCEPT ![s] = Idle]

\* Every write about an operation names its lease and the status it leaves.
Held(s, status) == op[Of(s)].lease = s /\ op[Of(s)].status = status

HeldOpen(s) == \E status \in Open : Held(s, status)

Free(o) == op[o].lease = None \/ op[o].over

\* The statuses of the row when its lease is given back.
Released(o, status, due) ==
  op' = [op EXCEPT ![o] = [@ EXCEPT !.status = status, !.lease = None, !.over = FALSE,
                                    !.due = due]]

\* A terminal failure; refused without the lease.
Fails(s) ==
  /\ IF HeldOpen(s) THEN Released(Of(s), "failed", FALSE) ELSE UNCHANGED op
  /\ Stop(s)

\* The operation goes back to pending and is due again in a minute.
Retries(s) ==
  /\ IF Held(s, "pending") THEN Released(Of(s), "pending", FALSE) ELSE UNCHANGED op
  /\ Stop(s)

Fault == faults < MaxFaults /\ faults' = faults + 1

\* A call that fails is recorded for a retry; what it did at the provider stays.
CallFails(s) == Fault /\ Retries(s)

-------------------------------------------------------------------------------
(* Claims *)

FirstStep(o) ==
  CASE op[o].status = "cleanup_pending"                     -> "check"
    [] op[o].status = "provider_applied" /\ o \in Creates   -> "finalize"
    [] op[o].status = "provider_applied" /\ o \notin Creates -> "finish"
    [] OTHER -> IF o \in Creates THEN "find" ELSE IF o \in Disables THEN "disable" ELSE "list"

Take(s, o) ==
  /\ op' = [op EXCEPT ![o].lease = s, ![o].over = FALSE]
  /\ run' = [run EXCEPT ![s] = [Idle EXCEPT !.pc = FirstStep(o), !.of = o,
                                            !.subject = op[o].subject]]

\* An administrator's command finds or inserts its operation; a second
\* transaction claims it.
Request(o) ==
  /\ op[o].status = None
  /\ op' = [op EXCEPT ![o].status = "pending", ![o].due = TRUE]
  /\ UNCHANGED <<run, create, target, late, faults>>

\* The claim of a command does not ask whether the operation is due.
ClaimById(s, o) ==
  /\ run[s].pc = "idle" /\ op[o].status \in Open /\ Free(o)
  /\ Take(s, o)
  /\ UNCHANGED <<create, target, late, faults>>

\* Mutant: the recovery leaves the operations whose session died.
AbandonedNever(o) == op[o].lease = None

Abandoned(o) == Free(o)

\* Recovery, when an administrator opens the page.
ClaimDue(s, o) ==
  /\ run[s].pc = "idle" /\ op[o].status \in Open /\ op[o].due /\ Abandoned(o)
  /\ Take(s, o)
  /\ UNCHANGED <<create, target, late, faults>>

-------------------------------------------------------------------------------
(* Creation *)

Mine(s) == user.marker = Of(s)

\* A user with the email must bear the mark of this operation.
Find(s) ==
  /\ run[s].pc = "find"
  /\ \/ /\ user # NoUser /\ ~Mine(s)
        /\ Fails(s) /\ UNCHANGED faults
     \/ /\ user # NoUser /\ Mine(s)
        /\ run' = [run EXCEPT ![s].pc = "checkpoint", ![s].subject = user.subject]
        /\ UNCHANGED <<op, faults>>
     \/ user = NoUser /\ Go(s, "create") /\ UNCHANGED <<op, faults>>
     \/ CallFails(s)
  /\ UNCHANGED <<create, target, late>>

\* The provider refuses a second user with the email; an answer may be lost.
Create(s) ==
  /\ run[s].pc = "create"
  /\ \/ user # NoUser /\ Retries(s) /\ UNCHANGED <<user, unused, faults>>
     \/ /\ user = NoUser
        /\ \E u \in unused :
             /\ user' = [subject |-> u, marker |-> Of(s)] /\ unused' = unused \ {u}
             /\ \/ /\ run' = [run EXCEPT ![s].pc = "checkpoint", ![s].subject = u]
                   /\ UNCHANGED <<op, faults>>
                \/ CallFails(s)
  /\ UNCHANGED <<account, target, late>>

Subject(s) == run[s].subject

\* The membership of administrators, and the row is provider_applied; a statement
\* without the lease throws, and so does the retry that would record it.
Checkpoint(s) ==
  /\ run[s].pc = "checkpoint"
  /\ \/ /\ Held(s, "pending")
        /\ op' = [op EXCEPT ![Of(s)] = [@ EXCEPT !.status = "provider_applied", !.due = TRUE,
                                                 !.subject = Subject(s)]]
        /\ Go(s, IF Of(s) \in Creates THEN "finalize" ELSE "finish")
        /\ UNCHANGED faults
     \/ ~Held(s, "pending") /\ Stop(s) /\ UNCHANGED <<op, faults>>
     \/ CallFails(s)
  /\ UNCHANGED <<create, target, late>>

\* The account and the completion in one transaction.  If the email is taken, the
\* lease is lost, the transaction fails or its answer is lost, the session turns to
\* the removal of the user.
Finalize(s) ==
  /\ run[s].pc = "finalize"
  /\ LET committed ==
           /\ Held(s, "provider_applied") /\ ~account.exists
           /\ account' = [exists |-> TRUE, subject |-> op[Of(s)].subject, by |-> Of(s)]
           /\ Released(Of(s), "completed", FALSE)
     IN
     \/ committed /\ Stop(s) /\ UNCHANGED faults
     \/ committed /\ Go(s, "undo") /\ Fault
     \/ Fault /\ Go(s, "undo") /\ UNCHANGED <<op, account>>
     \/ /\ ~Held(s, "provider_applied") \/ account.exists
        /\ Go(s, "undo") /\ UNCHANGED <<op, account, faults>>
  /\ UNCHANGED <<user, unused, target, late>>

\* Only an operation that was not completed after all is undone.
Undo(s) ==
  /\ run[s].pc = "undo"
  /\ \/ /\ Held(s, "provider_applied")
        /\ op' = [op EXCEPT ![Of(s)].status = "cleanup_pending", ![Of(s)].due = TRUE]
        /\ Go(s, "check") /\ UNCHANGED faults
     \/ ~Held(s, "provider_applied") /\ Stop(s) /\ UNCHANGED <<op, faults>>
     \/ Fault /\ Stop(s) /\ UNCHANGED op
  /\ UNCHANGED <<create, target, late>>

\* Mutant: an account with the email protects the user, whoever the account is.
RemovableUnlessTaken(s) ==
  ~account.exists /\ (user # NoUser => user = [subject |-> op[Of(s)].subject, marker |-> Of(s)])

\* Only a user that the ledger does not own and that bears the mark and the
\* subject of the operation is removed.
Removable(s) ==
  LET subject == op[Of(s)].subject IN
  /\ ~(account.exists /\ account.subject = subject)
  /\ user # NoUser => user = [subject |-> subject, marker |-> Of(s)]

Check(s) ==
  /\ run[s].pc = "check"
  /\ \/ ~Removable(s) /\ Fails(s) /\ UNCHANGED faults
     \/ /\ Removable(s)
        /\ run' = [run EXCEPT ![s].pc = IF user = NoUser THEN "settle" ELSE "delete",
                              ![s].subject = user.subject]
        /\ UNCHANGED <<op, faults>>
     \/ Fault /\ Stop(s) /\ UNCHANGED op
  /\ UNCHANGED <<create, target, late>>

\* The cleanup is tried again in a minute.
Postpones(s) ==
  /\ IF Held(s, "cleanup_pending") THEN Released(Of(s), "cleanup_pending", FALSE)
                                   ELSE UNCHANGED op
  /\ Stop(s)

\* A subject that is gone already counts as removed.
Delete(s) ==
  /\ run[s].pc = "delete"
  /\ \/ /\ user' = IF user.subject = run[s].subject THEN NoUser ELSE user
        /\ Go(s, "settle") /\ UNCHANGED <<op, faults>>
     \/ Fault /\ Postpones(s) /\ UNCHANGED user
  /\ UNCHANGED <<unused, account, target, late>>

Settle(s) ==
  /\ run[s].pc = "settle"
  /\ \/ Held(s, "cleanup_pending") /\ Released(Of(s), "compensated", FALSE) /\ Stop(s)
        /\ UNCHANGED faults
     \/ ~Held(s, "cleanup_pending") /\ Stop(s) /\ UNCHANGED <<op, faults>>
     \/ Fault /\ Postpones(s)
  /\ UNCHANGED <<create, target, late>>

-------------------------------------------------------------------------------
(* Changes of an existing user *)

\* Mutant: the sessions are ended before the user is disabled.
EffectsSwapped(pc) ==
  CASE pc = "disable" -> [target EXCEPT !.session = FALSE]
    [] pc = "revoke"  -> [target EXCEPT !.enabled = FALSE]
    [] OTHER          -> target

\* What the calls of a change do at the provider, in their order.
Effects(pc) ==
  CASE pc = "disable" -> [target EXCEPT !.enabled = FALSE]
    [] pc = "revoke"  -> [target EXCEPT !.session = FALSE]
    [] pc = "require" -> [target EXCEPT !.required = TRUE]
    [] OTHER          -> target

After(pc) ==
  CASE pc = "disable" -> "revoke"
    [] pc = "revoke"  -> "checkpoint"
    [] pc = "list"    -> "remove"
    [] pc = "require" -> "checkpoint"

Change(s) ==
  /\ run[s].pc \in {"disable", "revoke", "list", "require"}
  /\ \/ /\ target' = Effects(run[s].pc)
        /\ run' = [run EXCEPT ![s].pc = After(@),
                              ![s].listed = IF run[s].pc = "list" THEN target.otp ELSE @]
        /\ UNCHANGED <<op, faults>>
     \/ CallFails(s) /\ target' \in {target, Effects(run[s].pc)}
  /\ UNCHANGED <<create, late>>

\* The listed credentials are removed one after the other; one that is gone is
\* an error.
RemoveCredential(s) ==
  /\ run[s].pc = "remove"
  /\ \/ /\ run[s].listed = {} /\ Go(s, "require") /\ UNCHANGED <<op, target, faults>>
     \/ \E k \in run[s].listed :
          \/ /\ k \in target.otp
             /\ target' = [target EXCEPT !.otp = @ \ {k}]
             /\ run' = [run EXCEPT ![s].listed = @ \ {k}] /\ UNCHANGED <<op, faults>>
          \/ k \notin target.otp /\ Retries(s) /\ UNCHANGED <<target, faults>>
          \/ CallFails(s) /\ UNCHANGED target
  /\ UNCHANGED <<create, late>>

\* The ledger follows the provider, in one transaction with the completion.
Finish(s) ==
  /\ run[s].pc = "finish" /\ Stop(s)
  /\ \/ /\ Held(s, "provider_applied")
        /\ target' = IF Of(s) \in Disables THEN [target EXCEPT !.status = "disabled"] ELSE target
        /\ Released(Of(s), "completed", FALSE) /\ UNCHANGED faults
     \/ ~Held(s, "provider_applied") /\ UNCHANGED <<op, target, faults>>
     \/ Fault /\ UNCHANGED <<op, target>>
  /\ UNCHANGED <<create, late>>

-------------------------------------------------------------------------------
(* Time, faults and users *)

Working(o) == {s \in Sessions : run[s].pc # "idle" /\ Of(s) = o /\ op[o].lease = s}

LeaseEnds(o) ==
  /\ op[o].lease # None /\ ~op[o].over
  /\ op' = [op EXCEPT ![o].over = TRUE]
  /\ late' = late \cup Working(o)
  /\ faults' = faults + Cardinality(Working(o)) /\ faults' <= MaxFaults
  /\ UNCHANGED <<run, create, target>>

MinutePasses(o) ==
  /\ op[o].status \in Open /\ ~op[o].due
  /\ op' = [op EXCEPT ![o].due = TRUE]
  /\ UNCHANGED <<run, create, target, late, faults>>

Crash(s) ==
  /\ run[s].pc # "idle" /\ Fault /\ Stop(s)
  /\ UNCHANGED <<op, create, target, late>>

\* A person with the email signs in; an imported account without a subject is
\* linked to the user of the provider (repository.ts:149).
LinkAccount ==
  /\ user # NoUser /\ account.exists /\ account.subject = None
  /\ account' = [account EXCEPT !.subject = user.subject]
  /\ UNCHANGED <<op, run, user, unused, target, late, faults>>

\* The existing user signs in, and enrols a new second factor when required.
SignIn ==
  /\ target.enabled /\ ~target.session
  /\ target' = [target EXCEPT !.session = TRUE, !.required = FALSE,
                  !.otp = IF target.required THEN @ \cup {"new"} ELSE @]
  /\ UNCHANGED <<op, run, create, late, faults>>

-------------------------------------------------------------------------------

IdentityInit ==
  /\ op = [o \in Ops |-> [status |-> None, lease |-> None, over |-> FALSE, due |-> FALSE,
                          subject |-> None]]
  /\ run = [s \in Sessions |-> Idle]
  /\ unused \in {Users} \cup {Users \ {u} : u \in Users}
  /\ user \in {NoUser} \cup [subject : Users \ unused, marker : {None}]
  /\ unused # Users => user # NoUser
  /\ account \in {NoAccount, [exists |-> TRUE, subject |-> None, by |-> "import"]}
  /\ target = [enabled |-> TRUE, session |-> FALSE, otp |-> {"old"}, required |-> FALSE,
               status |-> "active"]
  /\ late = {} /\ faults = 0

Work(s) ==
  \/ Find(s) \/ Create(s) \/ Checkpoint(s) \/ Finalize(s) \/ Undo(s) \/ Check(s) \/ Delete(s)
  \/ Settle(s) \/ Change(s) \/ RemoveCredential(s) \/ Finish(s)

IdentityNext ==
  \/ \E o \in Ops : Request(o) \/ LeaseEnds(o) \/ MinutePasses(o)
  \/ \E s \in Sessions, o \in Ops : ClaimById(s, o) \/ ClaimDue(s, o)
  \/ \E s \in Sessions : Work(s) \/ Crash(s)
  \/ LinkAccount \/ SignIn

IdentitySpec == IdentityInit /\ [][IdentityNext]_identityVars

\* Requests end, time passes, and administrators keep opening the page.
IdentityFairness ==
  /\ \A s \in Sessions : WF_identityVars(Work(s))
  /\ \A o \in Ops :
       /\ WF_identityVars(LeaseEnds(o) /\ faults' = faults) /\ WF_identityVars(MinutePasses(o))
       /\ SF_identityVars(\E s \in Sessions : ClaimDue(s, o))

-------------------------------------------------------------------------------

\* An operation that was undone or given up leaves no user of its own behind,
\* unless a session went on after its lease had ended: it may create the user
\* again after another session removed it (user-admin-service.ts:288), or unless the
\* account was linked to that user in the meantime.
NoOrphans ==
  \A o \in Creates :
    op[o].status \in {"compensated", "failed"} /\ user.marker = o =>
      late # {} \/ account.subject = user.subject

\* A change reported as completed has happened at the provider and stays: nobody
\* is signed in behind a disabled account, no old factor survives a reset.
ChangesTakeEffect ==
  /\ \A o \in Disables : op[o].status = "completed" =>
       ~target.enabled /\ ~target.session /\ target.status = "disabled"
  /\ \A o \in Resets : op[o].status = "completed" => "old" \notin target.otp

\* Every requested operation ends, whatever sessions die or calls fail on the way.
OperationsSettle == []<>(\A o \in Ops : op[o].status \notin Open)
=================================================================================
