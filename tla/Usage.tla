--------------------------------- MODULE Usage ---------------------------------
(* What a vendor reports about the use of its seats, and the daily flag that is   *)
(* computed from it.                                                              *)
(*                                                                                *)
(* A run of the analytics job asks the vendor, for one account, for the activity  *)
(* of one day (analytics-activity.ts); one transaction writes the answer into     *)
(* activity_record (analytics-ingestion.ts).  A run of the flagging job then      *)
(* looks at every open seat (inactivity-flagging.ts), and moves its request       *)
(* between active and flagged_inactive.                                           *)
(*                                                                                *)
(* Days are numbered by the activity they hold: the job of calendar day d + 3     *)
(* asks for day d.  The transaction of a run of analytics holds shared locks on   *)
(* the persons it has matched, the flagging transaction a stronger one on the     *)
(* person it examines, both until they end; a step that waits for such a lock is  *)
(* not enabled.                                                                   *)
EXTENDS Integers, FiniteSets, FiniteSetsExt

CONSTANTS People,        \* holders of a seat of the account
          Companies,     \* numbered: a person only moves to a higher number (bound)
          Syncs,         \* runs of the analytics job
          Runs,          \* runs of the flagging job
          MaxDay,        \* the days in question
          IdleDays,      \* days without use before the flag (30 in the code)
          Answers,       \* what the vendor may say of the people of one day
          MaxTime        \* bound on the times at which a run starts

ASSUME UsageAssumption ==
  /\ IsFiniteSet(Companies) /\ Companies # {} /\ Companies \subseteq Nat \ {0}
  /\ "none" \notin People /\ MaxDay \in Nat /\ IdleDays \in Nat /\ MaxTime \in Nat
  /\ Answers \subseteq [People -> {"absent", "idle", "used"}]

VARIABLES clock,         \* the time at which the youngest run of analytics started
          row,           \* activity_record: [at, used] of a person and a day
          sync,          \* runs of the analytics job
          company,       \* person.company_id
          seat,          \* state of the request behind the person's open seat
          flagging,      \* runs of the flagging job
          outrun         \* history: which runs at work asked for that day before a run,
                         \* and of whom one that asked later has stored its answer

usageVars == <<clock, row, sync, company, seat, flagging, outrun>>

Days   == 1..MaxDay
NoRow  == [at |-> 0, used |-> FALSE]
Nobody == [person |-> "none", to |-> "none"]
Asleep == [phase |-> "idle", day |-> 0, at |-> 0,
           answer |-> [p \in People |-> "absent"], scope |-> [p \in People |-> 0]]
NoRun  == [scope |-> 0, todo |-> {}, open |-> Nobody]
First  == [before |-> {}, persons |-> {}]

UsageTypeOK ==
  /\ clock \in 0..MaxTime
  /\ row \in [People -> [Days -> [at : 0..MaxTime, used : BOOLEAN]]]
  /\ sync \in [Syncs -> [phase : {"idle", "asking", "routed", "written"},
                         day : 0..MaxDay, at : 0..MaxTime,
                         answer : [People -> {"absent", "idle", "used"}],
                         scope : [People -> Companies \cup {0}]]]
  /\ company \in [People -> Companies]
  /\ seat \in [People -> {"active", "flagged_inactive", "offboarding"}]
  /\ flagging \in [Runs -> [scope : Companies \cup {0}, todo : SUBSET People,
                       open : {Nobody} \cup
                         [person : People, to : {"active", "flagged_inactive"}]]]
  /\ outrun \in [Syncs -> [before : SUBSET Syncs, persons : SUBSET People]]

--------------------------------------------------------------------------------
(* Locks *)

\* The persons whose rows a run has found in its batch: those of the answer who
\* still belong to the company their record was routed to.
Matched(j) == {p \in People : sync[j].answer[p] # "absent" /\ company[p] = sync[j].scope[p]}

\* Mutant: nothing is locked while a seat is examined.
ExaminedNever(p) == FALSE

Examined(p) == \E r \in Runs : flagging[r].open.person = p
Written(p)  == \E j \in Syncs : sync[j].phase = "written" /\ p \in Matched(j)

--------------------------------------------------------------------------------
(* The analytics job *)

Syncing  == {j \in Syncs : sync[j].phase # "idle"}
Ahead(d) == {j \in Syncing : sync[j].day = d}

\* Run j ends; who asked before it and has yet to store an answer is outrun.
EndSync(j, stored) ==
  /\ sync' = [sync EXCEPT ![j] = Asleep]
  /\ outrun' = [i \in Syncs |->
       IF i = j THEN First
       ELSE [before  |-> outrun[i].before \ {j},
             persons |-> outrun[i].persons \cup {p \in stored : i \in outrun[j].before}]]

\* A run pins its time and its day before it asks.  Runs of several days may go on
\* at once, since a retry keeps the day of its job; two workers may read one time.
StartSync(j) ==
  /\ sync[j].phase = "idle"
  /\ \E t \in {clock, clock + 1} \cap 1..MaxTime, d \in Days :
       /\ clock' = t
       /\ sync' = [sync EXCEPT ![j] = [Asleep EXCEPT !.phase = "asking", !.day = d, !.at = t]]
       /\ outrun' = [outrun EXCEPT ![j].before = Ahead(d)]
  /\ UNCHANGED <<row, company, seat, flagging>>

\* Mutant: the time is read when the answer has come.
SyncedAtLate(j) == clock
SyncedAt(j) == sync[j].at

\* The vendor answers who has a record of that day, and whether one of its
\* counters is a use of the seat.  The transaction opens, and each record is
\* assigned to the company its person belongs to now.
Receive(j) ==
  /\ sync[j].phase = "asking"
  /\ \E a \in Answers :
       sync' = [sync EXCEPT ![j] = [sync[j] EXCEPT !.phase = "routed", !.at = SyncedAt(j),
                                                  !.answer = a, !.scope = company]]
  /\ UNCHANGED <<clock, row, company, seat, flagging, outrun>>

Newer(old, at) == old.at < at

\* The same time with other contents: the batch is refused.
Contradicts(j, p) ==
  LET old == row[p][sync[j].day]
  IN  old.at = sync[j].at /\ old.used # (sync[j].answer[p] = "used")

\* The rows are written, not yet committed: their persons are locked, and the rows
\* against another run of the same day.
Write(j) ==
  /\ sync[j].phase = "routed"
  /\ \A p \in Matched(j) :
       /\ ~Examined(p) /\ ~Contradicts(j, p)
       /\ \A i \in Syncs \ {j} : sync[i].phase = "written" /\ sync[i].day = sync[j].day
                                   => p \notin Matched(i)
  /\ sync' = [sync EXCEPT ![j].phase = "written"]
  /\ UNCHANGED <<clock, row, company, seat, flagging, outrun>>

CommitSync(j) ==
  LET s == sync[j]
  IN  /\ s.phase = "written"
      /\ row' = [p \in People |-> [d \in Days |->
                   IF d = s.day /\ p \in Matched(j) /\ Newer(row[p][d], s.at)
                   THEN [at |-> s.at, used |-> s.answer[p] = "used"] ELSE row[p][d]]]
      /\ EndSync(j, Matched(j))
      /\ UNCHANGED <<clock, company, seat, flagging>>

\* The vendor fails, the account no longer takes its data from the API, the batch
\* contradicts a row, the process dies: the transaction leaves nothing behind.
FailSync(j) ==
  /\ j \in Syncing
  /\ EndSync(j, {})
  /\ UNCHANGED <<clock, row, company, seat, flagging>>

--------------------------------------------------------------------------------
(* The flagging job *)

Known == {d \in Days : \E p \in People : row[p][d] # NoRow}
Uses(p) == {d \in Days : row[p][d].used}

\* Counted to the newest day the account has any data of, never to today.
DaysInactive(p) == Max(Known) - Max(Uses(p))

Classification(p) ==
  IF Uses(p) = {} THEN "no_data"
  ELSE IF DaysInactive(p) > IdleDays THEN "inactive" ELSE "active"

\* The state the request is moved to, if any.
Target(p) ==
  CASE seat[p] = "active" /\ Classification(p) = "inactive" -> "flagged_inactive"
    [] seat[p] = "flagged_inactive" /\ Classification(p) = "active" -> "active"
    [] OTHER -> "none"

\* The candidates of the next company, read without a lock; after the last company
\* the job of the next day begins again.  The order of the candidates of a company
\* (by id) is left open.
Discover(r) ==
  /\ flagging[r].todo = {} /\ flagging[r].open = Nobody
  /\ LET later == {c \in Companies : c > flagging[r].scope}
         next  == Min(IF later = {} THEN Companies ELSE later)
     IN  flagging' = [flagging EXCEPT ![r].scope = next,
                   ![r].todo = {p \in People : company[p] = next
                                  /\ seat[p] \in {"active", "flagged_inactive"}}]
  /\ UNCHANGED <<clock, row, sync, company, seat, outrun>>

\* A transaction of its own: the person, the seat and the request are locked and
\* compared with the candidate; only then the evidence is read.
Examine(r, p) ==
  /\ flagging[r].open = Nobody /\ p \in flagging[r].todo
  /\ ~Examined(p) /\ ~Written(p)
  /\ IF company[p] = flagging[r].scope /\ seat[p] # "offboarding" /\ Target(p) # "none"
     THEN flagging' = [flagging EXCEPT ![r].todo = @ \ {p}, ![r].open = [person |-> p, to |-> Target(p)]]
     ELSE flagging' = [flagging EXCEPT ![r].todo = @ \ {p}]
  /\ UNCHANGED <<clock, row, sync, company, seat, outrun>>

CommitFlag(r) ==
  /\ flagging[r].open # Nobody
  /\ seat' = [seat EXCEPT ![flagging[r].open.person] = flagging[r].open.to]
  /\ flagging' = [flagging EXCEPT ![r].open = Nobody]
  /\ UNCHANGED <<clock, row, sync, company, outrun>>

\* A dead process, or an error: the rest of the run is left to the job's retry.
CrashRun(r) ==
  /\ flagging[r] # NoRun
  /\ flagging' = [flagging EXCEPT ![r] = NoRun]
  /\ UNCHANGED <<clock, row, sync, company, seat, outrun>>

--------------------------------------------------------------------------------
(* What happens meanwhile *)

\* A company move closes the seat and opens its successor, whose request is
\* active whatever the state of the old one.
MovePerson(p) ==
  /\ ~Examined(p) /\ ~Written(p)
  /\ \E c \in Companies : c > company[p] /\ company' = [company EXCEPT ![p] = c]
  /\ seat' = [seat EXCEPT ![p] = "active"]
  /\ UNCHANGED <<clock, row, sync, flagging, outrun>>

\* Only an active request can be offboarded.
StartOffboarding(p) ==
  /\ ~Examined(p) /\ seat[p] = "active"
  /\ seat' = [seat EXCEPT ![p] = "offboarding"]
  /\ UNCHANGED <<clock, row, sync, company, flagging, outrun>>

--------------------------------------------------------------------------------
UsageInit ==
  /\ clock = 0
  /\ \E users \in SUBSET People :     \* who used the seat on the first day, as far as known
       row = [p \in People |-> [d \in Days |-> [at |-> 0, used |-> d = 1 /\ p \in users]]]
  /\ sync = [j \in Syncs |-> Asleep]
  /\ \E c \in Companies : company = [p \in People |-> c]
  /\ seat = [p \in People |-> "active"]
  /\ flagging = [r \in Runs |-> NoRun]
  /\ outrun = [j \in Syncs |-> First]

UsageNext ==
  \/ \E j \in Syncs : StartSync(j) \/ Receive(j) \/ Write(j) \/ CommitSync(j) \/ FailSync(j)
  \/ \E r \in Runs : \/ Discover(r) \/ CommitFlag(r) \/ CrashRun(r)
                     \/ \E p \in People : Examine(r, p)
  \/ \E p \in People : MovePerson(p) \/ StartOffboarding(p)

UsageSpec == UsageInit /\ [][UsageNext]_usageVars

--------------------------------------------------------------------------------
(* Properties *)

\* A request is flagged only on evidence that still stands when the flag is
\* committed: its holder has used the seat, and longer ago than the window when
\* counted to the account's newest day, although answers for the same person are
\* written by other processes meanwhile (inactivity-flagging.ts:75).
FlagsEarned ==
  [][\A p \in People : seat[p] = "active" /\ seat'[p] = "flagged_inactive"
       => Uses(p) # {} /\ DaysInactive(p) > IdleDays]_usageVars

\* "A slow older attempt must not overwrite a newer observation that finishes
\* first" (analytics-activity.ts:73): when a run that asked the vendor later has
\* stored what it was told of a person and a day, the answers of all runs that asked
\* before it no longer change that row, whenever they come, and though clocks of two
\* workers may have read one time.
NewestAnswerStays ==
  [][\A j \in Syncs, p \in People :
       CommitSync(j) /\ p \in outrun[j].persons =>
         row'[p][sync[j].day] = row[p][sync[j].day]]_usageVars
================================================================================
