--------------------------------- MODULE Moves ---------------------------------
(***************************************************************************)
(* Seats that change hands: a person moves to another company and the seats  *)
(* follow (org-registry/repository.ts), a seat moves to another account of    *)
(* the vendor as two operations (cross-org-move.ts), and a seat is given up   *)
(* (startOffboarding, finalizeOffboarding).  Beside them, checklists of the   *)
(* persons concerned are issued, confirmed and refused.                       *)
(*                                                                           *)
(* A confirmation reads its clock, waits for the lock of the pool, reads the   *)
(* holder and counts the pool as its clock has it, and writes later; it does  *)
(* not lock the person.  All other transactions lock what they read, and are  *)
(* single steps whose clock is that of the step.                              *)
(*                                                                           *)
(* Seats are counted, begun and ended on the operating day of Ecuador, but a   *)
(* company move takes the day of UTC, which is the next one every evening.    *)
(***************************************************************************)
EXTENDS Integers, FiniteSets

CONSTANTS
  Persons,    \* holders
  Companies,  \* tenants
  Pools,      \* accounts of one vendor, each with a pool of seats
  Requests,   \* requests, in the order in which they are inserted
  Purchased,  \* the seats each pool has
  Commands,   \* the commands the users issue in this instance
  MaxDay      \* bound: last day

ASSUME MovesAssumption ==
  /\ IsFiniteSet(Requests) /\ Requests \subseteq Nat \ {0}
  /\ Purchased \in [Pools -> Nat] /\ MaxDay \in Nat
  /\ Commands \subseteq {"company", "account", "offboard", "fail"}

None == "none"
Nobody == 0   \* no request
Days == 0..MaxDay

VARIABLES
  today,      \* the operating day
  evening,    \* it is past 19:00: UTC has the next day
  company,    \* person.company_id
  request,    \* license_request
  seat,       \* the license_assignment of a request
  provision,  \* the status of its action of operation 'provision'
  removal,    \* its action of operation 'deprovision': status and context
  confirming  \* the confirmation of a request: what its clock has

rows == <<request, seat, provision, removal>>
vars == <<today, evening, company, rows, confirming>>

NoRequest == [state |-> None, person |-> None, company |-> None, pool |-> None, from |-> Nobody]
NoSeat    == [status |-> None, startedOn |-> 0, endedOn |-> 0]
NoRemoval == [status |-> None, context |-> None]

\* A reading of the clock: the day, and the rows that are younger (created_at).
Now == [day |-> today, seats |-> {}, reservations |-> {}]
Idle == [step |-> None, at |-> [day |-> 0, seats |-> {}, reservations |-> {}]]

Entries == [state : {"provisioning", "active", "failed", "offboarding", "deprovisioned"},
            person : Persons, company : Companies, pool : Pools, from : Requests \cup {Nobody}]

TypeOK ==
  /\ today \in Days /\ evening \in BOOLEAN /\ (evening => today < MaxDay)
  /\ company \in [Persons -> Companies]
  /\ request \in [Requests -> {NoRequest} \cup Entries]
  /\ \A r \in Requests :
       request[r].from # Nobody => request[request[r].from].pool # request[r].pool
  /\ seat \in [Requests -> [status : {None, "open", "ended"}, startedOn : Days, endedOn : Int]]
  /\ provision \in [Requests -> {None, "pending", "confirmed", "failed"}]
  /\ removal \in [Requests -> [status : {None, "pending", "confirmed"},
                               context : {None, "offboarding", "move"}]]
  /\ confirming \in [Requests -> [step : {None, "asked", "counted"},
                                  at : [day : Days, seats : SUBSET Requests,
                                        reservations : SUBSET Requests]]]

-------------------------------------------------------------------------------

State(r, s) == request[r].state = s
Holder(r)   == request[r].person
Open(r)     == seat[r].status = "open"
Moved(r)    == company[Holder(r)] # request[r].company

\* The rows an INSERT fills next.
Unused == {r \in Requests : request[r] = NoRequest}
Fill(n) == CHOOSE S \in SUBSET Unused :
             Cardinality(S) = n /\ \A r \in S, q \in Unused \ S : r < q

InForce(r, d) ==
  \/ Open(r) /\ seat[r].startedOn <= d
  \/ seat[r].status = "ended" /\ seat[r].startedOn <= d /\ d <= seat[r].endedOn

\* What the pool counts: seats whose holder is still in the company of the seat.
HeldOn(p, d) == {r \in Requests : request[r].pool = p /\ InForce(r, d) /\ ~Moved(r)}
Held(p) == HeldOn(p, today)

Reserved(p) == {r \in Requests : request[r].pool = p /\ provision[r] = "pending"}

\* What is free at a reading of the clock: created_at <= occurredAt.
Free(p, own, at) ==
  Purchased[p] - Cardinality(HeldOn(p, at.day) \ at.seats)
               - Cardinality(Reserved(p) \ (own \cup at.reservations))

\* license_assignment_no_overlap: a person has one seat of a pool at a time.
Overlaps(n, p, d) ==
  \E r \in Requests :
    /\ request[r].person = n /\ request[r].pool = p
    /\ \/ Open(r)
       \/ seat[r].status = "ended" /\ d <= seat[r].endedOn

-------------------------------------------------------------------------------
(* Checklists *)

\* The pool's advisory lock is held by a confirmation that has counted.
LockFree(p) == \A r \in Requests : confirming[r].step = "counted" => request[r].pool # p

\* New rows of a pool are younger than the clocks already read for it.
Younger(seats, reservations) ==
  [r \in Requests |->
    IF confirming[r].step = "asked"
      THEN [step |-> "asked",
            at |-> [day |-> confirming[r].at.day,
                    seats |-> confirming[r].at.seats \cup seats[request[r].pool],
                    reservations |-> confirming[r].at.reservations
                                       \cup reservations[request[r].pool]]]
      ELSE confirming[r]]

NoRows == [p \in Pools |-> {}]
Row(p, r) == [NoRows EXCEPT ![p] = {r}]

\* A request is submitted, approved and gets its checklist.  A person who has a
\* seat of the pool gets no second one; a request on its way refuses nothing.  The
\* approval counts the pool with a clock of its own, which any rows may be younger
\* than (SeatPool has it in detail): it may promise a seat that is taken.
Issue(n, p) ==
  /\ Unused # {} /\ LockFree(p)
  /\ ~\E r \in Requests : /\ request[r].person = n /\ request[r].pool = p
                          /\ Open(r) /\ ~Moved(r)
  /\ \E younger \in SUBSET Requests :
       Free(p, {}, [day |-> today, seats |-> younger, reservations |-> younger]) > 0
  /\ \E r \in Fill(1) :
       /\ request' = [request EXCEPT ![r] = [state |-> "provisioning", person |-> n,
                        company |-> company[n], pool |-> p, from |-> Nobody]]
       /\ provision' = [provision EXCEPT ![r] = "pending"]
       /\ confirming' = Younger(NoRows, Row(p, r))
  /\ UNCHANGED <<today, evening, company, seat, removal>>

\* confirmChecklistDone reads the clock; the seat will bear this time.
AskConfirmation(r) ==
  /\ State(r, "provisioning") /\ provision[r] = "pending" /\ confirming[r] = Idle
  /\ confirming' = [Younger(Row(request[r].pool, r), NoRows) EXCEPT ![r] = [step |-> "asked", at |-> Now]]
  /\ UNCHANGED <<today, evening, company, rows>>

\* Mutant: a confirmation does not ask for a seat.
FitsAlways(r) == TRUE

Fits(r) == Free(request[r].pool, {r}, confirming[r].at) > 0

Confirmable(r) ==
  State(r, "provisioning") /\ provision[r] = "pending" /\ ~Moved(r) /\ Fits(r)

\* It has waited for the lock of the pool, checks what it finds, and counts.
ReadConfirmation(r) ==
  /\ confirming[r].step = "asked" /\ LockFree(request[r].pool)
  /\ Confirmable(r)
  /\ confirming' = [confirming EXCEPT ![r] =
                      [step |-> "counted", at |-> [Idle.at EXCEPT !.day = confirming[r].at.day]]]
  /\ UNCHANGED <<today, evening, company, rows>>

RefuseConfirmation(r) ==
  /\ confirming[r].step = "asked" /\ LockFree(request[r].pool)
  /\ ~Confirmable(r)
  /\ confirming' = [confirming EXCEPT ![r] = Idle]
  /\ UNCHANGED <<today, evening, company, rows>>

\* The writes, which take the company from the request and the day from the clock;
\* a second seat of the person is refused by the table.
WriteConfirmation(r) ==
  /\ confirming[r].step = "counted"
  /\ confirming' = [confirming EXCEPT ![r] = Idle]
  /\ LET attestedOn == confirming[r].at.day
     IN IF Overlaps(Holder(r), request[r].pool, attestedOn)
          THEN UNCHANGED rows
          ELSE /\ seat' = [seat EXCEPT ![r] =
                             [status |-> "open", startedOn |-> attestedOn, endedOn |-> 0]]
               /\ request' = [request EXCEPT ![r].state = "active"]
               /\ provision' = [provision EXCEPT ![r] = "confirmed"]
               /\ UNCHANGED removal
  /\ UNCHANGED <<today, evening, company>>

Locked(r) == confirming[r].step = "counted"

\* The checklist is marked not done; nobody asks where the holder works.  A
\* confirmation that still waits can only be refused.
MarkNotDone(r) ==
  /\ "fail" \in Commands
  /\ State(r, "provisioning") /\ provision[r] = "pending" /\ ~Locked(r)
  /\ request' = [request EXCEPT ![r].state = "failed"]
  /\ provision' = [provision EXCEPT ![r] = "failed"]
  /\ confirming' = [confirming EXCEPT ![r] = Idle]
  /\ UNCHANGED <<today, evening, company, seat, removal>>

-------------------------------------------------------------------------------
(* Giving a seat up *)

StartOffboarding(r) ==
  /\ "offboard" \in Commands
  /\ State(r, "active") /\ Open(r) /\ ~Moved(r) /\ removal[r] = NoRemoval
  /\ request' = [request EXCEPT ![r].state = "offboarding"]
  /\ removal' = [removal EXCEPT ![r] = [status |-> "pending", context |-> "offboarding"]]
  /\ UNCHANGED <<today, evening, company, seat, provision, confirming>>

\* validateOffboardingFacts: the context of the action names the request, the
\* person, the account, the seats and a reason, as startOffboarding writes it.
Anchored(r) == removal[r] = [status |-> "pending", context |-> "offboarding"]

CompleteOffboarding(r) ==
  /\ State(r, "offboarding") /\ Open(r) /\ ~Moved(r) /\ Anchored(r)
  /\ seat[r].startedOn <= today
  /\ seat' = [seat EXCEPT ![r].status = "ended", ![r].endedOn = today]
  /\ request' = [request EXCEPT ![r].state = "deprovisioned"]
  /\ removal' = [removal EXCEPT ![r].status = "confirmed"]
  /\ UNCHANGED <<today, evening, company, provision, confirming>>

-------------------------------------------------------------------------------
(* Moves *)

\* Mutant: a seat that is already being removed may be moved.
MovableTwice(r) == request[r].state \in {"active", "offboarding"}

Movable(r) == State(r, "active")

Elsewhere(r, p) == request[r].pool # p

\* cross-org-move.ts: the source is to be removed and the destination provisioned,
\* in one transaction, which asks the destination for no seat.  A command that is
\* repeated changes nothing.
MoveAccount(r, p) ==
  /\ "account" \in Commands
  /\ Unused # {}
  /\ Movable(r) /\ Open(r) /\ ~Moved(r) /\ Elsewhere(r, p)
  /\ \E q \in Fill(1) :
       /\ request' = [request EXCEPT ![r].state = "offboarding",
                        ![q] = [state |-> "provisioning", person |-> Holder(r),
                                company |-> request[r].company, pool |-> p, from |-> r]]
       /\ provision' = [provision EXCEPT ![q] = "pending"]
       /\ confirming' = Younger(NoRows, Row(p, q))
  /\ removal' = [removal EXCEPT ![r] = [status |-> "pending", context |-> "move"]]
  /\ UNCHANGED <<today, evening, company, seat>>

\* calendarDate: the day of UTC.
UtcDay == IF evening THEN today + 1 ELSE today

\* update: the open seats end yesterday and successors with requests of their own
\* begin today, by UTC.  The transaction waits for the locks of their pools; a seat
\* that began on that day has no day to end on, and the whole move is refused.
MoveCompany(n, c) ==
  /\ "company" \in Commands
  /\ company[n] # c
  /\ LET mine == {r \in Requests : /\ request[r].person = n /\ Open(r)
                                   /\ request[r].company = company[n]}
         new  == Fill(Cardinality(mine))
     IN
     /\ Cardinality(mine) <= Cardinality(Unused)
     /\ \A r \in mine : seat[r].startedOn < UtcDay /\ LockFree(request[r].pool)
     /\ \E heir \in [new -> mine] :
          /\ \A r \in mine : \E q \in new : heir[q] = r
          /\ seat' = [q \in Requests |->
               IF q \in mine THEN [seat[q] EXCEPT !.status = "ended", !.endedOn = UtcDay - 1]
               ELSE IF q \in new THEN [status |-> "open", startedOn |-> UtcDay, endedOn |-> 0]
               ELSE seat[q]]
          /\ request' = [q \in Requests |->
               IF q \in new
                 THEN [state |-> "active", person |-> n, company |-> c,
                       pool |-> request[heir[q]].pool, from |-> Nobody]
                 ELSE request[q]]
          /\ confirming' = Younger([p \in Pools |-> {q \in new : request[heir[q]].pool = p}], NoRows)
     /\ company' = [company EXCEPT ![n] = c]
  /\ UNCHANGED <<today, evening, provision, removal>>

Nightfall ==
  /\ ~evening /\ today < MaxDay                          \* bound: MaxDay
  /\ evening' = TRUE
  /\ UNCHANGED <<today, company, rows, confirming>>

Midnight ==
  /\ evening
  /\ today' = today + 1 /\ evening' = FALSE
  /\ UNCHANGED <<company, rows, confirming>>

-------------------------------------------------------------------------------

Init ==
  /\ today = 0 /\ evening = FALSE
  /\ \E c \in Companies : company = [n \in Persons |-> c]
  /\ request = [r \in Requests |-> NoRequest]
  /\ seat = [r \in Requests |-> NoSeat]
  /\ provision = [r \in Requests |-> None]
  /\ removal = [r \in Requests |-> NoRemoval]
  /\ confirming = [r \in Requests |-> Idle]

Next ==
  \/ \E n \in Persons : \/ \E p \in Pools : Issue(n, p)
                        \/ \E c \in Companies : MoveCompany(n, c)
  \/ \E r \in Requests : \/ AskConfirmation(r) \/ ReadConfirmation(r) \/ RefuseConfirmation(r)
                         \/ WriteConfirmation(r) \/ MarkNotDone(r)
                         \/ StartOffboarding(r) \/ CompleteOffboarding(r)
                         \/ \E p \in Pools : MoveAccount(r, p)
  \/ Nightfall \/ Midnight

Spec == Init /\ [][Next]_vars

\* Administrators confirm what they can: provisionings and removals.
Fairness ==
  \A r \in Requests :
    /\ WF_vars(AskConfirmation(r)) /\ WF_vars(ReadConfirmation(r))
    /\ WF_vars(RefuseConfirmation(r)) /\ WF_vars(WriteConfirmation(r))
    /\ WF_vars(CompleteOffboarding(r))

FairSpec == Spec /\ Fairness

-------------------------------------------------------------------------------

\* A seat is moved to one account only, whatever commands compete for it; while it
\* is being moved it stays in force until its removal is confirmed; and nobody has
\* two seats of a pool on one day, also when they change hands the day they began.
MovedOnce ==
  /\ \A q, r \in Requests : request[q].from = request[r].from /\ request[q].from # Nobody => q = r
  /\ \A r \in Requests : State(r, "deprovisioned") => removal[r].status = "confirmed"
  /\ \A r, q \in Requests, d \in Days :
       InForce(r, d) /\ InForce(q, d) /\ Holder(r) = Holder(q) /\ request[r].pool = request[q].pool
         => r = q

\* "The register changes only after the later connector/checklist verification
\* path": a removal that was started ends, and the seat returns to its pool.
RemovalsEnd == \A r \in Requests : State(r, "offboarding") ~> State(r, "deprovisioned")

\* "Company moves update company_id and close/open register rows": an open seat
\* belongs to the company of its holder.
SeatsFollowHolder == \A r \in Requests : Open(r) => ~Moved(r)
=================================================================================
