----------------------------- MODULE RegisterProofs -----------------------------
(***************************************************************************)
(* Proofs about the modules MCRegister extends.                              *)
(* Moves: for every set of persons, companies, pools and requests, every      *)
(* number of seats and all commands, a seat is moved once, nobody has two     *)
(* seats of a pool on one day, and the pools are never over-committed while   *)
(* no seat is left behind and none is out of sight of a confirmation.         *)
(* MonthlyClose: for any companies, days of the month, runs, rates and        *)
(* invoices, no day is charged twice, a split costs to the cent what the      *)
(* unsplit charge costs, final statements stand, and so does what an invoice  *)
(* was reconciled with.                                                       *)
(***************************************************************************)
EXTENDS MCMoves, MonthlyClose, FiniteSetTheorems, WellFoundedInduction, TLAPS


\* What the state of a request says of its seat and its actions.
RowInv ==
  \A r \in Requests :
    /\ State(r, None) => seat[r] = NoSeat /\ provision[r] = None /\ removal[r] = NoRemoval
    /\ State(r, "provisioning") => provision[r] = "pending" /\ seat[r].status = None
    /\ provision[r] = "pending" => State(r, "provisioning")
    /\ State(r, "failed") => seat[r].status = None
    /\ State(r, "provisioning") \/ State(r, "active") => removal[r] = NoRemoval
    /\ State(r, "deprovisioned") => removal[r].status = "confirmed"

\* A seat is held from a day that has come, by UTC; one that ended was held for a
\* day, and the day it ended on has come.
SeatInv ==
  \A r \in Requests :
    /\ Open(r) => seat[r].startedOn <= UtcDay
    /\ seat[r].status = "ended" =>
         seat[r].startedOn <= seat[r].endedOn /\ seat[r].endedOn <= today

\* A confirmation is under way for a checklist that nobody settles meanwhile, its
\* clock is not ahead, and one at most has the lock of a pool.
ConfirmInv ==
  \A r \in Requests :
    /\ confirming[r].step # None => State(r, "provisioning")
    /\ confirming[r].at.day <= today
    /\ \A q \in Requests :
         Locked(r) /\ Locked(q) /\ request[r].pool = request[q].pool => r = q

\* Where a moved seat came from is being removed, and was moved nowhere else.
FromInv ==
  \A q \in Requests : request[q].from # Nobody =>
    /\ request[q].from \in Requests
    /\ request[request[q].from].state \in {"offboarding", "deprovisioned"}
    /\ \A r \in Requests : request[r].from = request[q].from => q = r

Before(q, r) == seat[q].status = "ended" /\ seat[q].endedOn < seat[r].startedOn

\* Of two seats of a person in a pool one ended before the other began.
DisjointInv ==
  \A q, r \in Requests :
    /\ q # r /\ Holder(q) = Holder(r) /\ request[q].pool = request[r].pool
    /\ seat[q].status # None /\ seat[r].status # None
    => Before(q, r) \/ Before(r, q)

IInv == TypeOK /\ RowInv /\ SeatInv /\ ConfirmInv /\ FromInv /\ DisjointInv

\* Who left a seat behind that ends today, in an evening, has its successor from
\* tomorrow on, and cannot return today.
EveningInv ==
  \A r \in Requests :
    seat[r].status = "ended" /\ seat[r].endedOn = today /\ ~State(r, "deprovisioned") =>
      \E s \in Requests :
        Open(s) /\ Holder(s) = Holder(r) /\ ~Moved(s) /\ seat[s].startedOn = today + 1

\* The seats of a pool that stand: open, or in force today.
Standing(p) == {r \in Requests : request[r].pool = p /\ Stands(r)}

\* A confirmation that has counted has a seat of the pool kept for it.
Claimed(p) == IF LockFree(p) THEN 0 ELSE 1

FitInv ==
  ~leftBehind /\ ~overlooked =>
    /\ \A r \in Requests : ~LeftBehind(r)
    /\ \A p \in Pools : Cardinality(Standing(p)) + Claimed(p) <= Purchased[p]

-------------------------------------------------------------------------------
(* The rows an INSERT fills                                                *)

LEMMA RequestsNatural == IsFiniteSet(Requests) /\ \A r \in Requests : r \in Nat /\ r # Nobody
BY MovesAssumption DEF Nobody

LEMMA UnusedFinite == Unused \subseteq Requests /\ IsFiniteSet(Unused) /\ Cardinality(Unused) \in Nat
BY RequestsNatural, FS_Subset, FS_CardinalityType DEF Unused

\* How many lower numbers a set has, for each of its numbers.
LEMMA RanksExist ==
  ASSUME NEW U \in SUBSET Nat, IsFiniteSet(U), NEW m, m = Cardinality(U)
  PROVE  /\ m \in Nat
         /\ \E rank \in [U -> 0..(m - 1)] : \A q, r \in U : q < r => rank[q] < rank[r]
<1> DEFINE below(r) == {q \in U : q < r}
<1>0. m \in Nat
  BY FS_CardinalityType
<1>1. ASSUME NEW r \in U
      PROVE  IsFiniteSet(below(r)) /\ Cardinality(below(r)) \in 0..(m - 1)
  <2>1. below(r) \in SUBSET U /\ r \notin below(r)
    OBVIOUS
  <2> HIDE DEF below
  <2>2. /\ IsFiniteSet(below(r)) /\ Cardinality(below(r)) <= m /\ Cardinality(below(r)) # m
        /\ Cardinality(below(r)) \in Nat
    BY <2>1, FS_Subset, FS_CardinalityType
  <2> QED
    BY <1>0, <2>2
<1>2. ASSUME NEW q \in U, NEW r \in U, q < r
      PROVE  Cardinality(below(q)) < Cardinality(below(r))
  <2>1. below(q) \in SUBSET below(r)
    <3>1. SUFFICES ASSUME NEW t \in U, t < q PROVE t < r
      OBVIOUS
    <3>2. t \in Nat /\ q \in Nat /\ r \in Nat
      OBVIOUS
    <3> QED
      BY <1>2, <3>1, <3>2
  <2>2. q \in below(r) /\ q \notin below(q)
    BY <1>2
  <2>3. /\ IsFiniteSet(below(r)) /\ Cardinality(below(r)) \in Int
        /\ Cardinality(below(q)) \in Int
    BY <1>1
  <2> HIDE DEF below
  <2>4. Cardinality(below(q)) <= Cardinality(below(r))
        /\ Cardinality(below(q)) # Cardinality(below(r))
    BY <2>1, <2>2, <2>3, FS_Subset
  <2> QED
    BY <2>3, <2>4
<1> HIDE DEF below
<1>3. [r \in U |-> Cardinality(below(r))] \in [U -> 0..(m - 1)]
  BY <1>1
<1> QED
  BY <1>0, <1>2, <1>3

\* There are n numbers of a finite set that are lower than all others.
LEMMA LowestExist ==
  ASSUME NEW U \in SUBSET Nat, IsFiniteSet(U), NEW n \in Nat, n <= Cardinality(U)
  PROVE  \E S \in SUBSET U : Cardinality(S) = n /\ \A r \in S, q \in U \ S : r < q
<1>1. PICK m : m = Cardinality(U)
  OBVIOUS
<1>2. m \in Nat /\ n <= m
  BY <1>1, RanksExist
<1>3. PICK rank \in [U -> 0..(m - 1)] : \A q, r \in U : q < r => rank[q] < rank[r]
  BY <1>1, RanksExist
<1>4. \A q, r \in U : q # r => rank[q] # rank[r]
  <2>1. SUFFICES ASSUME NEW q \in U, NEW r \in U, q # r PROVE rank[q] # rank[r]
    OBVIOUS
  <2>2. q \in Nat /\ r \in Nat /\ rank[q] \in Int /\ rank[r] \in Int
    BY <1>2, <1>3
  <2>3. q < r \/ r < q
    BY <2>1, <2>2
  <2> QED
    BY <1>3, <2>2, <2>3
<1>5. PICK low : low = {r \in U : rank[r] < n}
  OBVIOUS
<1>6. PICK high : high = U \ low
  OBVIOUS
<1>7. IsFiniteSet(low) /\ IsFiniteSet(high) /\ Cardinality(low) \in Nat /\ Cardinality(high) \in Nat
  <2>1. low \in SUBSET U /\ high \in SUBSET U
    BY <1>5, <1>6
  <2> QED
    BY <2>1, FS_Subset, FS_CardinalityType
<1>8. Cardinality(low) + Cardinality(high) = m
  <2>1. low \cap high = {} /\ low \cup high = U
    BY <1>5, <1>6
  <2>2. Cardinality(low \cup high) = Cardinality(low) + Cardinality(high) - Cardinality(low \cap high)
    BY <1>7, FS_Union
  <2> QED
    BY <1>1, <1>7, <2>1, <2>2, FS_EmptySet
<1>9. Cardinality(low) <= n
  <2>1. PICK T : T = 0..(n - 1)
    OBVIOUS
  <2>2. IsFiniteSet(T) /\ Cardinality(T) = n
    BY <2>1, FS_Interval
  <2>3. PICK f : f = [r \in low |-> rank[r]]
    OBVIOUS
  <2>4. f \in [low -> T] /\ ~\E q, r \in low : q # r /\ f[q] = f[r]
    <3>1. \A r \in low : r \in U /\ rank[r] \in T
      BY <1>2, <1>3, <1>5, <2>1
    <3> QED
      BY <1>4, <2>3, <3>1
  <2>5. ~(Cardinality(T) < Cardinality(low))
    BY <1>7, <2>2, <2>4, FS_PigeonHole
  <2> QED
    BY <1>7, <2>2, <2>5
<1>10. Cardinality(high) <= m - n
  <2>1. PICK T : T = n..(m - 1)
    OBVIOUS
  <2>2. IsFiniteSet(T) /\ Cardinality(T) = m - n
    <3>1. n \in Int /\ m - 1 \in Int /\ (n > m - 1 => m - n = 0)
      BY <1>2
    <3>2. IsFiniteSet(T) /\ Cardinality(T) = IF n > m - 1 THEN 0 ELSE (m - 1) - n + 1
      BY <2>1, <3>1, FS_Interval
    <3> QED
      BY <1>2, <3>1, <3>2
  <2>3. PICK f : f = [r \in high |-> rank[r]]
    OBVIOUS
  <2>4. f \in [high -> T] /\ ~\E q, r \in high : q # r /\ f[q] = f[r]
    <3>1. \A r \in high : r \in U /\ rank[r] \in T
      BY <1>2, <1>3, <1>5, <1>6, <2>1
    <3> QED
      BY <1>4, <2>3, <3>1
  <2>5. ~(Cardinality(T) < Cardinality(high))
    BY <1>7, <2>2, <2>4, FS_PigeonHole
  <2> QED
    BY <1>2, <1>7, <2>2, <2>5
<1>11. Cardinality(low) = n
  BY <1>2, <1>7, <1>8, <1>9, <1>10
<1>12. \A r \in low, q \in U \ low : r < q
  <2>1. SUFFICES ASSUME NEW r \in low, NEW q \in U \ low PROVE r < q
    OBVIOUS
  <2>2. q \in Nat /\ r \in Nat /\ q # r /\ q \in U /\ r \in U
        /\ rank[q] \in Int /\ rank[r] \in Int /\ rank[r] < n /\ ~(rank[q] < n)
    BY <1>2, <1>3, <1>5, <2>1
  <2>3. ~(q < r)
    BY <1>3, <2>2
  <2> QED
    BY <2>2, <2>3
<1>13. low \in SUBSET U
  BY <1>5
<1> QED
  BY <1>11, <1>12, <1>13

LEMMA FillsUnused ==
  ASSUME NEW n \in Nat, n <= Cardinality(Unused)
  PROVE  Fill(n) \subseteq Unused /\ IsFiniteSet(Fill(n)) /\ Cardinality(Fill(n)) = n
<1>1. Fill(n) \in SUBSET Unused /\ Cardinality(Fill(n)) = n
  <2>1. Unused \in SUBSET Nat /\ IsFiniteSet(Unused)
    BY UnusedFinite, RequestsNatural
  <2>2. \E S \in SUBSET Unused :
          Cardinality(S) = n /\ \A r \in S, q \in Unused \ S : r < q
    BY <2>1, LowestExist
  <2> QED
    BY <2>2 DEF Fill
<1> QED
  BY <1>1, UnusedFinite, FS_Subset

LEMMA FillsOne ==
  ASSUME Unused # {}
  PROVE  Fill(1) \subseteq Unused
<1>1. 1 <= Cardinality(Unused)
  BY UnusedFinite, FS_EmptySet
<1> QED
  BY <1>1, FillsUnused

-------------------------------------------------------------------------------
(* What a step does to a request                                           *)

States == {"provisioning", "active", "failed", "offboarding", "deprovisioned"}
Clocks == [day : Days, seats : SUBSET Requests, reservations : SUBSET Requests]
Confirmations == [step : {None, "asked", "counted"}, at : Clocks]
SeatRows == [status : {None, "open", "ended"}, startedOn : Days, endedOn : Int]
RemovalRows == [status : {None, "pending", "confirmed"}, context : {None, "offboarding", "move"}]

LEMMA RequestParts ==
  ASSUME TypeOK, NEW r \in Requests
  PROVE  /\ request[r] \in {NoRequest} \cup Entries
         /\ r \in Unused <=> State(r, None)
         /\ State(r, None) => request[r].from = Nobody
         /\ ~State(r, None) =>
              /\ request[r] \in Entries /\ request[r].state \in States
              /\ request[r].pool \in Pools /\ Holder(r) \in Persons
              /\ request[r].from \in Requests \cup {Nobody}
         /\ seat[r] \in SeatRows /\ removal[r] \in RemovalRows
         /\ confirming[r] \in Confirmations /\ confirming[r].at.day \in Nat
         /\ today \in Nat /\ today \in Days /\ UtcDay \in Nat /\ UtcDay \in Days
         /\ today <= UtcDay /\ UtcDay <= today + 1
BY MovesAssumption DEF TypeOK, Unused, State, Holder, Entries, States, NoRequest, None, Nobody,
   SeatRows, RemovalRows, Days, UtcDay, Confirmations, Clocks

\* A request changes its state, and nothing else.
LEMMA StateUpdate ==
  ASSUME TypeOK, NEW r \in Requests, ~State(r, None), NEW s \in States,
         request' = [request EXCEPT ![r].state = s]
  PROVE  /\ request' \in [Requests -> {NoRequest} \cup Entries]
         /\ request'[r].state = s
         /\ request'[r].person = request[r].person /\ request'[r].pool = request[r].pool
         /\ request'[r].company = request[r].company /\ request'[r].from = request[r].from
         /\ \A q \in Requests : q # r => request'[q] = request[q]
<1>1. request[r] \in Entries
  BY RequestParts
<1>2. PICK e : e = [request[r] EXCEPT !.state = s]
  OBVIOUS
<1>3. /\ e \in Entries /\ e.state = s /\ e.person = request[r].person /\ e.pool = request[r].pool
      /\ e.company = request[r].company /\ e.from = request[r].from
  BY <1>1, <1>2 DEF Entries, States
<1>4. request \in [Requests -> {NoRequest} \cup Entries]
  BY DEF TypeOK
<1>5. request' = [request EXCEPT ![r] = e]
  BY <1>2
<1>6. request'[r] = e /\ \A q \in Requests : q # r => request'[q] = request[q]
  BY <1>4, <1>5
<1>7. request' \in [Requests -> {NoRequest} \cup Entries]
  BY <1>3, <1>4, <1>5
<1> QED
  BY <1>3, <1>6, <1>7

\* What is true of the pool and the origin of a request stays so while both stay.
LEMMA OriginsKept ==
  ASSUME IInv, request' \in [Requests -> {NoRequest} \cup Entries],
         \A r \in Requests : request'[r].from = request[r].from,
         \A r \in Requests : request'[r].pool = request[r].pool,
         \A r \in Requests : State(r, "offboarding") \/ State(r, "deprovisioned") =>
                               State(r, "offboarding")' \/ State(r, "deprovisioned")'
  PROVE  /\ \A r \in Requests :
              request'[r].from # Nobody => request'[request'[r].from].pool # request'[r].pool
         /\ FromInv'
<1>1. \A r \in Requests : request[r].from # Nobody =>
        /\ request[r].from \in Requests
        /\ request[request[r].from].pool # request[r].pool
        /\ request[request[r].from].state \in {"offboarding", "deprovisioned"}
        /\ \A q \in Requests : request[q].from = request[r].from => r = q
  BY DEF IInv, TypeOK, FromInv
<1>2. \A r \in Requests : request[r].state \in {"offboarding", "deprovisioned"} =>
                            request'[r].state \in {"offboarding", "deprovisioned"}
  BY DEF State
<1>3. FromInv'
  BY <1>1, <1>2 DEF FromInv
<1> QED
  BY <1>1, <1>3

\* Seats that nobody touches stay apart, as long as their requests stay.
LEMMA SeatsStay ==
  ASSUME IInv, seat' = seat, today' \in Nat, today <= today', UtcDay' \in Nat, UtcDay <= UtcDay',
         \A r \in Requests : seat[r].status # None =>
           request'[r].person = request[r].person /\ request'[r].pool = request[r].pool
  PROVE  SeatInv' /\ DisjointInv'
<1>1. SeatInv'
  <2>1. SUFFICES ASSUME NEW r \in Requests
                 PROVE  /\ Open(r)' => seat'[r].startedOn <= UtcDay'
                        /\ seat'[r].status = "ended" =>
                             seat'[r].startedOn <= seat'[r].endedOn /\ seat'[r].endedOn <= today'
    BY DEF SeatInv
  <2>2. /\ Open(r) => seat[r].startedOn <= UtcDay
        /\ seat[r].status = "ended" =>
             seat[r].startedOn <= seat[r].endedOn /\ seat[r].endedOn <= today
    BY DEF IInv, SeatInv
  <2>3. seat[r].startedOn \in Nat /\ seat[r].endedOn \in Int /\ today \in Nat /\ UtcDay \in Nat
    BY RequestParts DEF IInv, SeatRows, Days
  <2> QED
    BY <2>2, <2>3 DEF Open
<1>2. DisjointInv'
  BY DEF IInv, DisjointInv, Holder, Before
<1> QED
  BY <1>1, <1>2

\* While the clock stands still, its day of UTC does.
LEMMA SameTime ==
  ASSUME IInv, today' = today, evening' = evening
  PROVE  /\ today' \in Nat /\ today <= today' /\ UtcDay' = UtcDay
         /\ UtcDay' \in Nat /\ UtcDay <= UtcDay'
BY MovesAssumption DEF UtcDay, IInv, TypeOK, Days

\* Rows that are inserted change what clocks have, and nothing else.
LEMMA YoungerParts ==
  ASSUME IInv, NEW seats \in [Pools -> SUBSET Requests],
         NEW reservations \in [Pools -> SUBSET Requests]
  PROVE  /\ Younger(seats, reservations) \in [Requests -> Confirmations]
         /\ \A r \in Requests :
              /\ Younger(seats, reservations)[r].step = confirming[r].step
              /\ Younger(seats, reservations)[r].at.day = confirming[r].at.day
<1>1. \A r \in Requests :
        /\ Younger(seats, reservations)[r] \in Confirmations
        /\ Younger(seats, reservations)[r].step = confirming[r].step
        /\ Younger(seats, reservations)[r].at.day = confirming[r].at.day
  <2>1. SUFFICES ASSUME NEW r \in Requests
                 PROVE  /\ Younger(seats, reservations)[r] \in Confirmations
                        /\ Younger(seats, reservations)[r].step = confirming[r].step
                        /\ Younger(seats, reservations)[r].at.day = confirming[r].at.day
    OBVIOUS
  <2>2. confirming[r] \in Confirmations
    BY RequestParts DEF IInv
  <2>3. CASE confirming[r].step # "asked"
    BY <2>2, <2>3 DEF Younger
  <2>4. CASE confirming[r].step = "asked"
    <3>1. request[r].pool \in Pools
      BY <2>4, RequestParts DEF IInv, ConfirmInv, State, None
    <3>2. Younger(seats, reservations)[r] =
            [step |-> "asked",
             at |-> [day |-> confirming[r].at.day,
                     seats |-> confirming[r].at.seats \cup seats[request[r].pool],
                     reservations |-> confirming[r].at.reservations
                                        \cup reservations[request[r].pool]]]
      BY <2>4 DEF Younger
    <3>3. /\ confirming[r].at.day \in Days
          /\ confirming[r].at.seats \cup seats[request[r].pool] \in SUBSET Requests
          /\ confirming[r].at.reservations \cup reservations[request[r].pool] \in SUBSET Requests
      BY <2>2, <3>1 DEF Confirmations, Clocks
    <3> QED
      BY <2>4, <3>2, <3>3 DEF Confirmations, Clocks
  <2> QED
    BY <2>3, <2>4
<1> QED
  BY <1>1 DEF Younger

LEMMA RowsTyped ==
  ASSUME NEW p \in Pools, NEW r \in Requests
  PROVE  NoRows \in [Pools -> SUBSET Requests] /\ Row(p, r) \in [Pools -> SUBSET Requests]
BY DEF NoRows, Row

\* A confirmation that goes on, or ends, disturbs no other.
LEMMA ConfirmStays ==
  ASSUME IInv, today' \in Nat, today <= today', confirming' \in [Requests -> Confirmations],
         \A r \in Requests :
           /\ confirming'[r].at.day <= confirming[r].at.day
           /\ confirming'[r].step # None =>
                /\ confirming'[r].step = confirming[r].step
                /\ State(r, "provisioning")' /\ request'[r].pool = request[r].pool
  PROVE  ConfirmInv'
<1>1. \A r \in Requests : confirming'[r].at.day <= today'
  <2>1. SUFFICES ASSUME NEW r \in Requests PROVE confirming'[r].at.day <= today'
    OBVIOUS
  <2>2. confirming'[r].at.day \in Nat /\ confirming[r].at.day \in Nat /\ today \in Nat
    BY RequestParts DEF IInv, Confirmations, Clocks, Days
  <2>3. confirming[r].at.day <= today
    BY DEF IInv, ConfirmInv
  <2> QED
    BY <2>2, <2>3
<1> QED
  BY <1>1 DEF IInv, ConfirmInv, Locked, None

-------------------------------------------------------------------------------
(* Checklists                                                              *)

LEMMA IssueKeeps ==
  ASSUME IInv, NEW n \in Persons, NEW p \in Pools, Issue(n, p)
  PROVE  IInv'
<1> USE DEF IInv
<1>1. PICK r \in Fill(1) :
        /\ request' = [request EXCEPT ![r] = [state |-> "provisioning", person |-> n,
                         company |-> company[n], pool |-> p, from |-> Nobody]]
        /\ provision' = [provision EXCEPT ![r] = "pending"]
        /\ confirming' = Younger(NoRows, Row(p, r))
  BY DEF Issue
<1>2. r \in Requests /\ State(r, None)
  BY <1>1, FillsOne, UnusedFinite, RequestParts DEF Issue
<1>3. UNCHANGED <<today, evening, company, seat, removal>>
  BY DEF Issue
<1>15. /\ confirming' \in [Requests -> Confirmations]
       /\ \A q \in Requests : /\ confirming'[q].step = confirming[q].step
                              /\ confirming'[q].at.day = confirming[q].at.day
  BY <1>1, <1>2, RowsTyped, YoungerParts
<1>4. PICK e : e = [state |-> "provisioning", person |-> n, company |-> company[n], pool |-> p,
                    from |-> Nobody]
  OBVIOUS
<1>5. e \in Entries /\ e.state = "provisioning" /\ e.pool = p /\ e.from = Nobody
  BY <1>4 DEF Entries, TypeOK
<1>6. /\ request' \in [Requests -> {NoRequest} \cup Entries] /\ request'[r] = e
      /\ \A q \in Requests : q # r => request'[q] = request[q]
  BY <1>1, <1>2, <1>4, <1>5 DEF TypeOK
<1>7. \A q \in Requests : request[q].from # Nobody =>
        request[q].from \in Requests /\ request[q].from # r /\ q # r
  BY <1>2, RequestParts DEF FromInv, State, None
<1>8. \A q \in Requests :
        request'[q].from # Nobody => request'[request'[q].from].pool # request'[q].pool
  <2>1. \A q \in Requests : request[q].from # Nobody => request[request[q].from].pool # request[q].pool
    BY DEF TypeOK
  <2> QED
    BY <1>5, <1>6, <1>7, <2>1
<1>9. TypeOK'
  BY <1>1, <1>2, <1>3, <1>6, <1>8, <1>15 DEF TypeOK, Confirmations, Clocks
<1>10. seat[r].status = None /\ provision[r] = None
  BY <1>2 DEF RowInv, NoSeat
<1>11. RowInv'
  BY <1>1, <1>2, <1>3, <1>5, <1>6, <1>10 DEF RowInv, State, TypeOK, None
<1>12. SeatInv' /\ DisjointInv'
  BY <1>2, <1>3, <1>6, <1>10, SameTime, SeatsStay
<1>13. ConfirmInv'
  <2>1. \A q \in Requests : confirming[q].step # None => q # r /\ State(q, "provisioning")
    BY <1>2 DEF ConfirmInv, State, None
  <2>2. \A q \in Requests :
          /\ confirming'[q].at.day <= confirming[q].at.day
          /\ confirming'[q].step # None =>
               /\ confirming'[q].step = confirming[q].step
               /\ State(q, "provisioning")' /\ request'[q].pool = request[q].pool
    BY <1>6, <1>15, <2>1, RequestParts DEF State
  <2> QED
    BY <1>3, <1>15, <2>2, SameTime, ConfirmStays
<1>14. FromInv'
  BY <1>5, <1>6, <1>7 DEF FromInv
<1> QED
  BY <1>9, <1>11, <1>12, <1>13, <1>14

\* What only concerns a confirmation leaves the rest of the invariant as it is.
LEMMA RowsKept ==
  ASSUME IInv, UNCHANGED <<today, evening, company, request, seat, provision, removal>>,
         confirming' \in [Requests -> Confirmations], ConfirmInv'
  PROVE  IInv'
<1> USE DEF IInv
<1>1. TypeOK'
  BY DEF TypeOK, Confirmations, Clocks
<1>2. SeatInv' /\ DisjointInv'
  BY SameTime, SeatsStay
<1> QED
  BY <1>1, <1>2 DEF RowInv, FromInv, State

LEMMA AskKeeps ==
  ASSUME IInv, NEW r \in Requests, AskConfirmation(r)
  PROVE  IInv'
<1> USE DEF IInv
<1>1. /\ UNCHANGED <<today, evening, company, request, seat, provision, removal>>
      /\ State(r, "provisioning") /\ confirming[r] = Idle
      /\ confirming' = [Younger(Row(request[r].pool, r), NoRows) EXCEPT
                          ![r] = [step |-> "asked", at |-> Now]]
  BY DEF AskConfirmation, rows
<1>2. request[r].pool \in Pools
  BY <1>1, RequestParts DEF State, None
<1>3. PICK younger : younger = Younger(Row(request[r].pool, r), NoRows)
  OBVIOUS
<1>4. /\ younger \in [Requests -> Confirmations]
      /\ \A q \in Requests : /\ younger[q].step = confirming[q].step
                             /\ younger[q].at.day = confirming[q].at.day
  BY <1>2, <1>3, RowsTyped, YoungerParts
<1>5. PICK c : c = [step |-> "asked", at |-> Now]
  OBVIOUS
<1>6. c \in Confirmations /\ c.step = "asked" /\ c.at.day = today
  BY <1>5, RequestParts DEF Confirmations, Clocks, Now
<1>7. confirming' = [younger EXCEPT ![r] = c]
  BY <1>1, <1>3, <1>5
<1>8. /\ confirming' \in [Requests -> Confirmations] /\ confirming'[r] = c
      /\ \A q \in Requests : q # r => confirming'[q] = younger[q]
  BY <1>4, <1>6, <1>7
<1>9. ConfirmInv'
  <2>1. today <= today
    BY RequestParts
  <2> QED
    BY <1>1, <1>4, <1>6, <1>8, <2>1 DEF ConfirmInv, State, Locked
<1> QED
  BY <1>1, <1>8, <1>9, RowsKept

LEMMA ReadKeeps ==
  ASSUME IInv, NEW r \in Requests, ReadConfirmation(r)
  PROVE  IInv'
<1> USE DEF IInv
<1>1. /\ UNCHANGED <<today, evening, company, request, seat, provision, removal>>
      /\ State(r, "provisioning") /\ LockFree(request[r].pool)
      /\ confirming' = [confirming EXCEPT ![r] =
                          [step |-> "counted", at |-> [Idle.at EXCEPT !.day = confirming[r].at.day]]]
  BY DEF ReadConfirmation, Confirmable, rows
<1>2. PICK c : c = [step |-> "counted", at |-> [Idle.at EXCEPT !.day = confirming[r].at.day]]
  OBVIOUS
<1>3. c \in Confirmations /\ c.step = "counted" /\ c.at.day = confirming[r].at.day
  BY <1>2, RequestParts DEF Confirmations, Clocks, Idle
<1>4. /\ confirming' \in [Requests -> Confirmations] /\ confirming'[r] = c
      /\ \A q \in Requests : q # r => confirming'[q] = confirming[q]
  BY <1>1, <1>2, <1>3 DEF TypeOK, Confirmations, Clocks
<1>5. ConfirmInv'
  BY <1>1, <1>3, <1>4 DEF ConfirmInv, State, Locked, LockFree
<1> QED
  BY <1>1, <1>4, <1>5, RowsKept

\* A confirmation ends, and what is settled meanwhile is not under confirmation.
LEMMA IdleTyped ==
  ASSUME IInv, NEW r \in Requests, confirming' = [confirming EXCEPT ![r] = Idle]
  PROVE  /\ confirming' \in [Requests -> Confirmations] /\ confirming'[r].step = None
         /\ \A q \in Requests :
              /\ confirming'[q].at.day <= confirming[q].at.day
              /\ confirming'[q].step # None => q # r /\ confirming'[q] = confirming[q]
<1>1. confirming \in [Requests -> Confirmations] /\ Idle \in Confirmations
  BY MovesAssumption DEF IInv, TypeOK, Confirmations, Clocks, Idle, Days
<1>2. /\ confirming'[r] = Idle /\ confirming' \in [Requests -> Confirmations]
      /\ \A q \in Requests : q # r => confirming'[q] = confirming[q]
  BY <1>1
<1>3. Idle.at.day = 0 /\ Idle.step = None
  BY DEF Idle
<1>4. \A q \in Requests : confirming[q].at.day \in Nat
  BY RequestParts DEF IInv
<1> QED
  BY <1>2, <1>3, <1>4

LEMMA RefuseKeeps ==
  ASSUME IInv, NEW r \in Requests, RefuseConfirmation(r)
  PROVE  IInv'
<1>1. /\ UNCHANGED <<today, evening, company, request, seat, provision, removal>>
      /\ confirming' = [confirming EXCEPT ![r] = Idle]
  BY DEF RefuseConfirmation, rows
<1>2. \A q \in Requests :
        confirming[q].step # None => State(q, "provisioning")'
  BY <1>1 DEF IInv, ConfirmInv, State
<1>3. ConfirmInv'
  BY <1>1, <1>2, IdleTyped, SameTime, ConfirmStays
<1> QED
  BY <1>1, <1>3, IdleTyped, RowsKept

\* Whose confirmation has counted has no seat yet, and a clock that is not ahead.
LEMMA ConfirmingParts ==
  ASSUME IInv, NEW r \in Requests, confirming[r].step = "counted"
  PROVE  /\ State(r, "provisioning") /\ ~State(r, None) /\ request[r].pool \in Pools
         /\ seat[r].status = None
         /\ confirming[r].at.day \in Days /\ confirming[r].at.day <= today
         /\ \A q \in Requests : Locked(q) /\ request[q].pool = request[r].pool => q = r
<1>1. State(r, "provisioning") /\ ~State(r, None)
  BY DEF IInv, ConfirmInv, State, None
<1>2. request[r].pool \in Pools /\ confirming[r].at.day \in Days
  BY <1>1, RequestParts DEF IInv, Confirmations, Clocks
<1> QED
  BY <1>1, <1>2 DEF IInv, ConfirmInv, RowInv, Locked

LEMMA WriteKeeps ==
  ASSUME IInv, NEW r \in Requests, WriteConfirmation(r)
  PROVE  IInv'
<1> USE DEF IInv
<1>0. PICK attestedOn : attestedOn = confirming[r].at.day
  OBVIOUS
<1>1. /\ State(r, "provisioning") /\ request[r].pool \in Pools /\ seat[r].status = None
      /\ attestedOn \in Days /\ attestedOn <= today
  BY <1>0, ConfirmingParts DEF WriteConfirmation
<1>2. /\ confirming' = [confirming EXCEPT ![r] = Idle]
      /\ UNCHANGED <<today, evening, company>>
  BY DEF WriteConfirmation
<1>3. CASE UNCHANGED rows
  <2>1. \A q \in Requests : confirming[q].step # None => State(q, "provisioning")'
    BY <1>3 DEF ConfirmInv, State, rows
  <2>2. ConfirmInv'
    BY <1>2, <1>3, <2>1, IdleTyped, SameTime, ConfirmStays DEF rows
  <2> QED
    BY <1>2, <1>3, <2>2, IdleTyped, RowsKept DEF rows
<1>4. CASE /\ ~Overlaps(Holder(r), request[r].pool, attestedOn)
           /\ seat' = [seat EXCEPT ![r] = [status |-> "open", startedOn |-> attestedOn, endedOn |-> 0]]
           /\ request' = [request EXCEPT ![r].state = "active"]
           /\ provision' = [provision EXCEPT ![r] = "confirmed"]
           /\ UNCHANGED removal
  <2>1. /\ request' \in [Requests -> {NoRequest} \cup Entries]
        /\ request'[r].state = "active"
        /\ request'[r].person = request[r].person /\ request'[r].pool = request[r].pool
        /\ request'[r].company = request[r].company /\ request'[r].from = request[r].from
        /\ \A q \in Requests : q # r => request'[q] = request[q]
    BY <1>1, <1>4, StateUpdate DEF States, State, None
  <2>2. PICK s : s = [status |-> "open", startedOn |-> attestedOn, endedOn |-> 0]
    OBVIOUS
  <2>3. s \in SeatRows /\ s.status = "open" /\ s.startedOn = attestedOn
    BY <1>1, <2>2, RequestParts DEF SeatRows
  <2>4. /\ seat' \in [Requests -> SeatRows] /\ seat'[r] = s
        /\ \A q \in Requests : q # r => seat'[q] = seat[q]
    BY <1>4, <2>2, <2>3 DEF TypeOK, SeatRows
  <2>5. (\A q \in Requests :
           request'[q].from # Nobody => request'[request'[q].from].pool # request'[q].pool)
        /\ FromInv'
    <3>1. /\ \A q \in Requests : request'[q].from = request[q].from
          /\ \A q \in Requests : request'[q].pool = request[q].pool
          /\ \A q \in Requests : State(q, "offboarding") \/ State(q, "deprovisioned") =>
                                   State(q, "offboarding")' \/ State(q, "deprovisioned")'
      BY <1>1, <2>1 DEF State
    <3> QED
      BY <2>1, <3>1, OriginsKept
  <2>6. TypeOK'
    BY <1>1, <1>2, <1>4, <2>1, <2>4, <2>5, IdleTyped DEF TypeOK, SeatRows, Confirmations, Clocks
  <2>7. RowInv'
    <3>1. removal[r] = NoRemoval
      BY <1>1 DEF RowInv
    <3> QED
      BY <1>1, <1>4, <2>1, <2>4, <3>1 DEF RowInv, State, TypeOK, None
  <2>8. SeatInv'
    <3>1. today \in Nat /\ UtcDay \in Nat /\ today <= UtcDay /\ UtcDay' = UtcDay /\ today' = today
          /\ attestedOn \in Nat
      BY <1>1, <1>2, RequestParts, SameTime DEF Days
    <3>2. attestedOn <= UtcDay
      BY <1>1, <3>1
    <3> QED
      BY <2>3, <2>4, <3>1, <3>2 DEF SeatInv, Open
  <2>9. ConfirmInv'
    <3>1. \A q \in Requests :
            confirming'[q].step # None => State(q, "provisioning")' /\ request'[q].pool = request[q].pool
      BY <1>2, <2>1, IdleTyped DEF ConfirmInv, State
    <3> QED
      BY <1>2, <3>1, IdleTyped, SameTime, ConfirmStays
  <2>10. DisjointInv'
    <3>1. \A q \in Requests : /\ q # r /\ Holder(q) = Holder(r) /\ request[q].pool = request[r].pool
                              /\ seat[q].status # None
                              => Before(q, r)'
      <4>1. SUFFICES ASSUME NEW q \in Requests, q # r, Holder(q) = Holder(r),
                            request[q].pool = request[r].pool, seat[q].status # None
                     PROVE  Before(q, r)'
        OBVIOUS
      <4>2. seat[q].status = "ended" /\ ~(attestedOn <= seat[q].endedOn)
        BY <1>4, <4>1, RequestParts DEF Overlaps, Holder, Open, SeatRows
      <4>3. seat[q].endedOn \in Int /\ attestedOn \in Int
        BY <1>1, RequestParts DEF SeatRows, Days
      <4> QED
        BY <2>3, <2>4, <4>1, <4>2, <4>3 DEF Before
    <3>2. \A q \in Requests : Holder(q)' = Holder(q) /\ request'[q].pool = request[q].pool
      BY <2>1 DEF Holder
    <3>3. \A q, t \in Requests : q # r /\ t # r /\ Before(q, t) => Before(q, t)'
      BY <2>4 DEF Before
    <3>4. SUFFICES ASSUME NEW q \in Requests, NEW t \in Requests, q # t,
                          Holder(q) = Holder(t), request[q].pool = request[t].pool,
                          seat'[q].status # None, seat'[t].status # None
                   PROVE  Before(q, t)' \/ Before(t, q)'
      BY <3>2 DEF DisjointInv
    <3>5. CASE q = r
      BY <2>4, <3>1, <3>4, <3>5
    <3>6. CASE t = r
      BY <2>4, <3>1, <3>4, <3>6
    <3>7. CASE q # r /\ t # r
      BY <2>4, <3>3, <3>4, <3>7 DEF DisjointInv
    <3> QED
      BY <3>5, <3>6, <3>7
  <2> QED
    BY <2>5, <2>6, <2>7, <2>8, <2>9, <2>10
<1> QED
  BY <1>0, <1>3, <1>4 DEF WriteConfirmation
LEMMA MarkNotDoneKeeps ==
  ASSUME IInv, NEW r \in Requests, MarkNotDone(r)
  PROVE  IInv'
<1> USE DEF IInv
<1>1. /\ State(r, "provisioning") /\ ~State(r, None) /\ ~Locked(r)
      /\ request' = [request EXCEPT ![r].state = "failed"]
      /\ provision' = [provision EXCEPT ![r] = "failed"]
      /\ UNCHANGED <<today, evening, company, seat, removal>>
      /\ confirming' = [confirming EXCEPT ![r] = Idle]
  BY DEF MarkNotDone, State, None
<1>2. /\ request' \in [Requests -> {NoRequest} \cup Entries]
      /\ request'[r].state = "failed"
      /\ request'[r].person = request[r].person /\ request'[r].pool = request[r].pool
      /\ request'[r].company = request[r].company /\ request'[r].from = request[r].from
      /\ \A q \in Requests : q # r => request'[q] = request[q]
  BY <1>1, StateUpdate DEF States
<1>3. (\A q \in Requests :
         request'[q].from # Nobody => request'[request'[q].from].pool # request'[q].pool)
      /\ FromInv'
  <2>1. /\ \A q \in Requests : request'[q].from = request[q].from
        /\ \A q \in Requests : request'[q].pool = request[q].pool
        /\ \A q \in Requests : State(q, "offboarding") \/ State(q, "deprovisioned") =>
                                 State(q, "offboarding")' \/ State(q, "deprovisioned")'
    BY <1>1, <1>2 DEF State
  <2> QED
    BY <1>2, <2>1, OriginsKept
<1>4. TypeOK'
  BY <1>1, <1>2, <1>3, IdleTyped DEF TypeOK, Confirmations, Clocks
<1>5. RowInv'
  BY <1>1, <1>2 DEF RowInv, State, TypeOK, None
<1>6. SeatInv' /\ DisjointInv'
  <2>1. \A q \in Requests :
          request'[q].person = request[q].person /\ request'[q].pool = request[q].pool
    BY <1>2
  <2> QED
    BY <1>1, <2>1, SameTime, SeatsStay
<1>7. ConfirmInv'
  <2>1. \A q \in Requests :
          confirming'[q].step # None => State(q, "provisioning")' /\ request'[q].pool = request[q].pool
    BY <1>1, <1>2, IdleTyped DEF ConfirmInv, State
  <2> QED
    BY <1>1, <2>1, IdleTyped, SameTime, ConfirmStays
<1> QED
  BY <1>3, <1>4, <1>5, <1>6, <1>7

-------------------------------------------------------------------------------
(* Giving a seat up                                                        *)

LEMMA StartOffboardingKeeps ==
  ASSUME IInv, NEW r \in Requests, StartOffboarding(r)
  PROVE  IInv'
<1> USE DEF IInv
<1>1. /\ State(r, "active") /\ ~State(r, None)
      /\ request' = [request EXCEPT ![r].state = "offboarding"]
      /\ removal' = [removal EXCEPT ![r] = [status |-> "pending", context |-> "offboarding"]]
      /\ UNCHANGED <<today, evening, company, seat, provision, confirming>>
  BY DEF StartOffboarding, State, None
<1>2. /\ request' \in [Requests -> {NoRequest} \cup Entries]
      /\ request'[r].state = "offboarding"
      /\ request'[r].person = request[r].person /\ request'[r].pool = request[r].pool
      /\ request'[r].company = request[r].company /\ request'[r].from = request[r].from
      /\ \A q \in Requests : q # r => request'[q] = request[q]
  BY <1>1, StateUpdate DEF States
<1>3. (\A q \in Requests :
         request'[q].from # Nobody => request'[request'[q].from].pool # request'[q].pool)
      /\ FromInv'
  <2>1. /\ \A q \in Requests : request'[q].from = request[q].from
        /\ \A q \in Requests : request'[q].pool = request[q].pool
        /\ \A q \in Requests : State(q, "offboarding") \/ State(q, "deprovisioned") =>
                                 State(q, "offboarding")' \/ State(q, "deprovisioned")'
    BY <1>1, <1>2 DEF State
  <2> QED
    BY <1>2, <2>1, OriginsKept
<1>4. TypeOK'
  BY <1>1, <1>2, <1>3 DEF TypeOK
<1>5. RowInv'
  BY <1>1, <1>2 DEF RowInv, State, TypeOK, None
<1>6. SeatInv' /\ DisjointInv'
  <2>1. \A q \in Requests :
          request'[q].person = request[q].person /\ request'[q].pool = request[q].pool
    BY <1>2
  <2> QED
    BY <1>1, <2>1, SameTime, SeatsStay
<1>7. ConfirmInv'
  <2>1. \A q \in Requests :
          /\ confirming'[q].at.day <= confirming[q].at.day
          /\ confirming'[q].step # None =>
               /\ confirming'[q].step = confirming[q].step
               /\ State(q, "provisioning")' /\ request'[q].pool = request[q].pool
    BY <1>1, <1>2, RequestParts DEF ConfirmInv, State
  <2> QED
    BY <1>1, <1>4, <2>1, SameTime, ConfirmStays DEF TypeOK, Confirmations, Clocks
<1> QED
  BY <1>3, <1>4, <1>5, <1>6, <1>7

LEMMA CompleteOffboardingKeeps ==
  ASSUME IInv, NEW r \in Requests, CompleteOffboarding(r)
  PROVE  IInv'
<1> USE DEF IInv
<1>1. /\ State(r, "offboarding") /\ ~State(r, None) /\ Open(r) /\ seat[r].startedOn <= today
      /\ seat' = [seat EXCEPT ![r].status = "ended", ![r].endedOn = today]
      /\ request' = [request EXCEPT ![r].state = "deprovisioned"]
      /\ removal' = [removal EXCEPT ![r].status = "confirmed"]
      /\ UNCHANGED <<today, evening, company, provision, confirming>>
  BY DEF CompleteOffboarding, State, None
<1>2. /\ request' \in [Requests -> {NoRequest} \cup Entries]
      /\ request'[r].state = "deprovisioned"
      /\ request'[r].person = request[r].person /\ request'[r].pool = request[r].pool
      /\ request'[r].company = request[r].company /\ request'[r].from = request[r].from
      /\ \A q \in Requests : q # r => request'[q] = request[q]
  BY <1>1, StateUpdate DEF States
<1>3. (\A q \in Requests :
         request'[q].from # Nobody => request'[request'[q].from].pool # request'[q].pool)
      /\ FromInv'
  <2>1. /\ \A q \in Requests : request'[q].from = request[q].from
        /\ \A q \in Requests : request'[q].pool = request[q].pool
        /\ \A q \in Requests : State(q, "offboarding") \/ State(q, "deprovisioned") =>
                                 State(q, "offboarding")' \/ State(q, "deprovisioned")'
    BY <1>1, <1>2 DEF State
  <2> QED
    BY <1>2, <2>1, OriginsKept
<1>4. PICK s : s = [seat[r] EXCEPT !.status = "ended", !.endedOn = today]
  OBVIOUS
<1>5. /\ s \in SeatRows /\ s.status = "ended" /\ s.endedOn = today
      /\ s.startedOn = seat[r].startedOn
  <2>1. seat[r] \in SeatRows /\ today \in Int
    BY RequestParts
  <2> QED
    BY <1>4, <2>1 DEF SeatRows
<1>6. /\ seat' \in [Requests -> SeatRows] /\ seat'[r] = s
      /\ \A q \in Requests : q # r => seat'[q] = seat[q]
  <2>1. seat \in [Requests -> SeatRows]
    BY DEF TypeOK, SeatRows
  <2>2. seat' = [seat EXCEPT ![r] = s]
    BY <1>1, <1>4, <2>1
  <2> QED
    BY <1>5, <2>1, <2>2
<1>7. /\ removal' \in [Requests -> RemovalRows] /\ removal'[r].status = "confirmed"
      /\ \A q \in Requests : q # r => removal'[q] = removal[q]
  <2>1. removal \in [Requests -> RemovalRows]
    BY DEF TypeOK, RemovalRows
  <2>2. [removal[r] EXCEPT !.status = "confirmed"] \in RemovalRows
    BY RequestParts DEF RemovalRows
  <2>3. [removal[r] EXCEPT !.status = "confirmed"].status = "confirmed"
    BY RequestParts DEF RemovalRows
  <2> QED
    BY <1>1, <2>1, <2>2, <2>3
<1>8. TypeOK'
  BY <1>1, <1>2, <1>3, <1>6, <1>7 DEF TypeOK, SeatRows, RemovalRows
<1>9. RowInv'
  BY <1>1, <1>2, <1>6, <1>7 DEF RowInv, State, TypeOK, None
<1>10. SeatInv'
  <2>1. UtcDay' = UtcDay /\ today \in Nat
    BY <1>1, SameTime, RequestParts
  <2> QED
    BY <1>1, <1>5, <1>6, <2>1 DEF SeatInv, Open
<1>11. ConfirmInv'
  <2>1. \A q \in Requests :
          /\ confirming'[q].at.day <= confirming[q].at.day
          /\ confirming'[q].step # None =>
               /\ confirming'[q].step = confirming[q].step
               /\ State(q, "provisioning")' /\ request'[q].pool = request[q].pool
    BY <1>1, <1>2, RequestParts DEF ConfirmInv, State
  <2> QED
    BY <1>1, <1>8, <2>1, SameTime, ConfirmStays DEF TypeOK, Confirmations, Clocks
<1>12. DisjointInv'
  <2>1. SUFFICES ASSUME NEW q \in Requests, NEW t \in Requests, q # t,
                        Holder(q)' = Holder(t)', request'[q].pool = request'[t].pool,
                        seat'[q].status # None, seat'[t].status # None
                 PROVE  Before(q, t)' \/ Before(t, q)'
    BY DEF DisjointInv
  <2>2. Before(q, t) \/ Before(t, q)
    BY <1>1, <1>2, <1>6, <2>1 DEF DisjointInv, Holder, Open, None
  <2> QED
    BY <1>1, <1>5, <1>6, <2>1, <2>2 DEF Before, Open
<1> QED
  BY <1>3, <1>8, <1>9, <1>10, <1>11, <1>12

LEMMA TimeKeeps ==
  ASSUME IInv, Nightfall \/ Midnight
  PROVE  IInv'
<1> USE DEF IInv
<1>1. /\ today' \in Days /\ today' \in Nat /\ today <= today'
      /\ evening' \in BOOLEAN /\ (evening' => today' < MaxDay)
      /\ UtcDay' \in Nat /\ UtcDay <= UtcDay'
      /\ UNCHANGED <<company, request, seat, provision, removal, confirming>>
  <2>1. /\ today \in Nat /\ today <= MaxDay /\ MaxDay \in Nat /\ evening \in BOOLEAN
        /\ (evening => today < MaxDay)
    BY MovesAssumption DEF TypeOK, Days
  <2>2. CASE Nightfall
    <3>1. today' = today /\ evening' = TRUE /\ evening = FALSE /\ today < MaxDay
      BY <2>1, <2>2 DEF Nightfall
    <3>2. UtcDay = today /\ UtcDay' = today + 1
      BY <3>1 DEF UtcDay
    <3> QED
      BY <2>1, <2>2, <3>1, <3>2 DEF Nightfall, Days, rows
  <2>3. CASE Midnight
    <3>1. today' = today + 1 /\ evening' = FALSE /\ evening = TRUE /\ today < MaxDay
      BY <2>1, <2>3 DEF Midnight
    <3>2. UtcDay = today + 1 /\ UtcDay' = today + 1
      BY <3>1 DEF UtcDay
    <3>3. UNCHANGED <<company, request, seat, provision, removal, confirming>>
      BY <2>3 DEF Midnight, rows
    <3>4. today' \in Nat /\ today' <= MaxDay /\ today <= today' /\ UtcDay <= UtcDay' /\ UtcDay' \in Nat
      BY <2>1, <3>1, <3>2
    <3>5. today' \in Days
      BY <2>1, <3>4 DEF Days
    <3>6. evening' \in BOOLEAN /\ (evening' => today' < MaxDay)
      BY <3>1
    <3> QED
      BY <3>3, <3>4, <3>5, <3>6
  <2> QED
    BY <2>2, <2>3
<1>2. SeatInv' /\ DisjointInv'
  BY <1>1, SeatsStay
<1>3. ConfirmInv'
  <2>1. \A q \in Requests :
          confirming'[q].at.day <= confirming[q].at.day /\ (confirming[q].step # None => State(q, "provisioning")')
    BY <1>1, RequestParts DEF ConfirmInv, State
  <2> QED
    BY <1>1, <2>1, ConfirmStays DEF TypeOK, Confirmations, Clocks
<1> QED
  BY <1>1, <1>2, <1>3 DEF TypeOK, RowInv, FromInv, State

-------------------------------------------------------------------------------
(* Moves                                                                   *)

LEMMA MoveAccountKeeps ==
  ASSUME IInv, NEW r \in Requests, NEW p \in Pools, MoveAccount(r, p)
  PROVE  IInv'
<1> USE DEF IInv
<1>1. /\ State(r, "active") /\ Open(r) /\ request[r].pool # p /\ Unused # {}
      /\ removal' = [removal EXCEPT ![r] = [status |-> "pending", context |-> "move"]]
      /\ UNCHANGED <<today, evening, company, seat>>
  BY DEF MoveAccount, Movable, Elsewhere
<1>2. PICK q \in Fill(1) :
        /\ request' = [request EXCEPT ![r].state = "offboarding",
                         ![q] = [state |-> "provisioning", person |-> Holder(r),
                                 company |-> request[r].company, pool |-> p, from |-> r]]
        /\ provision' = [provision EXCEPT ![q] = "pending"]
        /\ confirming' = Younger(NoRows, Row(p, q))
  BY DEF MoveAccount
<1>3. q \in Requests /\ State(q, None) /\ q # r /\ request[r] \in Entries
  BY <1>1, <1>2, FillsOne, UnusedFinite, RequestParts DEF State, None
<1>4. PICK old, new :
        /\ old = [request[r] EXCEPT !.state = "offboarding"]
        /\ new = [state |-> "provisioning", person |-> Holder(r),
                  company |-> request[r].company, pool |-> p, from |-> r]
  OBVIOUS
<1>5. /\ old \in Entries /\ old.state = "offboarding" /\ old.person = request[r].person
      /\ old.pool = request[r].pool /\ old.from = request[r].from
      /\ new \in Entries /\ new.state = "provisioning" /\ new.pool = p /\ new.from = r
  BY <1>3, <1>4 DEF Entries, Holder
<1>6. /\ request' \in [Requests -> {NoRequest} \cup Entries]
      /\ request'[r] = old /\ request'[q] = new
      /\ \A t \in Requests : t # r /\ t # q => request'[t] = request[t]
  <2>1. request \in [Requests -> {NoRequest} \cup Entries]
    BY DEF TypeOK
  <2>2. request' = [request EXCEPT ![r] = old, ![q] = new]
    BY <1>2, <1>4
  <2> QED
    BY <1>3, <1>5, <2>1, <2>2
<1>7. \A t \in Requests : request[t].from # Nobody =>
        request[t].from \in Requests /\ request[t].from # q /\ request[t].from # r /\ t # q
  BY <1>1, <1>3, RequestParts DEF FromInv, State, None
<1>8. /\ request[q].from = Nobody /\ seat[q].status = None /\ provision[q] = None
  BY <1>3, RequestParts DEF RowInv, NoSeat
<1>15. /\ confirming' \in [Requests -> Confirmations]
       /\ \A t \in Requests : /\ confirming'[t].step = confirming[t].step
                              /\ confirming'[t].at.day = confirming[t].at.day
  BY <1>2, <1>3, RowsTyped, YoungerParts
<1>9. \A t \in Requests :
        request'[t].from # Nobody => request'[request'[t].from].pool # request'[t].pool
  <2>1. \A t \in Requests : request[t].from # Nobody => request[request[t].from].pool # request[t].pool
    BY DEF TypeOK
  <2> QED
    BY <1>1, <1>3, <1>5, <1>6, <1>7, <2>1
<1>10. TypeOK'
  BY <1>1, <1>2, <1>3, <1>6, <1>9, <1>15 DEF TypeOK, Confirmations, Clocks
<1>11. FromInv'
  <2>1. SUFFICES ASSUME NEW t \in Requests, request'[t].from # Nobody
                 PROVE  /\ request'[t].from \in Requests
                        /\ request'[request'[t].from].state \in {"offboarding", "deprovisioned"}
                        /\ \A u \in Requests : request'[u].from = request'[t].from => t = u
    BY DEF FromInv
  <2>2. CASE t = q
    BY <1>3, <1>5, <1>6, <1>7, <2>1, <2>2, RequestsNatural
  <2>3. CASE t # q
    <3>1. request'[t].from = request[t].from /\ request[t].from \in Requests
          /\ request[t].from # q /\ request[t].from # r /\ request[t].from # Nobody
      BY <1>5, <1>6, <1>7, <2>1, <2>3
    <3>2. request[request[t].from].state \in {"offboarding", "deprovisioned"}
      BY <3>1 DEF FromInv
    <3>3. \A u \in Requests : request'[u].from = request[t].from => t = u
      <4>1. \A u \in Requests : u # q => request'[u].from = request[u].from
        BY <1>5, <1>6
      <4>2. request'[q].from = r
        BY <1>5, <1>6
      <4> QED
        BY <3>1, <4>1, <4>2 DEF FromInv
    <3> QED
      BY <1>6, <3>1, <3>2, <3>3
  <2> QED
    BY <2>2, <2>3
<1>12. RowInv'
  BY <1>1, <1>2, <1>3, <1>5, <1>6, <1>8 DEF RowInv, State, TypeOK, None
<1>13. SeatInv' /\ DisjointInv'
  <2>1. \A t \in Requests : seat[t].status # None =>
          request'[t].person = request[t].person /\ request'[t].pool = request[t].pool
    BY <1>5, <1>6, <1>8
  <2> QED
    BY <1>1, <2>1, SameTime, SeatsStay
<1>14. ConfirmInv'
  <2>1. \A t \in Requests : confirming[t].step # None => t # q /\ t # r /\ State(t, "provisioning")
    BY <1>1, <1>3 DEF ConfirmInv, State, None
  <2>2. \A t \in Requests :
          /\ confirming'[t].at.day <= confirming[t].at.day
          /\ confirming'[t].step # None =>
               /\ confirming'[t].step = confirming[t].step
               /\ State(t, "provisioning")' /\ request'[t].pool = request[t].pool
    BY <1>6, <1>15, <2>1, RequestParts DEF State
  <2> QED
    BY <1>1, <1>15, <2>2, SameTime, ConfirmStays
<1> QED
  BY <1>10, <1>11, <1>12, <1>13, <1>14
\* What a move to another company does: the open seats of the person in the old
\* company end yesterday, and each has exactly one successor that begins today, by UTC.
CompanyMove(n, c, mine, new, heir) ==
  /\ mine = {r \in Requests : request[r].person = n /\ Open(r) /\ request[r].company = company[n]}
  /\ \A q \in new : State(q, None)
  /\ \A r \in mine : ~State(r, None) /\ seat[r].startedOn < UtcDay /\ LockFree(request[r].pool)
  /\ \A p, q \in new : heir[p] = heir[q] => p = q
  /\ \A r \in mine : \E q \in new : heir[q] = r
  /\ seat' \in [Requests -> SeatRows] /\ request' \in [Requests -> {NoRequest} \cup Entries]
  /\ \A q \in mine : /\ seat'[q].status = "ended" /\ seat'[q].endedOn = UtcDay - 1
                     /\ seat'[q].startedOn = seat[q].startedOn
                     /\ request'[q] = request[q]
  /\ \A q \in new : /\ seat'[q].status = "open" /\ seat'[q].startedOn = UtcDay
                    /\ request'[q].state = "active" /\ request'[q].person = n
                    /\ request'[q].company = c /\ request'[q].from = Nobody
                    /\ request'[q].pool = request[heir[q]].pool
  /\ \A q \in Requests : q \notin mine /\ q \notin new =>
       seat'[q] = seat[q] /\ request'[q] = request[q]
  /\ company[n] # c /\ company' = [company EXCEPT ![n] = c]
  /\ confirming' \in [Requests -> Confirmations]
  /\ \A q \in Requests : confirming'[q].step = confirming[q].step
                         /\ confirming'[q].at.day = confirming[q].at.day
  /\ UNCHANGED <<today, evening, provision, removal>>

LEMMA MoveCompanyParts ==
  ASSUME IInv, NEW n \in Persons, NEW c \in Companies, MoveCompany(n, c)
  PROVE  \E mine, new \in SUBSET Requests : \E heir \in [new -> mine] :
           CompanyMove(n, c, mine, new, heir)
<1> USE DEF IInv
<1> DEFINE mine == {r \in Requests : /\ request[r].person = n /\ Open(r)
                                      /\ request[r].company = company[n]}
           new  == Fill(Cardinality(mine))
<1>3. /\ Cardinality(mine) <= Cardinality(Unused)
      /\ \A r \in mine : seat[r].startedOn < UtcDay /\ LockFree(request[r].pool)
      /\ company[n] # c /\ company' = [company EXCEPT ![n] = c]
      /\ UNCHANGED <<today, evening, provision, removal>>
      /\ \E heir \in [new -> mine] :
           /\ \A r \in mine : \E q \in new : heir[q] = r
           /\ seat' = [q \in Requests |->
                IF q \in mine THEN [seat[q] EXCEPT !.status = "ended", !.endedOn = UtcDay - 1]
                ELSE IF q \in new THEN [status |-> "open", startedOn |-> UtcDay, endedOn |-> 0]
                ELSE seat[q]]
           /\ request' = [q \in Requests |->
                IF q \in new
                  THEN [state |-> "active", person |-> n, company |-> c,
                        pool |-> request[heir[q]].pool, from |-> Nobody]
                  ELSE request[q]]
           /\ confirming' = Younger([p \in Pools |-> {q \in new : request[heir[q]].pool = p}], NoRows)
  BY DEF MoveCompany
<1>1. mine = {r \in Requests : request[r].person = n /\ Open(r) /\ request[r].company = company[n]}
  OBVIOUS
<1>2. new = Fill(Cardinality(mine))
  OBVIOUS
<1> HIDE DEF mine, new
<1>4. PICK heir \in [new -> mine] :
           /\ \A r \in mine : \E q \in new : heir[q] = r
           /\ seat' = [q \in Requests |->
                IF q \in mine THEN [seat[q] EXCEPT !.status = "ended", !.endedOn = UtcDay - 1]
                ELSE IF q \in new THEN [status |-> "open", startedOn |-> UtcDay, endedOn |-> 0]
                ELSE seat[q]]
           /\ request' = [q \in Requests |->
                IF q \in new
                  THEN [state |-> "active", person |-> n, company |-> c,
                        pool |-> request[heir[q]].pool, from |-> Nobody]
                  ELSE request[q]]
           /\ confirming' = Younger([p \in Pools |-> {q \in new : request[heir[q]].pool = p}], NoRows)
  BY <1>3
<1>5. mine \in SUBSET Requests /\ IsFiniteSet(mine) /\ Cardinality(mine) \in Nat
  BY <1>1, RequestsNatural, FS_Subset, FS_CardinalityType
<1>6. new \subseteq Unused /\ IsFiniteSet(new) /\ Cardinality(new) = Cardinality(mine)
  BY <1>2, <1>3, <1>5, FillsUnused
<1>7. new \in SUBSET Requests /\ \A q \in new : State(q, None)
  BY <1>6, UnusedFinite, RequestParts
<1>8. \A r \in mine : ~State(r, None) /\ r \notin new
  BY <1>1, <1>7 DEF RowInv, Open, NoSeat, None
<1>9. \A p, q \in new : heir[p] = heir[q] => p = q
  <2>1. SUFFICES ASSUME NEW p \in new, NEW q \in new, heir[p] = heir[q], p # q
                 PROVE  FALSE
    OBVIOUS
  <2>2. PICK rest : rest = new \ {p}
    OBVIOUS
  <2>3. IsFiniteSet(rest) /\ Cardinality(rest) = Cardinality(mine) - 1
    BY <1>6, <2>1, <2>2, FS_RemoveElement
  <2>4. PICK back : back = [r \in mine |-> CHOOSE t \in rest : heir[t] = r]
    OBVIOUS
  <2>5. \A r \in mine : \E t \in rest : heir[t] = r
    BY <1>4, <2>1, <2>2
  <2>6. \A r \in mine : back[r] \in rest /\ heir[back[r]] = r
    BY <2>4, <2>5
  <2>7. back \in [mine -> rest] /\ ~\E r, t \in mine : r # t /\ back[r] = back[t]
    BY <2>4, <2>6
  <2>8. Cardinality(rest) < Cardinality(mine)
    BY <1>5, <2>3
  <2> QED
    BY <1>5, <2>3, <2>7, <2>8, FS_PigeonHole
<1>10. UtcDay - 1 \in Int /\ UtcDay \in Days
  BY MovesAssumption DEF TypeOK, Days, UtcDay
<1>11. \A q \in mine : /\ seat'[q] \in SeatRows
                       /\ seat'[q].status = "ended" /\ seat'[q].endedOn = UtcDay - 1
                       /\ seat'[q].startedOn = seat[q].startedOn
                       /\ request'[q] = request[q]
  <2>1. SUFFICES ASSUME NEW q \in mine
                 PROVE  /\ seat'[q] \in SeatRows
                        /\ seat'[q].status = "ended" /\ seat'[q].endedOn = UtcDay - 1
                        /\ seat'[q].startedOn = seat[q].startedOn
                        /\ request'[q] = request[q]
    OBVIOUS
  <2>2. q \in Requests /\ q \notin new /\ seat[q] \in SeatRows
    BY <1>5, <1>8, RequestParts
  <2>3. PICK s : s = [seat[q] EXCEPT !.status = "ended", !.endedOn = UtcDay - 1]
    OBVIOUS
  <2>4. s \in SeatRows /\ s.status = "ended" /\ s.endedOn = UtcDay - 1 /\ s.startedOn = seat[q].startedOn
    BY <1>10, <2>2, <2>3 DEF SeatRows
  <2>5. seat'[q] = s
    BY <1>4, <2>2, <2>3
  <2> QED
    BY <1>4, <2>2, <2>4, <2>5
<1>12. \A q \in new : /\ seat'[q] \in SeatRows /\ request'[q] \in Entries
                      /\ seat'[q].status = "open" /\ seat'[q].startedOn = UtcDay
                      /\ request'[q].state = "active" /\ request'[q].person = n
                      /\ request'[q].company = c /\ request'[q].from = Nobody
                      /\ request'[q].pool = request[heir[q]].pool
  <2>1. SUFFICES ASSUME NEW q \in new
                 PROVE  /\ seat'[q] \in SeatRows /\ request'[q] \in Entries
                        /\ seat'[q].status = "open" /\ seat'[q].startedOn = UtcDay
                        /\ request'[q].state = "active" /\ request'[q].person = n
                        /\ request'[q].company = c /\ request'[q].from = Nobody
                        /\ request'[q].pool = request[heir[q]].pool
    OBVIOUS
  <2>2. q \in Requests /\ q \notin mine /\ heir[q] \in mine
    BY <1>7, <1>8
  <2>3. request[heir[q]].pool \in Pools
    BY <1>5, <1>8, <2>2, RequestParts
  <2>4. seat'[q] = [status |-> "open", startedOn |-> UtcDay, endedOn |-> 0]
    BY <1>4, <2>2
  <2>5. request'[q] = [state |-> "active", person |-> n, company |-> c,
                       pool |-> request[heir[q]].pool, from |-> Nobody]
    BY <1>4, <2>2
  <2> QED
    BY <1>10, <2>3, <2>4, <2>5 DEF SeatRows, Entries
<1>13. \A q \in Requests : q \notin mine /\ q \notin new =>
         seat'[q] = seat[q] /\ request'[q] = request[q]
  BY <1>4
<1>14. seat' \in [Requests -> SeatRows] /\ request' \in [Requests -> {NoRequest} \cup Entries]
  <2>1. \A q \in Requests : seat'[q] \in SeatRows /\ request'[q] \in {NoRequest} \cup Entries
    BY <1>11, <1>12, <1>13, RequestParts
  <2>2. seat' = [q \in Requests |-> seat'[q]] /\ request' = [q \in Requests |-> request'[q]]
    BY <1>4
  <2> QED
    BY <2>1, <2>2
<1>16. /\ confirming' \in [Requests -> Confirmations]
       /\ \A q \in Requests : confirming'[q].step = confirming[q].step
                              /\ confirming'[q].at.day = confirming[q].at.day
  <2>1. PICK seats : seats = [p \in Pools |-> {q \in new : request[heir[q]].pool = p}]
    OBVIOUS
  <2>2. seats \in [Pools -> SUBSET Requests] /\ NoRows \in [Pools -> SUBSET Requests]
    BY <1>7, <2>1 DEF NoRows
  <2>3. confirming' = Younger(seats, NoRows)
    BY <1>4, <2>1
  <2> QED
    BY <2>2, <2>3, YoungerParts
<1>15. CompanyMove(n, c, mine, new, heir)
  BY <1>1, <1>3, <1>4, <1>7, <1>8, <1>9, <1>11, <1>12, <1>13, <1>14, <1>16 DEF CompanyMove
<1> QED
  BY <1>5, <1>7, <1>15
LEMMA MoveCompanyKeeps ==
  ASSUME IInv, NEW n \in Persons, NEW c \in Companies, MoveCompany(n, c)
  PROVE  IInv'
<1> USE DEF IInv
<1>0. PICK mine \in SUBSET Requests, new \in SUBSET Requests :
        \E heir \in [new -> mine] : CompanyMove(n, c, mine, new, heir)
  BY MoveCompanyParts
<1>1. PICK heir \in [new -> mine] : CompanyMove(n, c, mine, new, heir)
  BY <1>0
<1>2. UNCHANGED <<today, evening, provision, removal>>
      /\ company' = [company EXCEPT ![n] = c]
      /\ confirming' \in [Requests -> Confirmations]
      /\ \A q \in Requests : confirming'[q].step = confirming[q].step
                             /\ confirming'[q].at.day = confirming[q].at.day
  BY <1>1 DEF CompanyMove
<1>3. /\ seat' \in [Requests -> SeatRows] /\ request' \in [Requests -> {NoRequest} \cup Entries]
      /\ \A q \in Requests : q \notin new => request'[q] = request[q]
      /\ \A q \in Requests : q \notin new /\ q \notin mine => seat'[q] = seat[q]
  BY <1>1 DEF CompanyMove
<1>4. \A q \in mine : /\ q \notin new /\ Open(q) /\ Holder(q) = n /\ seat[q].startedOn < UtcDay
                      /\ seat'[q].status = "ended" /\ seat'[q].endedOn = UtcDay - 1
                      /\ seat'[q].startedOn = seat[q].startedOn
  BY <1>1 DEF CompanyMove, Holder
<1>5. \A q \in new : /\ State(q, None) /\ request[q].from = Nobody
                     /\ seat[q].status = None /\ provision[q] = None /\ removal[q] = NoRemoval
                     /\ seat'[q].status = "open" /\ seat'[q].startedOn = UtcDay
                     /\ request'[q].state = "active" /\ request'[q].person = n
                     /\ request'[q].from = Nobody
                     /\ request'[q].pool = request[heir[q]].pool
  BY <1>1, RequestParts DEF CompanyMove, RowInv, NoSeat
<1>6. \A q \in Requests : request[q].from # Nobody =>
        request[q].from \in Requests /\ request[q].from \notin new /\ q \notin new
  BY <1>5 DEF FromInv, State, None
<1>7. TypeOK'
  <2>1. \A q \in Requests :
          request'[q].from # Nobody => request'[request'[q].from].pool # request'[q].pool
    BY <1>3, <1>5, <1>6 DEF TypeOK
  <2> QED
    BY <1>2, <1>3, <2>1 DEF TypeOK, SeatRows, Confirmations, Clocks
<1>8. RowInv'
  <2>1. \A q \in mine : ~State(q, None) /\ ~State(q, "provisioning") /\ ~State(q, "failed")
    BY <1>4 DEF RowInv, Open, NoSeat, None
  <2> QED
    BY <1>2, <1>3, <1>5, <2>1 DEF RowInv, State, None
<1>9. SeatInv'
  <2>1. SUFFICES ASSUME NEW r \in Requests
                 PROVE  /\ Open(r)' => seat'[r].startedOn <= UtcDay'
                        /\ seat'[r].status = "ended" =>
                             seat'[r].startedOn <= seat'[r].endedOn /\ seat'[r].endedOn <= today'
    BY DEF SeatInv
  <2>2. /\ seat[r].startedOn \in Int /\ today \in Int /\ UtcDay \in Int
        /\ UtcDay <= today + 1 /\ UtcDay' = UtcDay
    BY <1>2, SameTime, RequestParts DEF SeatRows, Days
  <2>3. CASE r \in mine
    BY <1>2, <1>4, <2>2, <2>3 DEF Open
  <2>4. CASE r \in new
    BY <1>2, <1>5, <2>2, <2>4 DEF Open
  <2>5. CASE r \notin mine /\ r \notin new
    BY <1>2, <1>3, <2>2, <2>5 DEF SeatInv, Open
  <2> QED
    BY <2>3, <2>4, <2>5
<1>10. ConfirmInv'
  <2>1. \A q \in Requests : confirming[q].step # None => q \notin new /\ State(q, "provisioning")
    BY <1>5 DEF ConfirmInv, State, None
  <2>2. \A q \in Requests :
          /\ confirming'[q].at.day <= confirming[q].at.day
          /\ confirming'[q].step # None =>
               /\ confirming'[q].step = confirming[q].step
               /\ State(q, "provisioning")' /\ request'[q].pool = request[q].pool
    BY <1>2, <1>3, <2>1, RequestParts DEF State
  <2> QED
    BY <1>2, <2>2, SameTime, ConfirmStays
<1>11. FromInv'
  BY <1>3, <1>5, <1>6 DEF FromInv
<1>12. DisjointInv'
  <2>1. SUFFICES ASSUME NEW q \in Requests, NEW t \in Requests, q # t,
                        Holder(q)' = Holder(t)', request'[q].pool = request'[t].pool,
                        seat'[q].status # None, seat'[t].status # None
                 PROVE  Before(q, t)' \/ Before(t, q)'
    BY DEF DisjointInv
  \* Seats that were there before stay apart, whether one of them ends or not.
  <2>2. CASE q \notin new /\ t \notin new
    <3>1. Before(q, t) \/ Before(t, q)
      BY <1>3, <1>4, <2>1, <2>2 DEF DisjointInv, Holder, Open, None
    <3>2. \A u, v \in Requests : u \notin new /\ v \notin new /\ Before(u, v) => Before(u, v)'
      <4>1. SUFFICES ASSUME NEW u \in Requests, NEW v \in Requests, u \notin new, v \notin new,
                            Before(u, v)
                     PROVE  Before(u, v)'
        OBVIOUS
      <4>2. u \notin mine
        BY <1>4, <4>1 DEF Before, Open
      <4>3. seat'[v].startedOn = seat[v].startedOn
        BY <1>3, <1>4, <4>1
      <4> QED
        BY <1>3, <4>1, <4>2, <4>3 DEF Before
    <3> QED
      BY <2>2, <3>1, <3>2
  \* A successor begins when its predecessor, and what came before it, has ended.
  <2>3. ASSUME NEW u \in Requests, NEW v \in new, u # v, Holder(u)' = Holder(v)',
               request'[u].pool = request'[v].pool, seat'[u].status # None
        PROVE  Before(u, v)'
    <3>1. heir[v] \in mine /\ heir[v] \in Requests /\ Holder(heir[v]) = n /\ Open(heir[v])
          /\ seat'[v].startedOn = UtcDay /\ request'[v].pool = request[heir[v]].pool
          /\ Holder(v)' = n
      BY <1>4, <1>5 DEF Holder
    <3>2. seat[heir[v]].startedOn < UtcDay /\ seat[heir[v]].startedOn \in Int /\ UtcDay \in Int
      BY <1>4, <3>1, RequestParts DEF SeatRows, Days
    <3>3. CASE u \in new
      <4>1. heir[u] \in mine /\ heir[u] # heir[v] /\ request[heir[u]].pool = request[heir[v]].pool
        BY <1>1, <1>5, <2>3, <3>1, <3>3 DEF CompanyMove
      <4>2. Holder(heir[u]) = n /\ Open(heir[u]) /\ heir[u] \in Requests
        BY <1>4, <4>1
      <4> QED
        BY <3>1, <4>1, <4>2 DEF DisjointInv, Before, Open, None
    <3>4. CASE u \in mine
      BY <1>4, <3>1, <3>2, <3>4 DEF Before
    <3>5. CASE u \notin mine /\ u \notin new
      <4>1. seat'[u] = seat[u] /\ request'[u] = request[u] /\ u # heir[v]
        BY <1>3, <3>1, <3>5
      <4>2. Before(u, heir[v])
        BY <2>3, <3>1, <4>1 DEF DisjointInv, Holder, Before, Open, None
      <4>3. seat[u].endedOn \in Int
        BY RequestParts DEF SeatRows
      <4> QED
        BY <3>1, <3>2, <4>1, <4>2, <4>3 DEF Before
    <3> QED
      BY <3>3, <3>4, <3>5
  <2>4. CASE t \in new
    BY <2>1, <2>3, <2>4
  <2>5. CASE q \in new
    BY <2>1, <2>3, <2>5
  <2> QED
    BY <2>2, <2>4, <2>5
<1> QED
  BY <1>7, <1>8, <1>9, <1>10, <1>11, <1>12

-------------------------------------------------------------------------------
(* One seat a person, one destination a seat                               *)

LEMMA InitHolds == Init => IInv
<1> SUFFICES ASSUME Init PROVE IInv
  OBVIOUS
<1> USE DEF Init
<1>1. 0 \in Days /\ 0 \in Int
  BY MovesAssumption DEF Days
<1>2. \A r \in Requests : State(r, None) /\ request[r].from = Nobody /\ seat[r] = NoSeat
                          /\ provision[r] = None /\ removal[r] = NoRemoval
  BY DEF State, NoRequest
<1>3. TypeOK
  BY <1>1, <1>2 DEF TypeOK, NoSeat, NoRemoval, None, Idle
<1>4. RowInv /\ SeatInv /\ FromInv /\ DisjointInv
  BY <1>2 DEF RowInv, SeatInv, FromInv, DisjointInv, State, Open, NoSeat, None
<1>5. ConfirmInv
  BY DEF ConfirmInv, Idle, Locked, None
<1> QED
  BY <1>3, <1>4, <1>5 DEF IInv

LEMMA StepKeeps == IInv /\ [Next]_vars => IInv'
<1> SUFFICES ASSUME IInv, [Next]_vars PROVE IInv'
  OBVIOUS
<1>1. ASSUME NEW n \in Persons,
             (\E p \in Pools : Issue(n, p)) \/ (\E c \in Companies : MoveCompany(n, c))
      PROVE  IInv'
  BY <1>1, IssueKeeps, MoveCompanyKeeps
<1>2. ASSUME NEW r \in Requests,
             \/ AskConfirmation(r) \/ ReadConfirmation(r) \/ RefuseConfirmation(r)
             \/ WriteConfirmation(r) \/ MarkNotDone(r)
             \/ StartOffboarding(r) \/ CompleteOffboarding(r)
             \/ \E p \in Pools : MoveAccount(r, p)
      PROVE  IInv'
  BY <1>2, AskKeeps, ReadKeeps, RefuseKeeps, WriteKeeps, MarkNotDoneKeeps,
     StartOffboardingKeeps, CompleteOffboardingKeeps, MoveAccountKeeps
<1>3. CASE Nightfall \/ Midnight
  BY <1>3, TimeKeeps
<1>4. CASE UNCHANGED vars
  BY <1>4 DEF vars, rows, IInv, TypeOK, RowInv, SeatInv, ConfirmInv, FromInv, DisjointInv,
     State, Open, Holder, Before, Locked, UtcDay
<1> QED
  BY <1>1, <1>2, <1>3, <1>4 DEF Next

LEMMA Inductive == Spec => []IInv
BY InitHolds, StepKeeps, PTL DEF Spec

\* The variables keep their types, and a seat is never moved to its own account.
THEOREM TypeCorrect == Spec => []TypeOK
<1>1. IInv => TypeOK
  BY DEF IInv
<1> QED
  BY <1>1, Inductive, PTL

\* A seat is moved to one account only, its request is deprovisioned with its
\* removal confirmed, and nobody has two seats of a pool on one day, whatever
\* moves, checklists and removals compete for them (cross-org-move.ts:200,
\* license_assignment_no_overlap).
THEOREM SeatsMoveOnce == Spec => []MovedOnce
<1>1. IInv => MovedOnce
  <2>1. SUFFICES ASSUME IInv PROVE MovedOnce
    OBVIOUS
  <2>2. \A q, r \in Requests : request[q].from = request[r].from /\ request[q].from # Nobody => q = r
    BY <2>1 DEF IInv, FromInv
  <2>3. \A r \in Requests : State(r, "deprovisioned") => removal[r].status = "confirmed"
    BY <2>1 DEF IInv, RowInv
  <2>4. \A r, q \in Requests, d \in Days :
          InForce(r, d) /\ InForce(q, d) /\ Holder(r) = Holder(q) /\ request[r].pool = request[q].pool
            => r = q
    <3>1. SUFFICES ASSUME NEW r \in Requests, NEW q \in Requests, NEW d \in Days, r # q,
                          InForce(r, d), InForce(q, d), Holder(r) = Holder(q),
                          request[r].pool = request[q].pool
                   PROVE  FALSE
      OBVIOUS
    <3>2. Before(q, r) \/ Before(r, q)
      BY <2>1, <3>1 DEF IInv, DisjointInv, InForce, Open, None
    <3>3. /\ seat[r].startedOn \in Int /\ seat[r].endedOn \in Int
          /\ seat[q].startedOn \in Int /\ seat[q].endedOn \in Int /\ d \in Int
      BY <2>1, RequestParts DEF IInv, SeatRows, Days
    <3> QED
      BY <3>1, <3>2, <3>3 DEF Before, InForce, Open
  <2> QED
    BY <2>2, <2>3, <2>4 DEF MovedOnce
<1> QED
  BY <1>1, Inductive, PTL
-------------------------------------------------------------------------------
(* What a step does to the seats                                           *)

\* Nobody gets or gives up a seat, changes companies, or settles a removal.
Quiet ==
  /\ seat' = seat /\ company' = company
  /\ today \in Nat /\ today' \in Nat /\ today <= today'
  /\ \A r \in Requests : seat[r].status # None =>
       /\ request'[r].person = request[r].person /\ request'[r].company = request[r].company
       /\ request'[r].pool = request[r].pool
       /\ State(r, "deprovisioned") => State(r, "deprovisioned")'

\* A request whose state alone changes keeps its holder, its company and its pool.
LEMMA StateKept ==
  ASSUME IInv, NEW r \in Requests, ~State(r, None), NEW s \in States,
         request' = [request EXCEPT ![r].state = s]
  PROVE  \A q \in Requests :
           /\ request'[q].person = request[q].person /\ request'[q].company = request[q].company
           /\ request'[q].pool = request[q].pool
BY StateUpdate DEF IInv

LEMMA StepKinds ==
  ASSUME IInv, [Next]_vars
  PROVE  \/ Quiet
         \/ \E r \in Requests : WriteConfirmation(r) \/ CompleteOffboarding(r)
         \/ \E n \in Persons, c \in Companies : MoveCompany(n, c)
<1> USE DEF IInv
<1>0. today \in Nat /\ today <= today
  BY MovesAssumption DEF TypeOK, Days
<1>1. ASSUME NEW n \in Persons, NEW p \in Pools, Issue(n, p) PROVE Quiet
  <2>1. PICK q \in Fill(1) :
          request' = [request EXCEPT ![q] = [state |-> "provisioning", person |-> n,
                           company |-> company[n], pool |-> p, from |-> Nobody]]
    BY <1>1 DEF Issue
  <2>2. q \in Requests /\ seat[q].status = None
    BY <1>1, <2>1, FillsOne, UnusedFinite, RequestParts DEF Issue, RowInv, NoSeat
  <2>3. \A t \in Requests : t # q => request'[t] = request[t]
    BY <2>1, <2>2 DEF TypeOK
  <2> QED
    BY <1>0, <1>1, <2>2, <2>3 DEF Issue, Quiet, State
<1>2. ASSUME NEW r \in Requests, NEW p \in Pools, MoveAccount(r, p) PROVE Quiet
  <2>1. PICK q \in Fill(1) :
          request' = [request EXCEPT ![r].state = "offboarding",
                           ![q] = [state |-> "provisioning", person |-> Holder(r),
                                   company |-> request[r].company, pool |-> p, from |-> r]]
    BY <1>2 DEF MoveAccount
  <2>2. /\ q \in Requests /\ seat[q].status = None /\ q # r
        /\ request[r] \in Entries /\ State(r, "active")
    BY <1>2, <2>1, FillsOne, UnusedFinite, RequestParts
       DEF MoveAccount, Movable, State, RowInv, NoSeat, None
  <2>3. PICK old : old = [request[r] EXCEPT !.state = "offboarding"]
    OBVIOUS
  <2>4. /\ old.person = request[r].person /\ old.company = request[r].company
        /\ old.pool = request[r].pool
    BY <2>2, <2>3 DEF Entries
  <2>5. request'[r] = old /\ \A t \in Requests : t # q /\ t # r => request'[t] = request[t]
    BY <2>1, <2>2, <2>3 DEF TypeOK
  <2> QED
    BY <1>0, <1>2, <2>2, <2>4, <2>5 DEF MoveAccount, Quiet, State
<1>3. ASSUME NEW r \in Requests, MarkNotDone(r) \/ StartOffboarding(r) PROVE Quiet
  <2>1. ~State(r, None) /\ ~State(r, "deprovisioned") /\ UNCHANGED <<today, company, seat>>
    BY <1>3 DEF MarkNotDone, StartOffboarding, State, None
  <2>2. PICK s \in States : request' = [request EXCEPT ![r].state = s]
    BY <1>3 DEF MarkNotDone, StartOffboarding, States
  <2>3. \A q \in Requests : q # r => request'[q] = request[q]
    BY <2>1, <2>2, StateUpdate
  <2> QED
    BY <1>0, <2>1, <2>2, <2>3, StateKept DEF Quiet, State
<1>4. ASSUME NEW r \in Requests,
             AskConfirmation(r) \/ ReadConfirmation(r) \/ RefuseConfirmation(r)
      PROVE  Quiet
  BY <1>0, <1>4 DEF AskConfirmation, ReadConfirmation, RefuseConfirmation, Quiet, State, rows
<1>5. CASE Nightfall \/ Midnight
  <2>1. today' \in Nat /\ today <= today'
    BY <1>0, <1>5 DEF Nightfall, Midnight
  <2> QED
    BY <1>0, <1>5, <2>1 DEF Nightfall, Midnight, Quiet, State, rows
<1>6. CASE UNCHANGED vars
  BY <1>0, <1>6 DEF Quiet, State, vars, rows
<1> QED
  BY <1>1, <1>2, <1>3, <1>4, <1>5, <1>6 DEF Next

\* A pool is locked by a confirmation that counts, and by nothing else.
LEMMA LocksStep ==
  ASSUME IInv, [Next]_vars, ~\E r \in Requests : ReadConfirmation(r)
  PROVE  \A r \in Requests : Locked(r)' => Locked(r) /\ request'[r].pool = request[r].pool
<1> USE DEF IInv
<1> DEFINE Goal == \A r \in Requests :
                     Locked(r)' => Locked(r) /\ request'[r].pool = request[r].pool
<1>0. \A q \in Requests : Locked(q) => State(q, "provisioning")
  BY DEF ConfirmInv, Locked, None
<1>1. ASSUME NEW n \in Persons, NEW p \in Pools, Issue(n, p) PROVE Goal
  <2>1. PICK q \in Fill(1) :
          /\ request' = [request EXCEPT ![q] = [state |-> "provisioning", person |-> n,
                           company |-> company[n], pool |-> p, from |-> Nobody]]
          /\ confirming' = Younger(NoRows, Row(p, q))
    BY <1>1 DEF Issue
  <2>2. q \in Requests /\ State(q, None)
    BY <1>1, <2>1, FillsOne, UnusedFinite, RequestParts DEF Issue
  <2>3. \A t \in Requests : t # q => request'[t] = request[t]
    BY <2>1, <2>2 DEF TypeOK
  <2>4. \A t \in Requests : confirming'[t].step = confirming[t].step
    BY <2>1, <2>2, RowsTyped, YoungerParts
  <2> QED
    BY <1>0, <2>2, <2>3, <2>4 DEF Locked, State, None
<1>2. ASSUME NEW r \in Requests, NEW p \in Pools, MoveAccount(r, p) PROVE Goal
  <2>1. PICK q \in Fill(1) :
          /\ request' = [request EXCEPT ![r].state = "offboarding",
                           ![q] = [state |-> "provisioning", person |-> Holder(r),
                                   company |-> request[r].company, pool |-> p, from |-> r]]
          /\ confirming' = Younger(NoRows, Row(p, q))
    BY <1>2 DEF MoveAccount
  <2>2. q \in Requests /\ State(q, None) /\ State(r, "active")
    BY <1>2, <2>1, FillsOne, UnusedFinite, RequestParts DEF MoveAccount, Movable
  <2>3. \A t \in Requests : t # q /\ t # r => request'[t] = request[t]
    BY <2>1, <2>2 DEF TypeOK
  <2>4. \A t \in Requests : confirming'[t].step = confirming[t].step
    BY <2>1, <2>2, RowsTyped, YoungerParts
  <2> QED
    BY <1>0, <2>2, <2>3, <2>4 DEF Locked, State, None
<1>3. ASSUME NEW n \in Persons, NEW c \in Companies, MoveCompany(n, c) PROVE Goal
  <2>1. PICK mine \in SUBSET Requests, new \in SUBSET Requests :
          \E heir \in [new -> mine] : CompanyMove(n, c, mine, new, heir)
    BY <1>3, MoveCompanyParts
  <2>2. /\ \A q \in new : State(q, None)
        /\ \A q \in Requests : q \notin new => request'[q] = request[q]
        /\ \A q \in Requests : confirming'[q].step = confirming[q].step
    BY <2>1 DEF CompanyMove
  <2> QED
    BY <1>0, <2>2 DEF Locked, State, None
<1>4. ASSUME NEW r \in Requests,
             \/ MarkNotDone(r) \/ StartOffboarding(r) \/ CompleteOffboarding(r)
             \/ RefuseConfirmation(r) \/ WriteConfirmation(r)
      PROVE  Goal
  <2>1. \A q \in Requests : request'[q].pool = request[q].pool
    <3>1. CASE UNCHANGED request
      BY <3>1
    <3>2. CASE ~UNCHANGED request
      <4>1. PICK s \in States : request' = [request EXCEPT ![r].state = s]
        BY <1>4, <3>2 DEF MarkNotDone, StartOffboarding, CompleteOffboarding,
           RefuseConfirmation, WriteConfirmation, States, rows
      <4>2. ~State(r, None)
        BY <1>4, <1>0 DEF MarkNotDone, StartOffboarding, CompleteOffboarding,
           RefuseConfirmation, WriteConfirmation, State, None, Locked, ConfirmInv
      <4> QED
        BY <4>1, <4>2, StateKept
    <3> QED
      BY <3>1, <3>2
  <2>2. \/ confirming' = confirming
        \/ confirming' = [confirming EXCEPT ![r] = Idle]
    BY <1>4 DEF MarkNotDone, StartOffboarding, CompleteOffboarding,
       RefuseConfirmation, WriteConfirmation
  <2>3. \A q \in Requests : Locked(q)' => Locked(q)
    BY <2>2, IdleTyped DEF Locked, None
  <2> QED
    BY <2>1, <2>3
<1>5. ASSUME NEW r \in Requests, AskConfirmation(r) PROVE Goal
  <2>1. /\ request' = request /\ request[r].pool \in Pools
        /\ confirming' = [Younger(Row(request[r].pool, r), NoRows) EXCEPT
                            ![r] = [step |-> "asked", at |-> Now]]
    BY <1>5, RequestParts DEF AskConfirmation, rows, State, None
  <2>2. PICK younger, c : younger = Younger(Row(request[r].pool, r), NoRows)
                          /\ c = [step |-> "asked", at |-> Now]
    OBVIOUS
  <2>3. /\ younger \in [Requests -> Confirmations] /\ c.step = "asked"
        /\ \A q \in Requests : younger[q].step = confirming[q].step
    BY <2>1, <2>2, RowsTyped, YoungerParts
  <2>4. confirming' = [younger EXCEPT ![r] = c]
    BY <2>1, <2>2
  <2> QED
    BY <2>1, <2>3, <2>4 DEF Locked
<1>6. CASE Nightfall \/ Midnight \/ UNCHANGED vars
  BY <1>6 DEF Nightfall, Midnight, Locked, vars, rows
<1> QED
  BY <1>1, <1>2, <1>3, <1>4, <1>5, <1>6 DEF Next

-------------------------------------------------------------------------------
(* Who moved in the evening                                                *)

\* Under a confirmation that writes, or a removal that ends, one seat changes.
LEMMA OneSeat ==
  ASSUME IInv, NEW r \in Requests, WriteConfirmation(r) \/ CompleteOffboarding(r)
  PROVE  /\ UNCHANGED <<today, evening, company>>
         /\ \A q \in Requests :
              /\ request'[q].person = request[q].person /\ request'[q].company = request[q].company
              /\ request'[q].pool = request[q].pool
         /\ \A q \in Requests : q # r => seat'[q] = seat[q] /\ request'[q] = request[q]
<1>1. ~State(r, None)
  BY ConfirmingParts DEF WriteConfirmation, CompleteOffboarding, State, None
<1>2. \/ UNCHANGED rows
      \/ /\ \E s \in States : request' = [request EXCEPT ![r].state = s]
         /\ \A q \in Requests : q # r => seat'[q] = seat[q]
  BY DEF WriteConfirmation, CompleteOffboarding, States, IInv, TypeOK
<1>3. CASE UNCHANGED rows
  BY <1>3 DEF WriteConfirmation, CompleteOffboarding, rows
<1>4. CASE /\ \E s \in States : request' = [request EXCEPT ![r].state = s]
           /\ \A q \in Requests : q # r => seat'[q] = seat[q]
  BY <1>1, <1>4, StateKept, StateUpdate DEF WriteConfirmation, CompleteOffboarding, IInv
<1> QED
  BY <1>2, <1>3, <1>4

\* A removal ends a seat that stands.
LEMMA CompleteParts ==
  ASSUME IInv, NEW r \in Requests, CompleteOffboarding(r)
  PROVE  /\ Open(r) /\ seat[r].startedOn <= today
         /\ ~Open(r)' /\ State(r, "deprovisioned")'
<1>1. PICK s : s = [seat[r] EXCEPT !.status = "ended", !.endedOn = today]
  OBVIOUS
<1>2. s.status = "ended"
  BY <1>1, RequestParts DEF IInv, SeatRows
<1>3. seat' = [seat EXCEPT ![r] = s]
  BY <1>1 DEF CompleteOffboarding
<1>4. seat'[r] = s
  BY <1>3 DEF IInv, TypeOK
<1>5. State(r, "deprovisioned")'
  <2>1. ~State(r, None) /\ "deprovisioned" \in States
        /\ request' = [request EXCEPT ![r].state = "deprovisioned"]
    BY DEF CompleteOffboarding, State, States, None
  <2> QED
    BY <2>1, StateUpdate DEF IInv, State
<1> QED
  BY <1>2, <1>4, <1>5 DEF CompleteOffboarding, Open

LEMMA EveningStep ==
  ASSUME IInv, EveningInv, [Next]_vars
  PROVE  EveningInv'
<1>1. SUFFICES ASSUME NEW r \in Requests,
                      seat'[r].status = "ended", seat'[r].endedOn = today',
                      ~State(r, "deprovisioned")'
               PROVE  \E s \in Requests :
                        /\ Open(s)' /\ Holder(s)' = Holder(r)' /\ ~Moved(s)'
                        /\ seat'[s].startedOn = today' + 1
  BY DEF EveningInv
<1> USE DEF IInv
<1>2. today \in Nat /\ seat[r].endedOn \in Int
      /\ (seat[r].status = "ended" => seat[r].endedOn <= today)
  BY RequestParts DEF SeatInv, SeatRows
\* What ends today was ended before, and so was its successor begun.
<1>3. ASSUME seat[r] = seat'[r], Holder(r)' = Holder(r), today' = today,
             ~State(r, "deprovisioned")
      PROVE  \E s \in Requests :
               Open(s) /\ Holder(s) = Holder(r) /\ ~Moved(s) /\ seat[s].startedOn = today + 1
  BY <1>1, <1>3 DEF EveningInv
<1>4. CASE Quiet
  <2>1. /\ seat[r] = seat'[r] /\ Holder(r)' = Holder(r) /\ ~State(r, "deprovisioned")
        /\ seat[r].status = "ended" /\ seat[r].endedOn = today'
        /\ today' \in Nat /\ today <= today'
    BY <1>1, <1>4 DEF Quiet, Holder, None
  <2>2. today' = today
    BY <1>2, <2>1
  <2>3. PICK s \in Requests :
               Open(s) /\ Holder(s) = Holder(r) /\ ~Moved(s) /\ seat[s].startedOn = today + 1
    BY <1>3, <2>1, <2>2
  <2> QED
    BY <1>4, <2>1, <2>2, <2>3 DEF Quiet, Open, Holder, Moved, None
<1>5. ASSUME NEW t \in Requests, WriteConfirmation(t) \/ CompleteOffboarding(t)
      PROVE  \E s \in Requests :
               /\ Open(s)' /\ Holder(s)' = Holder(r)' /\ ~Moved(s)'
               /\ seat'[s].startedOn = today' + 1
  <2>1. t # r
    <3>1. CASE CompleteOffboarding(t)
      BY <1>1, <3>1, CompleteParts
    <3>2. CASE WriteConfirmation(t)
      <4>1. seat[t].status = None /\ today' = today
        BY <3>2, ConfirmingParts DEF WriteConfirmation
      <4>2. seat'[t].status # "ended"
        <5>1. CASE seat' = seat
          BY <4>1, <5>1 DEF None
        <5>2. CASE seat' # seat
          <6>1. PICK d : seat' = [seat EXCEPT ![t] = [status |-> "open", startedOn |-> d, endedOn |-> 0]]
            BY <3>2, <5>2 DEF WriteConfirmation, rows
          <6> QED
            BY <6>1 DEF TypeOK
        <5> QED
          BY <5>1, <5>2
      <4> QED
        BY <1>1, <4>2
    <3> QED
      BY <1>5, <3>1, <3>2
  <2>2. PICK s \in Requests :
               Open(s) /\ Holder(s) = Holder(r) /\ ~Moved(s) /\ seat[s].startedOn = today + 1
    BY <1>1, <1>3, <1>5, <2>1, OneSeat DEF Holder, State
  <2>3. s # t
    <3>1. CASE CompleteOffboarding(t)
      BY <1>2, <2>2, <3>1, CompleteParts
    <3>2. CASE WriteConfirmation(t)
      BY <2>2, <3>2, ConfirmingParts DEF WriteConfirmation, Open, None
    <3> QED
      BY <1>5, <3>1, <3>2
  <2> QED
    BY <1>5, <2>1, <2>2, <2>3, OneSeat DEF Open, Holder, Moved
<1>6. ASSUME NEW n \in Persons, NEW c \in Companies, MoveCompany(n, c)
      PROVE  \E s \in Requests :
               /\ Open(s)' /\ Holder(s)' = Holder(r)' /\ ~Moved(s)'
               /\ seat'[s].startedOn = today' + 1
  <2>1. PICK mine \in SUBSET Requests, new \in SUBSET Requests :
          \E heir \in [new -> mine] : CompanyMove(n, c, mine, new, heir)
    BY <1>6, MoveCompanyParts
  <2>2. PICK heir \in [new -> mine] : CompanyMove(n, c, mine, new, heir)
    BY <2>1
  <2>3. today' = today /\ UtcDay \in Nat /\ UtcDay <= today + 1
        /\ company' = [company EXCEPT ![n] = c] /\ company \in [Persons -> Companies]
    BY <2>2, RequestParts DEF CompanyMove, TypeOK
  <2>4. CASE r \in mine
    <3>1. seat'[r].endedOn = UtcDay - 1 /\ request'[r].person = n
      BY <2>2, <2>4 DEF CompanyMove
    <3>2. UtcDay = today + 1
      BY <1>1, <1>2, <2>3, <3>1
    <3>3. PICK s \in new : heir[s] = r
      BY <2>2, <2>4 DEF CompanyMove
    <3>4. /\ s \in Requests /\ seat'[s].status = "open" /\ seat'[s].startedOn = UtcDay
          /\ request'[s].person = n /\ request'[s].company = c
      BY <2>2, <3>3 DEF CompanyMove
    <3> QED
      BY <2>3, <3>1, <3>2, <3>4 DEF Open, Holder, Moved
  <2>5. CASE r \in new
    BY <1>1, <2>2, <2>5 DEF CompanyMove
  <2>6. CASE r \notin mine /\ r \notin new
    <3>1. seat'[r] = seat[r] /\ request'[r] = request[r]
      BY <2>2, <2>6 DEF CompanyMove
    <3>2. PICK s \in Requests :
               Open(s) /\ Holder(s) = Holder(r) /\ ~Moved(s) /\ seat[s].startedOn = today + 1
      BY <1>1, <1>3, <2>3, <3>1 DEF Holder, State
    <3>3. seat[s].startedOn \in Nat
      BY RequestParts DEF SeatRows, Days
    <3>4. s \notin mine
      BY <1>2, <2>2, <2>3, <3>2, <3>3 DEF CompanyMove
    <3>5. s \notin new
      BY <2>2, <3>2 DEF CompanyMove, RowInv, Open, NoSeat, None
    <3>6. Holder(s) # n
      BY <2>2, <3>2, <3>4 DEF CompanyMove, Holder, Moved
    <3>7. seat'[s] = seat[s] /\ request'[s] = request[s]
      BY <2>2, <3>4, <3>5 DEF CompanyMove
    <3> QED
      BY <2>3, <3>1, <3>2, <3>6, <3>7 DEF Open, Holder, Moved
  <2> QED
    BY <2>4, <2>5, <2>6
<1> QED
  BY <1>1, <1>4, <1>5, <1>6, StepKinds

-------------------------------------------------------------------------------
(* The seats of a pool                                                     *)

LEMMA StandingFinite ==
  ASSUME NEW p
  PROVE  /\ IsFiniteSet(Standing(p)) /\ Cardinality(Standing(p)) \in Nat
         /\ IsFiniteSet(Standing(p)') /\ Cardinality(Standing(p)') \in Nat
<1>1. Standing(p) \in SUBSET Requests /\ Standing(p)' \in SUBSET Requests
  BY DEF Standing
<1> QED
  BY <1>1, RequestsNatural, FS_Subset, FS_CardinalityType

\* Where no lock is taken, a pool that is not locked is not locked.
LEMMA ClaimedShrinks ==
  ASSUME NEW p \in Pools,
         \A r \in Requests : Locked(r)' => Locked(r) /\ request'[r].pool = request[r].pool
  PROVE  Claimed(p)' <= Claimed(p) /\ Claimed(p) \in Nat /\ Claimed(p)' \in Nat
<1>1. LockFree(p) => LockFree(p)'
  BY DEF LockFree, Locked
<1> QED
  BY <1>1 DEF Claimed

\* No seat comes to stand.
LEMMA StandingShrinks ==
  ASSUME NEW p \in Pools,
         \A r \in Requests : Stands(r)' => Stands(r) /\ request'[r].pool = request[r].pool
  PROVE  Cardinality(Standing(p)') <= Cardinality(Standing(p))
<1>1. Standing(p)' \in SUBSET Standing(p)
  BY DEF Standing
<1> QED
  BY <1>1, StandingFinite, FS_Subset

LEMMA QuietStands ==
  ASSUME IInv, Quiet \/ \E r \in Requests : CompleteOffboarding(r)
  PROVE  \A q \in Requests : Stands(q)' => Stands(q) /\ request'[q].pool = request[q].pool
<1> USE DEF IInv
<1>1. SUFFICES ASSUME NEW q \in Requests, Stands(q)'
               PROVE  Stands(q) /\ request'[q].pool = request[q].pool
  OBVIOUS
<1>2. /\ today \in Nat /\ seat[q].startedOn \in Int /\ seat[q].endedOn \in Int
      /\ (seat[q].status = "ended" => seat[q].endedOn <= today)
  BY RequestParts DEF SeatInv, SeatRows, Days
<1>3. CASE Quiet
  <2>1. /\ seat' = seat /\ company' = company /\ today' \in Nat /\ today <= today'
        /\ seat[q].status # None
    BY <1>1, <1>3 DEF Quiet, Stands, InForce, Open, None
  <2>2. request'[q].pool = request[q].pool /\ ~Moved(q)
    BY <1>1, <1>3, <2>1 DEF Quiet, Stands, Moved, Holder
  <2>3. InForce(q, today)' => Open(q) \/ InForce(q, today)
    BY <1>2, <2>1 DEF InForce, Open
  <2>4. Open(q)' => Open(q)
    BY <2>1 DEF Open
  <2> QED
    BY <1>1, <2>2, <2>3, <2>4 DEF Stands
<1>4. ASSUME NEW r \in Requests, CompleteOffboarding(r)
      PROVE  Stands(q) /\ request'[q].pool = request[q].pool
  <2>1. /\ UNCHANGED <<today, company>> /\ request'[q].pool = request[q].pool
        /\ Moved(q)' = Moved(q)
    BY <1>4, OneSeat DEF Moved, Holder
  <2>2. CASE q = r
    BY <1>1, <1>4, <2>1, <2>2, CompleteParts DEF Stands
  <2>3. CASE q # r
    <3>1. seat'[q] = seat[q]
      BY <1>4, <2>3, OneSeat
    <3> QED
      BY <1>1, <2>1, <3>1 DEF Stands, InForce, Open
  <2> QED
    BY <2>2, <2>3
<1> QED
  BY <1>3, <1>4

\* A confirmation that is accepted has counted every seat of the pool that stands.
LEMMA ReadFits ==
  ASSUME IInv, NEW r \in Requests, ReadConfirmation(r), NEW p \in Pools,
         \A q \in Requests : ~OutOfSight(r, q),
         Cardinality(Standing(p)) + Claimed(p) <= Purchased[p]
  PROVE  (Cardinality(Standing(p)) + Claimed(p) <= Purchased[p])'
<1> USE DEF IInv
<1>1. /\ UNCHANGED <<today, evening, company, request, seat>> /\ Fits(r)
      /\ confirming' = [confirming EXCEPT ![r] =
                          [step |-> "counted", at |-> [Idle.at EXCEPT !.day = confirming[r].at.day]]]
  BY DEF ReadConfirmation, Confirmable, rows
<1>2. Standing(p)' = Standing(p)
  BY <1>1 DEF Standing, Stands, InForce, Open, Moved, Holder
<1>3. CASE p # request[r].pool
  <2>1. \A q \in Requests : q # r => confirming'[q] = confirming[q]
    BY <1>1 DEF TypeOK
  <2>2. LockFree(p) => LockFree(p)'
    BY <1>1, <1>3, <2>1 DEF LockFree
  <2>3. Claimed(p)' <= Claimed(p) /\ Claimed(p) \in Nat /\ Claimed(p)' \in Nat
    BY <2>2 DEF Claimed
  <2> QED
    BY <1>2, <2>3, StandingFinite, MovesAssumption
<1>4. CASE p = request[r].pool
  <2>1. PICK at : at = confirming[r].at
    OBVIOUS
  <2>2. /\ at.day \in Nat /\ at.day <= today /\ today \in Nat
        /\ \A q \in Requests : seat[q].startedOn \in Int /\ seat[q].endedOn \in Int
    BY <2>1, RequestParts DEF ConfirmInv, SeatRows, Days
  <2>3. PICK counted, mine : counted = HeldOn(p, at.day) \ at.seats
                             /\ mine = Reserved(p) \ ({r} \cup at.reservations)
    OBVIOUS
  <2>4. Standing(p) \in SUBSET counted
    <3>1. SUFFICES ASSUME NEW q \in Requests, request[q].pool = p, Stands(q)
                   PROVE  q \in counted
      BY DEF Standing
    <3>2. q \notin at.seats /\ seat[q].startedOn <= at.day
      BY <1>4, <2>1, <2>2, <3>1 DEF OutOfSight
    <3>3. InForce(q, at.day)
      BY <2>2, <3>1, <3>2 DEF Stands, InForce
    <3> QED
      BY <2>3, <3>1, <3>2, <3>3 DEF HeldOn, Stands
  <2>5. /\ IsFiniteSet(counted) /\ Cardinality(counted) \in Nat /\ Cardinality(mine) \in Nat
    <3>1. counted \in SUBSET Requests /\ mine \in SUBSET Requests
      BY <2>3 DEF HeldOn, Reserved
    <3> QED
      BY <3>1, RequestsNatural, FS_Subset, FS_CardinalityType
  <2>6. Cardinality(Standing(p)) <= Cardinality(counted)
    BY <2>4, <2>5, FS_Subset
  <2>7. Purchased[p] - Cardinality(counted) - Cardinality(mine) > 0
    BY <1>1, <1>4, <2>1, <2>3 DEF Fits, Free
  <2>8. Purchased[p] \in Nat /\ Cardinality(Standing(p)) \in Nat
    BY MovesAssumption, StandingFinite
  <2>9. Claimed(p)' \in {0, 1}
    BY DEF Claimed
  <2>10. Cardinality(Standing(p))' = Cardinality(Standing(p))
    BY <1>2
  <2> QED
    BY <2>5, <2>6, <2>7, <2>8, <2>9, <2>10
<1> QED
  BY <1>3, <1>4

\* A confirmation that writes takes the place that was kept for it.
LEMMA WriteFits ==
  ASSUME IInv, NEW r \in Requests, WriteConfirmation(r), NEW p \in Pools,
         \A q \in Requests : Locked(q)' => Locked(q) /\ request'[q].pool = request[q].pool,
         Cardinality(Standing(p)) + Claimed(p) <= Purchased[p]
  PROVE  (Cardinality(Standing(p)) + Claimed(p) <= Purchased[p])'
<1>1. /\ UNCHANGED <<today, evening, company>>
      /\ \A q \in Requests : request'[q].pool = request[q].pool /\ Moved(q)' = Moved(q)
      /\ \A q \in Requests : q # r => seat'[q] = seat[q]
  BY OneSeat DEF Moved, Holder
<1>2. \A q \in Requests : q # r => Stands(q)' = Stands(q)
  BY <1>1 DEF Stands, InForce, Open
<1>3. Cardinality(Standing(p)) \in Nat /\ Cardinality(Standing(p)') \in Nat
      /\ IsFiniteSet(Standing(p)) /\ Purchased[p] \in Nat
  BY StandingFinite, MovesAssumption
<1>4. CASE p # request[r].pool
  <2>1. Standing(p)' \in SUBSET Standing(p)
    BY <1>1, <1>2, <1>4 DEF Standing
  <2>2. Cardinality(Standing(p)') <= Cardinality(Standing(p))
    BY <1>3, <2>1, FS_Subset
  <2> QED
    BY <1>3, <2>2, ClaimedShrinks
<1>5. CASE p = request[r].pool
  <2>1. Standing(p)' \in SUBSET (Standing(p) \cup {r})
    BY <1>1, <1>2 DEF Standing
  <2>2. /\ IsFiniteSet(Standing(p) \cup {r})
        /\ Cardinality(Standing(p) \cup {r}) <= Cardinality(Standing(p)) + 1
    <3>1. PICK S : S = Standing(p)
      OBVIOUS
    <3>2. IsFiniteSet(S) /\ Cardinality(S) \in Nat
      BY <1>3, <3>1
    <3>3. /\ IsFiniteSet(S \cup {r})
          /\ Cardinality(S \cup {r}) = IF r \in S THEN Cardinality(S) ELSE Cardinality(S) + 1
      BY <3>2, FS_AddElement
    <3>4. Cardinality(S \cup {r}) <= Cardinality(S) + 1
      BY <3>2, <3>3
    <3> QED
      BY <3>1, <3>3, <3>4
  <2>3. Cardinality(Standing(p)') <= Cardinality(Standing(p) \cup {r})
        /\ Cardinality(Standing(p) \cup {r}) \in Nat
    BY <2>1, <2>2, FS_Subset, FS_CardinalityType
  <2>4. Claimed(p) = 1
    BY <1>5 DEF WriteConfirmation, Claimed, LockFree
  <2>5. Claimed(p)' = 0
    <3>1. confirming'[r].step = None
      BY IdleTyped DEF WriteConfirmation
    <3>2. \A q \in Requests : Locked(q) /\ request[q].pool = request[r].pool => q = r
      BY ConfirmingParts DEF WriteConfirmation
    <3>3. LockFree(p)'
      BY <1>5, <3>1, <3>2 DEF LockFree, Locked, None
    <3> QED
      BY <3>3 DEF Claimed
  <2> QED
    BY <1>3, <2>2, <2>3, <2>4, <2>5
<1> QED
  BY <1>4, <1>5

\* The successors of the seats that ended take their places, one each, and nothing
\* else comes to stand: nobody returns to a seat that was left behind.
LEMMA MoveFits ==
  ASSUME IInv, EveningInv, NEW n \in Persons, NEW c \in Companies, MoveCompany(n, c),
         NEW p \in Pools, \A r \in Requests : ~LeftBehind(r)
  PROVE  Cardinality(Standing(p)') <= Cardinality(Standing(p))
<1> USE DEF IInv
<1>0. PICK mine \in SUBSET Requests, new \in SUBSET Requests :
        \E heir \in [new -> mine] : CompanyMove(n, c, mine, new, heir)
  BY MoveCompanyParts
<1>1. PICK heir \in [new -> mine] : CompanyMove(n, c, mine, new, heir)
  BY <1>0
<1>2. /\ today' = today /\ today \in Nat /\ UtcDay \in Nat /\ UtcDay <= today + 1
      /\ company \in [Persons -> Companies] /\ company[n] # c
      /\ company' = [company EXCEPT ![n] = c]
  <2>1. today \in Nat /\ UtcDay \in Nat /\ UtcDay <= today + 1
    BY MovesAssumption DEF TypeOK, Days, UtcDay
  <2> QED
    BY <1>1, <2>1 DEF CompanyMove, TypeOK
<1>3. \A q \in mine : Stands(q) /\ ~Stands(q)'
  <2>1. SUFFICES ASSUME NEW q \in mine PROVE Stands(q) /\ ~Stands(q)'
    OBVIOUS
  <2>2. /\ Open(q) /\ Holder(q) = n /\ request[q].company = company[n] /\ request'[q] = request[q]
    BY <1>1 DEF CompanyMove, Holder
  <2> QED
    BY <1>2, <2>2 DEF Stands, Moved, Holder
<1>4. ASSUME NEW q \in Requests, q \notin mine, q \notin new, Stands(q)'
      PROVE  Stands(q) /\ request'[q].pool = request[q].pool
  <2>1. seat'[q] = seat[q] /\ request'[q] = request[q]
    BY <1>1, <1>4 DEF CompanyMove
  <2>2. Open(q) \/ InForce(q, today)
    BY <1>2, <1>4, <2>1 DEF Stands, InForce, Open
  <2>3. CASE Holder(q) # n
    BY <1>2, <1>4, <2>1, <2>2, <2>3 DEF Stands, Moved, Holder
  <2>4. CASE Holder(q) = n
    <3>1. Moved(q)
      BY <1>2, <1>4, <2>1, <2>4 DEF Stands, Moved, Holder
    <3>2. ~Open(q) /\ InForce(q, today) /\ ~State(q, "deprovisioned")
      BY <2>2, <3>1 DEF LeftBehind
    <3>3. seat[q].status = "ended" /\ seat[q].endedOn = today
      <4>1. seat[q].status = "ended" /\ today <= seat[q].endedOn /\ seat[q].endedOn \in Int
        BY <3>2, RequestParts DEF InForce, SeatRows
      <4> QED
        BY <1>2, <4>1 DEF SeatInv
    <3>4. PICK s \in Requests :
            Open(s) /\ Holder(s) = Holder(q) /\ ~Moved(s) /\ seat[s].startedOn = today + 1
      BY <3>2, <3>3 DEF EveningInv
    <3>5. s \in mine
      BY <1>1, <2>4, <3>4 DEF CompanyMove, Moved, Holder
    <3>6. seat[s].startedOn < UtcDay
      BY <1>1, <3>5 DEF CompanyMove
    <3> QED
      BY <1>2, <3>4, <3>6
  <2> QED
    BY <2>3, <2>4
<1>5. \A q \in new : request'[q].pool = request[heir[q]].pool
  BY <1>1 DEF CompanyMove
<1>6. PICK f : f = [q \in Standing(p)' |-> IF q \in new THEN heir[q] ELSE q]
  OBVIOUS
<1>7. \A q \in Standing(p)' : f[q] \in Standing(p)
  <2>1. SUFFICES ASSUME NEW q \in Requests, request'[q].pool = p, Stands(q)'
                 PROVE  (IF q \in new THEN heir[q] ELSE q) \in Standing(p)
    BY <1>6 DEF Standing
  <2>2. CASE q \in new
    BY <1>3, <1>5, <2>1, <2>2 DEF Standing
  <2>3. CASE q \notin new
    BY <1>3, <1>4, <2>1, <2>3 DEF Standing
  <2> QED
    BY <2>2, <2>3
<1>8. \A q, t \in Standing(p)' : q # t => f[q] # f[t]
  <2>1. SUFFICES ASSUME NEW q \in Standing(p)', NEW t \in Standing(p)', q # t
                 PROVE  f[q] # f[t]
    OBVIOUS
  <2>2. q \notin mine /\ t \notin mine
    BY <1>3, <2>1 DEF Standing
  <2>3. \A u, v \in new : heir[u] = heir[v] => u = v
    BY <1>1 DEF CompanyMove
  <2> QED
    BY <1>6, <2>1, <2>2, <2>3
<1>9. f \in [Standing(p)' -> Standing(p)]
  BY <1>6, <1>7
<1>10. ~(Cardinality(Standing(p)) < Cardinality(Standing(p)'))
  BY <1>8, <1>9, StandingFinite, FS_PigeonHole
<1> QED
  BY <1>10, StandingFinite

LEMMA FitsStep ==
  ASSUME IInv, EveningInv, FitInv, [MCNext]_<<vars, history>>
  PROVE  FitInv'
<1>1. [Next]_vars
  BY DEF MCNext
<1>2. SUFFICES ASSUME ~leftBehind', ~overlooked'
               PROVE  /\ \A r \in Requests : ~LeftBehind(r)'
                      /\ \A p \in Pools : (Cardinality(Standing(p)) + Claimed(p) <= Purchased[p])'
  BY DEF FitInv, Claimed, LockFree, LeftBehind
<1>3. ~leftBehind /\ ~overlooked /\ (MCNext => ~Overlook)
  <2>1. CASE MCNext
    <3>1. /\ leftBehind' = (leftBehind \/ \E r \in Requests : LeftBehind(r)')
          /\ overlooked' = (overlooked \/ Overlook)
      BY <2>1 DEF MCNext
    <3> QED
      BY <1>2, <3>1, Zenon
  <2>2. CASE UNCHANGED <<vars, history>> /\ ~MCNext
    BY <1>2, <2>2 DEF history
  <2> QED
    BY <2>1, <2>2
<1>4. /\ \A r \in Requests : ~LeftBehind(r)
      /\ \A p \in Pools : Cardinality(Standing(p)) + Claimed(p) <= Purchased[p]
  BY <1>3 DEF FitInv, Claimed
<1>5. \A r \in Requests : ~LeftBehind(r)'
  <2>1. CASE MCNext
    BY <1>2, <2>1 DEF MCNext
  <2>2. CASE UNCHANGED <<vars, history>>
    BY <1>4, <2>2 DEF vars, rows, LeftBehind, InForce, Open, State, Moved, Holder
  <2> QED
    BY <2>1, <2>2
<1>6. ASSUME NEW p \in Pools
      PROVE  (Cardinality(Standing(p)) + Claimed(p) <= Purchased[p])'
  <2>0. /\ Cardinality(Standing(p)) \in Nat /\ Cardinality(Standing(p)') \in Nat
        /\ Purchased[p] \in Nat
    BY StandingFinite, MovesAssumption
  <2>1. ASSUME NEW r \in Requests, ReadConfirmation(r)
        PROVE  (Cardinality(Standing(p)) + Claimed(p) <= Purchased[p])'
    <3>1. confirming' # confirming
      <4>1. confirming[r].step = "asked" /\ confirming'[r].step = "counted"
        <5>1. PICK c : c = [step |-> "counted", at |-> [Idle.at EXCEPT !.day = confirming[r].at.day]]
          OBVIOUS
        <5>2. confirming' = [confirming EXCEPT ![r] = c] /\ c.step = "counted"
          BY <2>1, <5>1 DEF ReadConfirmation
        <5> QED
          BY <2>1, <5>2 DEF ReadConfirmation, IInv, TypeOK
      <4> QED
        BY <4>1
    <3>2. ~Overlook
      BY <1>3, <3>1 DEF vars
    <3> QED
      BY <1>4, <2>1, <3>2, ReadFits DEF Overlook
  <2>2. CASE ~\E r \in Requests : ReadConfirmation(r)
    <3>1. \A r \in Requests : Locked(r)' => Locked(r) /\ request'[r].pool = request[r].pool
      BY <1>1, <2>2, LocksStep
    <3>2. Claimed(p)' <= Claimed(p) /\ Claimed(p) \in Nat /\ Claimed(p)' \in Nat
      BY <3>1, ClaimedShrinks
    <3>3. CASE Quiet \/ \E r \in Requests : CompleteOffboarding(r)
      BY <1>4, <2>0, <3>2, <3>3, QuietStands, StandingShrinks
    <3>4. ASSUME NEW r \in Requests, WriteConfirmation(r)
          PROVE  (Cardinality(Standing(p)) + Claimed(p) <= Purchased[p])'
      BY <1>4, <3>1, <3>4, WriteFits
    <3>5. ASSUME NEW n \in Persons, NEW c \in Companies, MoveCompany(n, c)
          PROVE  (Cardinality(Standing(p)) + Claimed(p) <= Purchased[p])'
      BY <1>4, <2>0, <3>2, <3>5, MoveFits
    <3> QED
      BY <1>1, <3>3, <3>4, <3>5, StepKinds
  <2> QED
    BY <2>1, <2>2
<1> QED
  BY <1>5, <1>6

\* However many seats are moved, and although a move reserves a seat nobody has
\* counted (cross-org-move.ts:200), no pool has more seats in force than were
\* purchased, as long as nobody leaves a seat behind and every confirmation that
\* was accepted had all standing seats in its sight: the lock of the pool keeps a
\* place for the one that has counted.
THEOREM PoolsFit == MCSpec => []SeatsFit
<1>1. MCInit => IInv /\ EveningInv /\ FitInv
  <2>1. SUFFICES ASSUME MCInit PROVE IInv /\ EveningInv /\ FitInv
    OBVIOUS
  <2>2. IInv
    BY <2>1, InitHolds DEF MCInit
  <2>3. \A r \in Requests : seat[r].status = None
    BY <2>1 DEF MCInit, Init, NoSeat
  <2>4. EveningInv
    BY <2>3 DEF EveningInv, None
  <2>5. \A r \in Requests : ~Open(r) /\ ~InForce(r, today)
    BY <2>3 DEF InForce, Open, None
  <2>6. \A p \in Pools : Standing(p) = {} /\ LockFree(p)
    BY <2>1, <2>5 DEF MCInit, Init, Standing, Stands, LockFree, Idle, None
  <2>7. \A p \in Pools : Cardinality(Standing(p)) + Claimed(p) <= Purchased[p]
    <3>1. SUFFICES ASSUME NEW p \in Pools
                   PROVE  Cardinality(Standing(p)) + Claimed(p) <= Purchased[p]
      OBVIOUS
    <3>2. Cardinality(Standing(p)) = 0 /\ Claimed(p) = 0 /\ Purchased[p] \in Nat
      BY <2>6, FS_EmptySet, MovesAssumption DEF Claimed
    <3> QED
      BY <3>2
  <2> QED
    BY <2>2, <2>4, <2>5, <2>7 DEF FitInv, LeftBehind
<1>2. IInv /\ EveningInv /\ FitInv /\ [MCNext]_<<vars, history>> => IInv' /\ EveningInv' /\ FitInv'
  <2>1. [MCNext]_<<vars, history>> => [Next]_vars
    BY DEF MCNext
  <2> QED
    BY <2>1, StepKeeps, EveningStep, FitsStep
<1>3. IInv /\ EveningInv /\ FitInv => SeatsFit
  <2>1. SUFFICES ASSUME FitInv, ~leftBehind, ~overlooked, NEW p \in Pools
                 PROVE  Cardinality(Held(p)) <= Purchased[p]
    BY DEF SeatsFit
  <2>2. Held(p) \in SUBSET Standing(p)
    BY DEF Held, HeldOn, Standing, Stands
  <2>3. Cardinality(Held(p)) <= Cardinality(Standing(p)) /\ Cardinality(Held(p)) \in Nat
    BY <2>2, StandingFinite, FS_Subset, FS_CardinalityType
  <2>4. Cardinality(Standing(p)) + Claimed(p) <= Purchased[p]
    BY <2>1 DEF FitInv
  <2>5. Claimed(p) \in Nat /\ Cardinality(Standing(p)) \in Nat /\ Purchased[p] \in Nat
    BY StandingFinite, MovesAssumption DEF Claimed
  <2> QED
    BY <2>3, <2>4, <2>5
<1> QED
  BY <1>1, <1>2, <1>3, PTL DEF MCSpec

-------------------------------------------------------------------------------
(* MonthlyClose: the invariant                                             *)

\* One person's seats: no day belongs to two of them.
SeatType == [company : Organizations, from : 1..MonthDays + 1, to : 1..Forever]

Seats(S) ==
  /\ IsFiniteSet(S) /\ S \subseteq SeatType
  /\ \A s \in S : s.from <= s.to
  /\ \A s, t \in S : Meet(s, t) => s = t

Rates(R) ==
  /\ R \in [RateIds -> RateRows \cup {NoRate}]
  /\ \A i, j \in RateIds : Meet(R[i], R[j]) => i = j

\* The seats begin by today, and end by today or are current.
RegisterInv ==
  /\ Seats(register)
  /\ \A s \in register : s.from <= day /\ (s.to <= day \/ s.to = Forever)

\* The months of one who never closes early have ended when they are drawn: the days
\* of a seat that fall into the month change no more.
Known(s) ==
  day > MonthDays /\ \E t \in register : t.company = s.company /\ t.from = s.from /\ LastDay(t) = LastDay(s)

SnapshotInv ==
  /\ Seats(snapshot)
  /\ closing = NoRun => snapshot = {}
  /\ ~eager => \A s \in snapshot : Known(s)

RunInv ==
  /\ run \in [Runs -> {NotYet, "running", "succeeded", "failed", "lost"}]
  /\ closing \in Runs \cup {NoRun}
  /\ closing # NoRun => run[closing] = "running"
  /\ ~eager => \A r \in Runs : run[r] = "running" => day > MonthDays

\* Every line of a statement falls into one seat of its company, and into no other line.
Charged(c, l) ==
  day > MonthDays /\ \E s \in register : s.company = c /\ s.from <= l.from /\ l.to <= LastDay(s)

StatementType == [status : {NotYet, "draft", "final"}, lines : SUBSET LineType]

StatementInv ==
  /\ statement \in [Organizations -> StatementType]
  /\ \A c \in Organizations :
       /\ IsFiniteSet(statement[c].lines)
       /\ \A l \in statement[c].lines : l.from <= l.to /\ (~eager => Charged(c, l))
       /\ \A k, l \in statement[c].lines : Meet(k, l) => k = l
       /\ Final(c) => \A l \in statement[c].lines : Priced(l)

ReconInv ==
  /\ recon \in [status : {NotYet, "open", "reconciled", "overridden"}, rollup : Nat, invoice : Invoices \cup {-1}]
  /\ recon.status \in {"reconciled", "overridden"} => recon.rollup <= Total(FinalLines)

CloseInv ==
  /\ day \in 1..MonthDays + 1 /\ eager \in BOOLEAN
  /\ Rates(rate) /\ RegisterInv /\ SnapshotInv /\ RunInv /\ StatementInv /\ ReconInv

-------------------------------------------------------------------------------
(* Sums over finite sets                                                   *)

\* Among the subsets of a finite set, each collection has a smallest one: what holds of
\* a set when it holds of all smaller sets holds of every set.
LEMMA MinimalSet ==
  ASSUME NEW S, IsFiniteSet(S), NEW Bad \in SUBSET SUBSET S, Bad # {}
  PROVE  \E T \in Bad : \A U \in Bad : U \subseteq T => U = T
<1>1. Bad \subseteq FiniteSubsetsOf(S)
  BY FS_Subset DEF FiniteSubsetsOf
<1>2. PICK T \in Bad : \A U \in Bad : ~(<<U, T>> \in StrictSubsetOrdering(S))
  BY <1>1, FS_StrictSubsetOrderingWellFounded, WFMin
<1>3. \A U \in Bad : U \subseteq T => U = T
  BY <1>2 DEF StrictSubsetOrdering
<1> QED
  BY <1>3

\* The element a sum takes first.
Pick(s) == CHOOSE x \in s : TRUE

\* f gives every subset of L the sum of the weights w of its elements.
Sums(f, w, L) ==
  f = [s \in SUBSET L |-> IF s = {} THEN 0 ELSE w[Pick(s)] + f[s \ {Pick(s)}]]

IsSum(f, w, L) ==
  /\ f \in [SUBSET L -> Int] /\ f[{}] = 0
  /\ \A s \in SUBSET L : s # {} => f[s] = w[Pick(s)] + f[s \ {Pick(s)}]

LEMMA Picked == \A s : s # {} => Pick(s) \in s
BY DEF Pick

LEMMA SumsTyped ==
  ASSUME NEW W, NEW w \in [W -> Int], NEW L \in SUBSET W, IsFiniteSet(L), NEW f, Sums(f, w, L)
  PROVE  IsSum(f, w, L)
<1>1. f[{}] = 0 /\ \A s \in SUBSET L : s # {} => f[s] = w[Pick(s)] + f[s \ {Pick(s)}]
  BY DEF Sums
<1>3. DOMAIN f = SUBSET L /\ f = [s \in SUBSET L |-> f[s]]
  BY DEF Sums
<1> DEFINE Bad == {s \in SUBSET L : f[s] \notin Int}
<1>0. (\A s : s \in Bad <=> s \in SUBSET L /\ f[s] \notin Int) /\ Bad \in SUBSET (SUBSET L)
  OBVIOUS
<1> HIDE DEF Bad
<1>2. Bad = {}
  <2> SUFFICES ASSUME Bad # {} PROVE FALSE
    OBVIOUS
  <2>1. PICK T \in Bad : \A U \in Bad : U \subseteq T => U = T
    BY <1>0, MinimalSet
  <2>2. T # {} /\ T \subseteq L
    <3>1. f[T] \notin Int /\ f[{}] \in Int /\ T \subseteq L
      BY <1>0, <1>1, <2>1
    <3> QED
      BY <3>1
  <2>3. Pick(T) \in T /\ w[Pick(T)] \in Int
    BY <1>0, <2>2, Picked
  <2>4. T \ {Pick(T)} \notin Bad
    BY <1>0, <2>1, <2>3
  <2>5. f[T \ {Pick(T)}] \in Int
    BY <1>0, <2>2, <2>4
  <2>6. f[T] = w[Pick(T)] + f[T \ {Pick(T)}]
    BY <1>1, <2>2
  <2>7. f[T] \in Int
    BY <2>3, <2>5, <2>6
  <2> QED
    BY <1>0, <2>1, <2>7
<1>4. \A s \in SUBSET L : f[s] \in Int
  BY <1>0, <1>2
<1> QED
  BY <1>1, <1>3, <1>4 DEF IsSum

LEMMA SumsUnique ==
  ASSUME NEW W, NEW w \in [W -> Int], NEW S \in SUBSET W, NEW T \in SUBSET W, IsFiniteSet(S), IsFiniteSet(T),
         NEW f, NEW g, IsSum(f, w, S), IsSum(g, w, T), NEW U \in SUBSET (S \cap T)
  PROVE  f[U] = g[U]
<1> DEFINE Bad == {s \in SUBSET (S \cap T) : f[s] # g[s]}
<1>0. (\A s : s \in Bad <=> s \in SUBSET (S \cap T) /\ f[s] # g[s]) /\ Bad \in SUBSET (SUBSET (S \cap T))
  OBVIOUS
<1> HIDE DEF Bad
<1> SUFFICES ASSUME Bad # {} PROVE FALSE
  BY <1>0
<1>1. IsFiniteSet(S \cap T)
  BY <1>0, FS_Subset
<1>2. PICK V \in Bad : \A s \in Bad : s \subseteq V => s = V
  BY <1>0, <1>1, MinimalSet
<1>3. V # {} /\ V \subseteq S /\ V \subseteq T
  BY <1>0, <1>2 DEF IsSum
<1>4. Pick(V) \in V
  BY <1>0, <1>3, Picked
<1>5. V \ {Pick(V)} \notin Bad
  BY <1>0, <1>2, <1>4
<1>6. f[V \ {Pick(V)}] = g[V \ {Pick(V)}]
  BY <1>0, <1>3, <1>5
<1> QED
  BY <1>0, <1>2, <1>3, <1>6 DEF IsSum

LEMMA SumsExist ==
  ASSUME NEW W, NEW w \in [W -> Int], NEW S \in SUBSET W, IsFiniteSet(S)
  PROVE  \E f : IsSum(f, w, S) /\ Sums(f, w, S)
<1> DEFINE Bad == {s \in SUBSET S : ~\E f : IsSum(f, w, s)}
<1>0. (\A s : s \in Bad <=> s \in SUBSET S /\ ~\E f : IsSum(f, w, s)) /\ Bad \in SUBSET (SUBSET S)
  OBVIOUS
<1> HIDE DEF Bad
<1>1. \A s \in SUBSET S : IsFiniteSet(s) /\ s \in SUBSET W
  BY <1>0, FS_Subset
<1>2. Bad = {}
  <2> SUFFICES ASSUME Bad # {} PROVE FALSE
    OBVIOUS
  <2>1. PICK T \in Bad : \A U \in Bad : U \subseteq T => U = T
    BY <1>0, MinimalSet
  <2> DEFINE of(U) == CHOOSE f : IsSum(f, w, U)
             g    == [U \in SUBSET T |-> IF U = {} THEN 0
                                         ELSE IF U = T THEN w[Pick(T)] + of(T \ {Pick(T)})[T \ {Pick(T)}]
                                         ELSE of(U)[U]]
  <2>2. \A U \in SUBSET T : U # T => IsSum(of(U), w, U)
    BY <1>0, <2>1
  <2> HIDE DEF of
  <2>3. \A U \in SUBSET T : U # {} => Pick(U) \in U /\ w[Pick(U)] \in Int /\ U \ {Pick(U)} \in SUBSET T /\ U \ {Pick(U)} # T
    BY <1>0, Picked
  <2>4. \A U \in SUBSET T : U # T => of(U)[U] \in Int /\ (U = {} => of(U)[U] = 0)
    BY <1>0, <2>2 DEF IsSum
  <2>5. \A U \in SUBSET T : g[U] \in Int
    BY <1>0, <2>3, <2>4
  <2>6. \A U \in SUBSET T : U # T => g[U] = of(U)[U]
    BY <1>0, <2>4
  <2>7. ASSUME NEW U \in SUBSET T, U # {} PROVE g[U] = w[Pick(U)] + g[U \ {Pick(U)}]
    <3> DEFINE V == U \ {Pick(U)}
    <3>1. V \in SUBSET T /\ V # T /\ g[V] = of(V)[V] /\ V \in SUBSET U
      BY <1>0, <2>3, <2>6, <2>7
    <3>2. CASE U = T
      BY <1>0, <3>1, <3>2, <2>7
    <3>3. CASE U # T
      <4>1. g[U] = of(U)[U] /\ IsSum(of(U), w, U) /\ IsSum(of(V), w, V)
        BY <1>0, <2>2, <2>6, <3>1, <3>3
      <4>2. of(U)[U] = w[Pick(U)] + of(U)[V]
        BY <1>0, <4>1, <2>7 DEF IsSum
      <4>3. IsFiniteSet(U) /\ IsFiniteSet(V) /\ U \in SUBSET W /\ V \in SUBSET W /\ V \in SUBSET (U \cap V)
        BY <1>0, <1>1, <3>1
      <4> HIDE DEF V
      <4>4. of(U)[V] = of(V)[V]
        BY <1>0, <4>1, <4>3, SumsUnique
      <4> QED
        BY <1>0, <3>1, <4>1, <4>2, <4>4 DEF V
    <3> QED
      BY <1>0, <3>2, <3>3
  <2>8. g[{}] = 0 /\ g \in [SUBSET T -> Int]
    BY <1>0, <2>5
  <2> HIDE DEF g
  <2>9. IsSum(g, w, T)
    BY <1>0, <2>7, <2>8 DEF IsSum
  <2> QED
    BY <1>0, <2>1, <2>9
<1>3. PICK f : IsSum(f, w, S)
  BY <1>0, <1>2
<1>4. Sums(f, w, S)
  BY <1>0, <1>3 DEF IsSum, Sums
<1> QED
  BY <1>0, <1>3, <1>4

\* The sum of the weights of a finite set.
Added(w, L) == (CHOOSE f : Sums(f, w, L))[L]

LEMMA AddedStep ==
  ASSUME NEW W, NEW w \in [W -> Int], NEW L \in SUBSET W, IsFiniteSet(L)
  PROVE  /\ Added(w, L) \in Int /\ Added(w, {}) = 0
         /\ L # {} => Added(w, L) = w[Pick(L)] + Added(w, L \ {Pick(L)})
<1> DEFINE of(U) == CHOOSE f : Sums(f, w, U)
<1>1. ASSUME NEW U \in SUBSET W, IsFiniteSet(U) PROVE IsSum(of(U), w, U)
  <2>1. Sums(of(U), w, U)
    BY <1>1, SumsExist
  <2> HIDE DEF of
  <2> QED
    BY <1>1, <2>1, SumsTyped
<1>2. Added(w, L) = of(L)[L] /\ Added(w, {}) = of({})[{}] /\ Added(w, L \ {Pick(L)}) = of(L \ {Pick(L)})[L \ {Pick(L)}]
  BY DEF Added
<1> HIDE DEF of
<1>3. IsFiniteSet({}) /\ IsFiniteSet(L \ {Pick(L)})
  BY FS_EmptySet, FS_Subset
<1>4. IsSum(of(L), w, L) /\ IsSum(of({}), w, {}) /\ IsSum(of(L \ {Pick(L)}), w, L \ {Pick(L)})
  BY <1>1, <1>3
<1>5. of(L)[L \ {Pick(L)}] = of(L \ {Pick(L)})[L \ {Pick(L)}]
  BY <1>3, <1>4, SumsUnique
<1> QED
  BY <1>2, <1>4, <1>5 DEF IsSum

\* The order of the elements does not matter.
LEMMA AddedElement ==
  ASSUME NEW W, NEW w \in [W -> Int], NEW L \in SUBSET W, IsFiniteSet(L), NEW y \in L
  PROVE  Added(w, L) = w[y] + Added(w, L \ {y})
<1> DEFINE Bad == {s \in SUBSET L : \E z \in s : Added(w, s) # w[z] + Added(w, s \ {z})}
<1>0. (\A s : s \in Bad <=> s \in SUBSET L /\ \E z \in s : Added(w, s) # w[z] + Added(w, s \ {z})) /\ Bad \in SUBSET (SUBSET L)
  OBVIOUS
<1> HIDE DEF Bad
<1> SUFFICES ASSUME Bad # {} PROVE FALSE
  BY <1>0
<1>1. PICK T \in Bad : \A U \in Bad : U \subseteq T => U = T
  BY <1>0, MinimalSet
<1>2. PICK z \in T : Added(w, T) # w[z] + Added(w, T \ {z})
  BY <1>0, <1>1
<1> DEFINE x == Pick(T)
<1>3. x \in T /\ T \subseteq W
  BY <1>0, <1>2, Picked
<1> HIDE DEF x
<1>4. \A s \in SUBSET T : IsFiniteSet(s) /\ s \in SUBSET W
  BY <1>0, <1>3, FS_Subset
<1>5. Added(w, T) = w[x] + Added(w, T \ {x})
  BY <1>0, <1>2, <1>4, AddedStep DEF x
<1>6. x # z
  BY <1>0, <1>2, <1>5
<1>7. T \ {x} \notin Bad /\ T \ {z} \notin Bad
  BY <1>0, <1>1, <1>2, <1>3
<1>8. Added(w, T \ {x}) = w[z] + Added(w, T \ {x, z})
  <2>1. z \in T \ {x} /\ (T \ {x}) \ {z} = T \ {x, z} /\ T \ {x} \in SUBSET L
    BY <1>0, <1>2, <1>6
  <2> QED
    BY <1>0, <1>7, <2>1
<1>9. Added(w, T \ {z}) = w[x] + Added(w, T \ {x, z})
  <2>1. x \in T \ {z} /\ (T \ {z}) \ {x} = T \ {x, z} /\ T \ {z} \in SUBSET L
    BY <1>0, <1>3, <1>6
  <2> QED
    BY <1>0, <1>7, <2>1
<1>10. Added(w, T \ {x, z}) \in Int /\ w[x] \in Int /\ w[z] \in Int
  <2>1. T \ {x, z} \in SUBSET T
    OBVIOUS
  <2>2. Added(w, T \ {x, z}) \in Int
    BY <1>4, <2>1, AddedStep
  <2> QED
    BY <1>2, <1>3, <2>2
<1> QED
  BY <1>0, <1>2, <1>5, <1>8, <1>9, <1>10

LEMMA AddedNat ==
  ASSUME NEW W, NEW w \in [W -> Nat], NEW L \in SUBSET W, IsFiniteSet(L)
  PROVE  Added(w, L) \in Nat
<1>1. w \in [W -> Int]
  OBVIOUS
<1> DEFINE Bad == {s \in SUBSET L : Added(w, s) \notin Nat}
<1>0. (\A s : s \in Bad <=> s \in SUBSET L /\ Added(w, s) \notin Nat) /\ Bad \in SUBSET (SUBSET L)
  OBVIOUS
<1> HIDE DEF Bad
<1> SUFFICES ASSUME Bad # {} PROVE FALSE
  BY <1>0
<1>2. PICK T \in Bad : \A U \in Bad : U \subseteq T => U = T
  BY <1>0, MinimalSet
<1>3. IsFiniteSet(T) /\ T \in SUBSET W
  BY <1>0, FS_Subset
<1>4. T # {}
  <2>1. Added(w, {}) = 0
    BY <1>1, <1>3, AddedStep
  <2>2. Added(w, T) \notin Nat
    BY <1>0, <1>2
  <2> QED
    BY <2>1, <2>2
<1>5. Pick(T) \in T /\ w[Pick(T)] \in Nat
  BY <1>0, <1>3, <1>4, Picked
<1>6. Added(w, T \ {Pick(T)}) \in Nat
  BY <1>0, <1>2, <1>5
<1>7. Added(w, T) = w[Pick(T)] + Added(w, T \ {Pick(T)})
  BY <1>0, <1>1, <1>3, <1>4, AddedStep
<1> QED
  BY <1>0, <1>2, <1>5, <1>6, <1>7

LEMMA AddedMonotone ==
  ASSUME NEW W, NEW w \in [W -> Nat], NEW L \in SUBSET W, IsFiniteSet(L), NEW U \in SUBSET L
  PROVE  Added(w, U) <= Added(w, L)
<1>1. w \in [W -> Int]
  OBVIOUS
<1> DEFINE Bad == {s \in SUBSET L : U \subseteq s /\ ~(Added(w, U) <= Added(w, s))}
<1>0. (\A s : s \in Bad <=> s \in SUBSET L /\ U \subseteq s /\ ~(Added(w, U) <= Added(w, s))) /\ Bad \in SUBSET (SUBSET L)
  OBVIOUS
<1> HIDE DEF Bad
<1> SUFFICES ASSUME Bad # {} PROVE FALSE
  BY <1>0
<1>2. PICK T \in Bad : \A V \in Bad : V \subseteq T => V = T
  BY <1>0, MinimalSet
<1>3. IsFiniteSet(T) /\ T \in SUBSET W /\ IsFiniteSet(U) /\ U \in SUBSET W
  BY <1>0, FS_Subset
<1>4. Added(w, U) \in Nat /\ Added(w, T) \in Nat
  BY <1>0, <1>3, AddedNat
<1>5. PICK y \in T : y \notin U
  <2>1. U \subseteq T /\ U # T
    BY <1>0, <1>2, <1>4
  <2> QED
    BY <2>1
<1>6. T \ {y} \notin Bad /\ T \ {y} \in SUBSET L /\ U \subseteq T \ {y} /\ IsFiniteSet(T \ {y}) /\ T \ {y} \in SUBSET W
  BY <1>0, <1>2, <1>3, <1>5, FS_Subset
<1>7. Added(w, U) <= Added(w, T \ {y}) /\ Added(w, T \ {y}) \in Nat /\ w[y] \in Nat
  BY <1>0, <1>3, <1>5, <1>6, AddedNat
<1>8. Added(w, T) = w[y] + Added(w, T \ {y})
  BY <1>0, <1>1, <1>3, AddedElement
<1> QED
  BY <1>0, <1>2, <1>4, <1>7, <1>8

LEMMA TotalAdds ==
  ASSUME NEW W, NEW w \in [W -> Int], NEW L \in SUBSET W, \A l \in L : w[l] = l.amount
  PROVE  Total(L) = Added(w, L)
<1> DEFINE Fold(f) == f = [s \in SUBSET L |-> IF s = {} THEN 0 ELSE AmountOf(Pick(s)) + f[s \ {Pick(s)}]]
<1>1. Total(L) = (CHOOSE f : Fold(f))[L]
  BY DEF Total, MapThenSumSet, MapThenFoldSet, Pick
<1>2. ASSUME NEW f PROVE Fold(f) <=> Sums(f, w, L)
  <2>1. \A s \in SUBSET L : s # {} => AmountOf(Pick(s)) = w[Pick(s)]
    BY Picked DEF AmountOf
  <2>2. [s \in SUBSET L |-> IF s = {} THEN 0 ELSE AmountOf(Pick(s)) + f[s \ {Pick(s)}]]
          = [s \in SUBSET L |-> IF s = {} THEN 0 ELSE w[Pick(s)] + f[s \ {Pick(s)}]]
    BY <2>1
  <2> QED
    BY <2>2 DEF Sums
<1> HIDE DEF Fold
<1>3. (CHOOSE f : Fold(f)) = (CHOOSE f : Sums(f, w, L))
  BY <1>2
<1> QED
  BY <1>1, <1>3 DEF Added

-------------------------------------------------------------------------------
(* Rounding                                                                *)

LEMMA ProductGrows ==
  ASSUME NEW b \in Nat, NEW p \in Int, NEW q \in Int, p <= q
  PROVE  b * p <= b * q
<1>1. PICK n \in Nat : q = p + n
  <2>1. q - p \in Nat /\ q = p + (q - p)
    OBVIOUS
  <2> QED
    BY <2>1
<1>2. b * q = b * p + b * n
  BY <1>1
<1>3. b * n \in Nat
  OBVIOUS
<1>4. b * p \in Int
  OBVIOUS
<1> QED
  BY <1>2, <1>3, <1>4

LEMMA Quotient ==
  ASSUME NEW m \in Int, NEW b \in Nat \ {0}
  PROVE  m \div b \in Int /\ b * (m \div b) <= m /\ m < b * (m \div b) + b
OBVIOUS

LEMMA QuotientGrows ==
  ASSUME NEW m \in Int, NEW n \in Int, NEW b \in Nat \ {0}, m <= n
  PROVE  m \div b <= n \div b
<1>1. PICK p \in Int : p = m \div b
  BY Quotient
<1>2. PICK q \in Int : q = n \div b
  BY Quotient
<1>3. b * p <= m /\ n < b * q + b
  BY <1>1, <1>2, Quotient
<1> SUFFICES ASSUME q + 1 <= p PROVE FALSE
  BY <1>1, <1>2
<1>4. b * (q + 1) <= b * p
  BY ProductGrows
<1>5. b * (q + 1) = b * q + b
  OBVIOUS
<1>6. b * p \in Int /\ b * q \in Int
  OBVIOUS
<1> QED
  BY <1>3, <1>4, <1>5, <1>6

LEMMA RoundTyped ==
  ASSUME NEW m \in Int
  PROVE  Round(m) \in Int
<1>1. MonthDays \in Nat /\ 2 * m + MonthDays \in Int /\ 2 * MonthDays \in Nat \ {0}
  BY CloseAssumption
<1> QED
  BY <1>1, Quotient DEF Round

LEMMA RoundGrows ==
  ASSUME NEW m \in Int, NEW n \in Int, m <= n
  PROVE  Round(m) <= Round(n)
<1>1. 2 * m + MonthDays \in Int /\ 2 * n + MonthDays \in Int /\ 2 * MonthDays \in Nat \ {0}
      /\ 2 * m + MonthDays <= 2 * n + MonthDays
  BY CloseAssumption
<1> QED
  BY <1>1, QuotientGrows DEF Round

LEMMA RoundZero == Round(0) = 0
<1>1. MonthDays \in Nat \ {0}
  BY CloseAssumption
<1>2. PICK den \in Nat \ {0} : den = 2 * MonthDays
  BY <1>1
<1>3. Round(0) = MonthDays \div den
  BY <1>1, <1>2 DEF Round
<1>4. PICK q \in Int : q = MonthDays \div den
  BY <1>1, Quotient
<1>5. den * q <= MonthDays /\ MonthDays < den * q + den
  <2>1. den * (MonthDays \div den) <= MonthDays /\ MonthDays < den * (MonthDays \div den) + den
    BY <1>1, Quotient
  <2> QED
    BY <1>4, <2>1
<1>6. den * q \in Int
  OBVIOUS
<1>7. ~(1 <= q)
  <2>1. 1 <= q => den * 1 <= den * q
    BY ProductGrows
  <2> QED
    BY <1>1, <1>2, <1>5, <1>6, <2>1
<1>8. ~(q <= -1)
  <2>1. q <= -1 => den * q <= den * (-1)
    BY ProductGrows
  <2>2. den * (-1) = -den
    OBVIOUS
  <2> QED
    BY <1>1, <1>2, <1>5, <1>6, <2>1, <2>2
<1> QED
  BY <1>3, <1>4, <1>7, <1>8

-------------------------------------------------------------------------------
(* What a run draws                                                        *)

LEMMA LastDayTyped ==
  ASSUME NEW s \in SeatType
  PROVE  LastDay(s) \in Month /\ LastDay(s) <= s.to /\ (s.to <= MonthDays => LastDay(s) = s.to)
         /\ (s.to >= MonthDays => LastDay(s) = MonthDays)
BY CloseAssumption DEF SeatType, LastDay, Least, Month, Forever

RateType == [from : Int, to : Int, price : Nat]

LEMMA RatesTyped ==
  ASSUME NEW R, Rates(R), NEW i \in RateIds
  PROVE  R[i] \in RateType
<1>1. NoRate \in RateType
  BY DEF NoRate, RateType
<1>2. RateRows \subseteq RateType
  BY CloseAssumption DEF RateType
<1> QED
  BY <1>1, <1>2 DEF Rates

PieceAt(s, i, R) ==
  [company |-> s.company, rate |-> i, from |-> Greatest(s.from, R[i].from), to |-> Least(LastDay(s), R[i].to)]

PieceOf(p, s, i, R) ==
  /\ p.company = s.company /\ p.rate = i /\ p.from \in Month /\ p.to \in Month
  /\ s.from <= p.from /\ R[i].from <= p.from /\ p.from <= p.to
  /\ p.to <= LastDay(s) /\ p.to <= R[i].to /\ p = PieceAt(s, i, R)

LEMMA PiecesAre ==
  ASSUME NEW S, Seats(S), NEW R, Rates(R), NEW p \in Pieces(S, R)
  PROVE  \E s \in S, i \in RateIds : PieceOf(p, s, i, R)
<1>1. PICK s \in S, i \in RateIds : p = PieceAt(s, i, R) /\ p.from <= p.to
  BY DEF Pieces, PieceAt
<1>2. s \in SeatType /\ R[i] \in RateType
  BY RatesTyped DEF Seats
<1>3. LastDay(s) \in Month
  BY <1>2, LastDayTyped
<1>4. /\ p.company = s.company /\ p.rate = i /\ p.from = Greatest(s.from, R[i].from)
      /\ p.to = Least(LastDay(s), R[i].to)
  BY <1>1 DEF PieceAt
<1>5. s.from \in Int /\ 1 <= s.from /\ R[i].from \in Int /\ R[i].to \in Int /\ MonthDays \in Nat
  BY <1>2, CloseAssumption DEF SeatType, RateType
<1>6. p.from \in Int /\ s.from <= p.from /\ R[i].from <= p.from
  BY <1>4, <1>5 DEF Greatest
<1>7. p.to \in Int /\ p.to <= LastDay(s) /\ p.to <= R[i].to
  BY <1>3, <1>4, <1>5 DEF Least, Month
<1>8. p.from \in Month /\ p.to \in Month
  BY <1>1, <1>3, <1>5, <1>6, <1>7 DEF Month
<1> QED
  BY <1>1, <1>4, <1>6, <1>7, <1>8 DEF PieceOf

LEMMA PiecesApart ==
  ASSUME NEW S, Seats(S), NEW R, Rates(R), NEW p \in Pieces(S, R), NEW q \in Pieces(S, R),
         Meet(p, q)
  PROVE  p = q
<1>1. PICK s \in S, i \in RateIds : PieceOf(p, s, i, R)
  BY PiecesAre
<1>2. PICK t \in S, j \in RateIds : PieceOf(q, t, j, R)
  BY PiecesAre
<1>3. s \in SeatType /\ t \in SeatType /\ R[i] \in RateType /\ R[j] \in RateType
  BY RatesTyped DEF Seats
<1>4. LastDay(s) <= s.to /\ LastDay(t) <= t.to /\ LastDay(s) \in Month /\ LastDay(t) \in Month
  BY <1>3, LastDayTyped
<1>5. Meet(s, t)
  BY <1>1, <1>2, <1>3, <1>4, CloseAssumption DEF Meet, PieceOf, SeatType, Month, Forever
<1>6. Meet(R[i], R[j])
  BY <1>1, <1>2, <1>3, CloseAssumption DEF Meet, PieceOf, RateType, Month
<1>7. s = t /\ i = j
  BY <1>5, <1>6 DEF Seats, Rates
<1> QED
  BY <1>1, <1>2, <1>7 DEF PieceOf

LEMMA PiecesFinite ==
  ASSUME NEW S, Seats(S), NEW R
  PROVE  IsFiniteSet(Pieces(S, R))
<1> DEFINE f   == [x \in S \X RateIds |-> PieceAt(x[1], x[2], R)]
           all == {PieceAt(s, i, R) : s \in S, i \in RateIds}
<1>1. IsFiniteSet(S \X RateIds)
  BY FS_Product, CloseAssumption DEF Seats
<1>2. f \in [S \X RateIds -> all]
  OBVIOUS
<1>3. f \in Surjection(S \X RateIds, all)
  <2>1. ASSUME NEW a \in all PROVE \E x \in S \X RateIds : f[x] = a
    <3>1. PICK s \in S, i \in RateIds : a = PieceAt(s, i, R)
      OBVIOUS
    <3>2. <<s, i>> \in S \X RateIds /\ f[<<s, i>>] = a
      BY <3>1
    <3> QED
      BY <3>2
  <2> QED
    BY <1>2, <2>1 DEF Surjection
<1> HIDE DEF f
<1>4. IsFiniteSet(all)
  BY <1>1, <1>3, FS_Surjection
<1>5. Pieces(S, R) \subseteq all
  BY DEF Pieces, PieceAt
<1> HIDE DEF all
<1> QED
  BY <1>4, <1>5, FS_Subset

LEMMA DaysAdd ==
  ASSUME NEW W, NEW w \in [W -> Int], NEW L \in SUBSET W, \A l \in L : w[l] = DaysOf(l)
  PROVE  MapThenSumSet(DaysOf, L) = Added(w, L)
<1> DEFINE Fold(f) == f = [s \in SUBSET L |-> IF s = {} THEN 0 ELSE DaysOf(Pick(s)) + f[s \ {Pick(s)}]]
<1>1. MapThenSumSet(DaysOf, L) = (CHOOSE f : Fold(f))[L]
  BY DEF MapThenSumSet, MapThenFoldSet, Pick
<1>2. ASSUME NEW f PROVE Fold(f) <=> Sums(f, w, L)
  <2>1. \A s \in SUBSET L : s # {} => DaysOf(Pick(s)) = w[Pick(s)]
    BY Picked
  <2>2. [s \in SUBSET L |-> IF s = {} THEN 0 ELSE DaysOf(Pick(s)) + f[s \ {Pick(s)}]]
          = [s \in SUBSET L |-> IF s = {} THEN 0 ELSE w[Pick(s)] + f[s \ {Pick(s)}]]
    BY <2>1
  <2> QED
    BY <2>2 DEF Sums
<1> HIDE DEF Fold
<1>3. (CHOOSE f : Fold(f)) = (CHOOSE f : Sums(f, w, L))
  BY <1>2
<1> QED
  BY <1>1, <1>3 DEF Added

EarlierPieces(p, P) == {q \in P : q.rate = p.rate /\ q.from < p.from}
DaysIn(P)    == [q \in P |-> DaysOf(q)]

LEMMA DaysOfNat ==
  ASSUME NEW S, Seats(S), NEW R, Rates(R), NEW p \in Pieces(S, R)
  PROVE  DaysOf(p) \in Nat
<1>1. PICK s \in S, i \in RateIds : PieceOf(p, s, i, R)
  BY PiecesAre
<1> QED
  BY <1>1, CloseAssumption DEF PieceOf, DaysOf, Month

LEMMA DaysTyped ==
  ASSUME NEW S, Seats(S), NEW R, Rates(R)
  PROVE  DaysIn(Pieces(S, R)) \in [Pieces(S, R) -> Nat]
BY DaysOfNat DEF DaysIn

LEMMA BeforeAdds ==
  ASSUME NEW S, Seats(S), NEW R, Rates(R), NEW p \in Pieces(S, R)
  PROVE  /\ MapThenSumSet(DaysOf, EarlierPieces(p, Pieces(S, R))) = Added(DaysIn(Pieces(S, R)), EarlierPieces(p, Pieces(S, R)))
         /\ MapThenSumSet(DaysOf, EarlierPieces(p, Pieces(S, R))) \in Nat
<1> DEFINE P == Pieces(S, R)
           w == DaysIn(P)
           B == EarlierPieces(p, P)
<1>1. w \in [P -> Nat] /\ w \in [P -> Int]
  BY DaysTyped
<1>2. B \in SUBSET P /\ IsFiniteSet(P)
  BY PiecesFinite DEF EarlierPieces
<1>3. \A q \in B : w[q] = DaysOf(q)
  BY <1>2 DEF DaysIn
<1>4. IsFiniteSet(B)
  BY <1>2, FS_Subset
<1> HIDE DEF P, w, B
<1>5. MapThenSumSet(DaysOf, B) = Added(w, B)
  BY <1>1, <1>2, <1>3, DaysAdd
<1>6. Added(w, B) \in Nat
  BY <1>1, <1>2, <1>4, AddedNat
<1> QED
  BY <1>5, <1>6 DEF P, w, B

LEMMA AmountIs ==
  ASSUME NEW S, Seats(S), NEW R, Rates(R), NEW p \in Pieces(S, R), NEW b,
         b = MapThenSumSet(DaysOf, EarlierPieces(p, Pieces(S, R)))
  PROVE  /\ Amount(p, Pieces(S, R), R) = Round(R[p.rate].price * (b + DaysOf(p))) - Round(R[p.rate].price * b)
         /\ Amount(p, Pieces(S, R), R) \in Nat
<1>1. Amount(p, Pieces(S, R), R) = Round(R[p.rate].price * (b + DaysOf(p))) - Round(R[p.rate].price * b)
  BY DEF Amount, EarlierPieces
<1>2. PICK s \in S, i \in RateIds : PieceOf(p, s, i, R)
  BY PiecesAre
<1>3. PICK price \in Nat : price = R[p.rate].price
  BY <1>2, RatesTyped DEF PieceOf, RateType
<1>4. PICK n \in Nat : n = DaysOf(p)
  BY DaysOfNat
<1>5. b \in Nat
  BY BeforeAdds
<1>6. price * b <= price * (b + n) /\ price * b \in Int /\ price * (b + n) \in Int
  <2>1. b + n \in Int /\ b \in Int /\ b <= b + n
    BY <1>5
  <2> QED
    BY <2>1, ProductGrows
<1>7. Round(price * b) <= Round(price * (b + n)) /\ Round(price * b) \in Int /\ Round(price * (b + n)) \in Int
  BY <1>6, RoundGrows, RoundTyped
<1>8. Round(price * (b + n)) - Round(price * b) \in Nat
  BY <1>7
<1> QED
  BY <1>1, <1>3, <1>4, <1>8

LineAt(p, P, R) ==
  [company |-> p.company, from |-> p.from, to |-> p.to, price |-> R[p.rate].price, amount |-> Amount(p, P, R)]

LEMMA LineFields ==
  ASSUME NEW S, Seats(S), NEW R, Rates(R), NEW p \in Pieces(S, R), NEW l, l = LineAt(p, Pieces(S, R), R)
  PROVE  /\ l.company = p.company /\ l.from = p.from /\ l.to = p.to /\ l.price = R[p.rate].price
         /\ l.amount = Amount(p, Pieces(S, R), R) /\ l \in LineType
<1>1. PICK s \in S, i \in RateIds : PieceOf(p, s, i, R)
  BY PiecesAre
<1>2. p.company \in Organizations /\ p.from \in Month /\ p.to \in Month /\ R[p.rate].price \in Nat
  BY <1>1, RatesTyped DEF PieceOf, Seats, SeatType, RateType
<1>3. PICK a \in Nat : a = Amount(p, Pieces(S, R), R)
  BY AmountIs
<1>4. l = [company |-> p.company, from |-> p.from, to |-> p.to, price |-> R[p.rate].price, amount |-> a]
  BY <1>3 DEF LineAt
<1> QED
  BY <1>2, <1>3, <1>4 DEF LineType

LEMMA LinesAre ==
  ASSUME NEW S, NEW R
  PROVE  /\ \A l \in Lines(S, R) : \E p \in Pieces(S, R) : l = LineAt(p, Pieces(S, R), R)
         /\ \A p \in Pieces(S, R) : LineAt(p, Pieces(S, R), R) \in Lines(S, R)
BY DEF Lines, LineAt

\* A line falls into a seat of its company and into the dates of a rate of its price.
LEMMA LinesFit ==
  ASSUME NEW S, Seats(S), NEW R, Rates(R), NEW l \in Lines(S, R)
  PROVE  /\ l \in LineType /\ l.from <= l.to
         /\ \E s \in S : s.company = l.company /\ s.from <= l.from /\ l.to <= LastDay(s)
         /\ \E i \in RateIds : R[i].price = l.price /\ R[i].from <= l.from /\ l.to <= R[i].to
<1>1. PICK p \in Pieces(S, R) : l = LineAt(p, Pieces(S, R), R)
  BY LinesAre
<1>2. PICK s \in S, i \in RateIds : PieceOf(p, s, i, R)
  BY PiecesAre
<1>3. l.company = p.company /\ l.from = p.from /\ l.to = p.to /\ l.price = R[p.rate].price /\ l \in LineType
  BY <1>1, LineFields
<1> QED
  BY <1>2, <1>3 DEF PieceOf

LEMMA LinesApart ==
  ASSUME NEW S, Seats(S), NEW R, Rates(R), NEW k \in Lines(S, R), NEW l \in Lines(S, R), Meet(k, l)
  PROVE  k = l
<1>1. PICK p \in Pieces(S, R) : k = LineAt(p, Pieces(S, R), R)
  BY LinesAre
<1>2. PICK q \in Pieces(S, R) : l = LineAt(q, Pieces(S, R), R)
  BY LinesAre
<1>3. k.from = p.from /\ k.to = p.to /\ l.from = q.from /\ l.to = q.to
  BY <1>1, <1>2, LineFields
<1>4. Meet(p, q)
  BY <1>3 DEF Meet
<1> QED
  BY <1>1, <1>2, <1>4, PiecesApart

LEMMA LinesFinite ==
  ASSUME NEW S, Seats(S), NEW R
  PROVE  IsFiniteSet(Lines(S, R))
<1> DEFINE P == Pieces(S, R)
           f == [p \in P |-> LineAt(p, P, R)]
<1>1. IsFiniteSet(P)
  BY PiecesFinite
<1>2. f \in Surjection(P, Lines(S, R))
  <2>1. f \in [P -> Lines(S, R)]
    BY LinesAre
  <2>2. ASSUME NEW l \in Lines(S, R) PROVE \E p \in P : f[p] = l
    BY LinesAre
  <2> QED
    BY <2>1, <2>2 DEF Surjection
<1> HIDE DEF f, P
<1> QED
  BY <1>1, <1>2, FS_Surjection

-------------------------------------------------------------------------------
(* What a split charges                                                    *)

\* A sum can be taken over the image of its set under an injective mapping.
LEMMA AddedImage ==
  ASSUME NEW W, NEW w \in [W -> Int], NEW V, NEW v \in [V -> Int], NEW A \in SUBSET W, IsFiniteSet(A),
         NEW f \in [A -> V], \A a, b \in A : f[a] = f[b] => a = b, \A a \in A : v[f[a]] = w[a]
  PROVE  Added(w, A) = Added(v, {f[a] : a \in A})
<1> DEFINE im(s) == {f[a] : a \in s}
           Bad   == {s \in SUBSET A : Added(w, s) # Added(v, im(s))}
<1>0. (\A s : s \in Bad <=> s \in SUBSET A /\ Added(w, s) # Added(v, im(s))) /\ Bad \in SUBSET (SUBSET A)
  OBVIOUS
<1>1. ASSUME NEW s \in SUBSET A PROVE IsFiniteSet(s) /\ s \in SUBSET W /\ im(s) \in SUBSET V /\ IsFiniteSet(im(s))
  <2> DEFINE g == [a \in s |-> f[a]]
  <2>1. g \in Surjection(s, im(s))
    BY DEF Surjection
  <2>2. IsFiniteSet(s) /\ s \in SUBSET W /\ im(s) \in SUBSET V
    BY FS_Subset
  <2> HIDE DEF g, im
  <2>3. IsFiniteSet(im(s))
    BY <2>1, <2>2, FS_Surjection
  <2> QED
    BY <2>2, <2>3
<1>2. im({}) = {}
  OBVIOUS
<1>3. \A s \in SUBSET A : \A x \in s : f[x] \in im(s) /\ im(s \ {x}) = im(s) \ {f[x]}
  OBVIOUS
<1> HIDE DEF Bad, im
<1>4. Bad = {}
  <2> SUFFICES ASSUME Bad # {} PROVE FALSE
    OBVIOUS
  <2>1. PICK T \in Bad : \A U \in Bad : U \subseteq T => U = T
    BY <1>0, MinimalSet
  <2>2. T \in SUBSET A /\ Added(w, T) # Added(v, im(T))
    BY <1>0, <2>1
  <2>3. IsFiniteSet(T) /\ T \in SUBSET W /\ im(T) \in SUBSET V /\ IsFiniteSet(im(T))
    BY <1>1, <2>2
  <2>4. T # {}
    <3>1. Added(w, {}) = 0 /\ Added(v, {}) = 0
      BY <2>3, AddedStep
    <3> QED
      BY <1>2, <2>2, <3>1
  <2> DEFINE x == Pick(T)
  <2>5. x \in T /\ Added(w, T) = w[x] + Added(w, T \ {x})
    BY <2>3, <2>4, Picked, AddedStep
  <2> HIDE DEF x
  <2>6. f[x] \in im(T) /\ im(T \ {x}) = im(T) \ {f[x]}
    BY <1>3, <2>2, <2>5
  <2>7. Added(v, im(T)) = v[f[x]] + Added(v, im(T) \ {f[x]})
    BY <2>3, <2>6, AddedElement
  <2>8. T \ {x} \in SUBSET A /\ T \ {x} \subseteq T /\ T \ {x} # T
    BY <2>2, <2>5
  <2>9. Added(w, T \ {x}) = Added(v, im(T \ {x}))
    BY <1>0, <2>1, <2>8
  <2>10. v[f[x]] = w[x]
    BY <2>2, <2>5
  <2> QED
    BY <2>2, <2>5, <2>6, <2>7, <2>9, <2>10
<1>5. A \in SUBSET A
  OBVIOUS
<1>6. Added(w, A) = Added(v, im(A))
  BY <1>0, <1>4, <1>5
<1> QED
  BY <1>6 DEF im

\* Of finitely many periods, one begins last.
LEMMA LastBegun ==
  ASSUME NEW T, IsFiniteSet(T), T # {}, \A t \in T : t.from \in Int
  PROVE  \E l \in T : \A k \in T : k.from <= l.from
<1> DEFINE from(l) == {k \in T : l.from <= k.from}
           Bad     == {from(l) : l \in T}
<1>0. (\A U : U \in Bad <=> \E l \in T : U = from(l)) /\ Bad \in SUBSET (SUBSET T) /\ Bad # {}
  OBVIOUS
<1> HIDE DEF Bad
<1>1. PICK U \in Bad : \A V \in Bad : V \subseteq U => V = U
  BY <1>0, MinimalSet
<1>2. PICK l \in T : U = from(l)
  BY <1>0, <1>1
<1>3. ASSUME NEW k \in T, ~(k.from <= l.from) PROVE FALSE
  <2>1. from(k) \in Bad
    BY <1>0
  <2>2. from(k) \subseteq from(l) /\ l \notin from(k) /\ l \in from(l)
    BY <1>3
  <2> QED
    BY <1>1, <1>2, <2>1, <2>2
<1> QED
  BY <1>3

Mine(i, S, R)   == {l \in Lines(S, R) : l.from \in R[i].from..R[i].to}
OfRate(i, S, R) == {p \in Pieces(S, R) : p.rate = i}

\* The lines that begin within the dates of a rate are those of its pieces.
LEMMA LinesOfRate ==
  ASSUME NEW S, Seats(S), NEW R, Rates(R), NEW i \in RateIds
  PROVE  /\ \A l \in Mine(i, S, R) : \E p \in OfRate(i, S, R) : l = LineAt(p, Pieces(S, R), R)
         /\ \A p \in OfRate(i, S, R) : LineAt(p, Pieces(S, R), R) \in Mine(i, S, R)
<1>1. ASSUME NEW p \in Pieces(S, R)
      PROVE  /\ p.rate \in RateIds /\ p.from \in R[p.rate].from..R[p.rate].to
             /\ p.from \in R[i].from..R[i].to => p.rate = i
  <2>1. PICK s \in S, j \in RateIds : PieceOf(p, s, j, R)
    BY PiecesAre
  <2>2. R[j] \in RateType /\ R[i] \in RateType
    BY RatesTyped
  <2>3. p.rate = j /\ R[j].from <= p.from /\ p.from <= R[j].to /\ p.from \in Int
    BY <2>1, <2>2, CloseAssumption DEF PieceOf, Month, RateType
  <2>4. R[j].from \in Int /\ R[j].to \in Int /\ R[i].from \in Int /\ R[i].to \in Int
    BY <2>2 DEF RateType
  <2>5. p.from \in R[i].from..R[i].to => Meet(R[i], R[j])
    BY <2>3, <2>4 DEF Meet
  <2> QED
    BY <2>3, <2>4, <2>5 DEF Rates
<1>2. \A p \in Pieces(S, R) : LineAt(p, Pieces(S, R), R).from = p.from
  BY LineFields
<1> QED
  BY <1>1, <1>2, LinesAre DEF Mine, OfRate

Weights == [l \in LineType |-> l.amount]

LEMMA WeightsTyped == Weights \in [LineType -> Nat] /\ Weights \in [LineType -> Int]
BY DEF Weights, LineType

DaysInLines == [l \in LineType |-> DaysOf(l)]

\* The days of the pieces before a piece are those of the lines before its line.
LEMMA BeforeLines ==
  ASSUME NEW S, Seats(S), NEW R, Rates(R), NEW i \in RateIds, NEW p \in OfRate(i, S, R),
         NEW L, L = {k \in Mine(i, S, R) : k.from < p.from}
  PROVE  MapThenSumSet(DaysOf, EarlierPieces(p, Pieces(S, R))) = Added(DaysInLines, L)
<1> DEFINE P == Pieces(S, R)
           w == DaysIn(P)
           B == EarlierPieces(p, P)
           f == [q \in B |-> LineAt(q, P, R)]
<1>1. w \in [P -> Int] /\ B \in SUBSET P /\ IsFiniteSet(B)
  BY DaysTyped, PiecesFinite, FS_Subset DEF EarlierPieces
<1>2. DaysInLines \in [LineType -> Int]
  BY CloseAssumption DEF DaysInLines, DaysOf, LineType, Month
<1>3. \A q \in B : q \in P /\ q.rate = i /\ q.from < p.from
  BY DEF EarlierPieces, OfRate
<1>4. ASSUME NEW q \in B
      PROVE  /\ f[q] \in LineType /\ f[q].from = q.from /\ f[q].to = q.to
             /\ f[q] \in Mine(i, S, R)
  <2>1. f[q] = LineAt(q, P, R) /\ q \in P /\ q \in OfRate(i, S, R)
    BY <1>3 DEF OfRate
  <2> QED
    BY <2>1, LineFields, LinesOfRate
<1>5. \A q \in B : w[q] = DaysInLines[f[q]]
  BY <1>1, <1>4 DEF DaysIn, DaysInLines, DaysOf
<1>6. ASSUME NEW q \in B, NEW r \in B, f[q] = f[r] PROVE q = r
  <2>1. q.from = r.from /\ q.to = r.to /\ q \in P /\ r \in P
    BY <1>3, <1>4, <1>6
  <2>2. PICK s \in S, j \in RateIds : PieceOf(q, s, j, R)
    BY <2>1, PiecesAre
  <2>3. Meet(q, r)
    BY <2>1, <2>2 DEF Meet, PieceOf
  <2> QED
    BY <2>1, <2>3, PiecesApart
<1>7. {f[q] : q \in B} = L
  <2>1. ASSUME NEW q \in B PROVE f[q] \in L
    BY <1>3, <1>4
  <2>2. ASSUME NEW k \in L PROVE \E q \in B : k = f[q]
    <3>1. k \in Mine(i, S, R) /\ k.from < p.from
      OBVIOUS
    <3>2. PICK q \in OfRate(i, S, R) : k = LineAt(q, P, R)
      BY <3>1, LinesOfRate
    <3>3. q \in P /\ q.rate = p.rate /\ k.from = q.from
      BY <3>2, LineFields DEF OfRate
    <3>4. q \in B
      BY <3>1, <3>3 DEF EarlierPieces
    <3> QED
      BY <3>2, <3>4
  <2> QED
    BY <2>1, <2>2
<1>8. f \in [B -> LineType]
  BY <1>4
<1>9. MapThenSumSet(DaysOf, B) = Added(w, B)
  <2>1. p \in P
    BY DEF OfRate
  <2> QED
    BY <2>1, BeforeAdds
<1> HIDE DEF f, w, B, P
<1>10. Added(w, B) = Added(DaysInLines, {f[q] : q \in B})
  BY <1>1, <1>2, <1>5, <1>6, <1>8, AddedImage
<1> QED
  BY <1>7, <1>9, <1>10 DEF B, P

LEMMA MineAmount ==
  ASSUME NEW S, Seats(S), NEW R, Rates(R), NEW i \in RateIds, NEW l \in Mine(i, S, R),
         NEW b, b = Added(DaysInLines, {k \in Mine(i, S, R) : k.from < l.from})
  PROVE  l.amount = Round(R[i].price * (b + DaysInLines[l])) - Round(R[i].price * b)
<1>1. PICK p \in OfRate(i, S, R) : l = LineAt(p, Pieces(S, R), R)
  BY LinesOfRate
<1>2. p \in Pieces(S, R) /\ p.rate = i
  BY DEF OfRate
<1>3. l.from = p.from /\ l.to = p.to /\ l.amount = Amount(p, Pieces(S, R), R) /\ l \in LineType
  BY <1>1, <1>2, LineFields
<1>4. MapThenSumSet(DaysOf, EarlierPieces(p, Pieces(S, R))) = b
  BY <1>3, BeforeLines
<1>5. Amount(p, Pieces(S, R), R) = Round(R[i].price * (b + DaysOf(p))) - Round(R[i].price * b)
  BY <1>2, <1>4, AmountIs
<1>6. DaysInLines[l] = DaysOf(p)
  BY <1>3 DEF DaysInLines, DaysOf
<1> QED
  BY <1>3, <1>5, <1>6

\* The cents of the lines of a rate are those of the unsplit charge.
LEMMA MineCosts ==
  ASSUME NEW S, Seats(S), NEW R, Rates(R), NEW i \in RateIds
  PROVE  Total(Mine(i, S, R)) = Round(R[i].price * MapThenSumSet(DaysOf, Mine(i, S, R)))
<1> DEFINE M      == Mine(i, S, R)
           d(T)   == Added(DaysInLines, T)
           a(T)   == Added(Weights, T)
           down(T) == \A k \in T : \A l \in M : l.from < k.from => l \in T
           Bad    == {T \in SUBSET M : down(T) /\ a(T) # Round(R[i].price * d(T))}
<1>0. (\A T : T \in Bad <=> T \in SUBSET M /\ down(T) /\ a(T) # Round(R[i].price * d(T))) /\ Bad \in SUBSET (SUBSET M)
  OBVIOUS
<1> HIDE DEF Bad
<1>1. M \subseteq Lines(S, R)
  BY DEF Mine
<1>2. IsFiniteSet(M) /\ M \subseteq LineType
  BY <1>1, LinesFinite, LinesFit, FS_Subset
<1>3. DaysInLines \in [LineType -> Int] /\ Weights \in [LineType -> Int]
  BY WeightsTyped, CloseAssumption DEF DaysInLines, DaysOf, LineType, Month
<1>4. \A l \in M : l.from \in Int /\ l.to \in Int /\ l.from <= l.to
  BY <1>1, <1>2, LinesFit DEF LineType, Month
<1>5. PICK c \in Int : c = R[i].price
  BY RatesTyped DEF RateType
<1>6. ASSUME NEW T \in SUBSET M PROVE IsFiniteSet(T) /\ T \in SUBSET LineType /\ d(T) \in Int /\ a(T) \in Int
  <2>1. IsFiniteSet(T) /\ T \in SUBSET LineType
    BY <1>2, FS_Subset
  <2> QED
    BY <1>3, <2>1, AddedStep
<1>7. Bad = {}
  <2> SUFFICES ASSUME Bad # {} PROVE FALSE
    OBVIOUS
  <2>1. PICK T \in Bad : \A U \in Bad : U \subseteq T => U = T
    BY <1>0, <1>2, MinimalSet
  <2>2. T \in SUBSET M /\ down(T) /\ a(T) # Round(c * d(T))
    BY <1>0, <1>5, <2>1
  <2>3. T # {}
    <3>1. a({}) = 0 /\ d({}) = 0
      BY <1>3, <1>6, <2>2, AddedStep
    <3>2. c * 0 = 0
      OBVIOUS
    <3> QED
      BY <2>2, <3>1, <3>2, RoundZero
  <2>4. PICK l \in T : \A k \in T : k.from <= l.from
    BY <1>4, <1>6, <2>2, <2>3, LastBegun
  <2>5. l \in M
    BY <2>2
  <2>6. T \ {l} = {k \in M : k.from < l.from}
    <3>1. ASSUME NEW k \in T \ {l} PROVE k.from < l.from
      <4>1. k \in M /\ k \in Lines(S, R) /\ l \in Lines(S, R)
        BY <1>1, <2>2, <2>5
      <4>2. k.from <= l.from
        BY <2>4
      <4>3. k.from # l.from
        <5>1. k.from = l.from => Meet(k, l)
          BY <1>4, <2>5, <4>1 DEF Meet
        <5> QED
          BY <4>1, <5>1, LinesApart
      <4> QED
        BY <1>4, <2>5, <4>1, <4>2, <4>3
    <3>2. ASSUME NEW k \in M, k.from < l.from PROVE k \in T \ {l}
      BY <1>4, <2>2, <2>5, <3>2
    <3> QED
      BY <2>2, <3>1, <3>2
  <2>7. T \ {l} \notin Bad
    <3>1. T \ {l} # T /\ T \ {l} \subseteq T
      OBVIOUS
    <3> QED
      BY <2>1, <3>1
  <2>8. T \ {l} \in SUBSET M /\ down(T \ {l})
    BY <1>4, <2>2, <2>5, <2>6
  <2> HIDE DEF down
  <2>9. a(T \ {l}) = Round(c * d(T \ {l}))
    BY <1>0, <1>5, <2>7, <2>8
  <2>10. a(T) = Weights[l] + a(T \ {l}) /\ d(T) = DaysInLines[l] + d(T \ {l})
    BY <1>3, <1>6, <2>2, AddedElement
  <2>11. l.amount = Round(c * (d(T \ {l}) + DaysInLines[l])) - Round(c * d(T \ {l}))
    BY <1>5, <2>5, <2>6, MineAmount
  <2>12. Weights[l] = l.amount /\ DaysInLines[l] \in Int
    BY <1>2, <1>3, <2>5 DEF Weights
  <2>13. PICK x \in Int : x = d(T \ {l})
    BY <1>6, <2>8
  <2>14. PICK n \in Int : n = DaysInLines[l]
    BY <2>12
  <2>15. d(T) = x + n
    BY <2>10, <2>13, <2>14
  <2>16. Round(c * x) \in Int /\ Round(c * (x + n)) \in Int
    BY RoundTyped
  <2>17. a(T) = Round(c * (x + n)) - Round(c * x) + Round(c * x)
    BY <2>9, <2>10, <2>11, <2>12, <2>13, <2>14
  <2>18. a(T) = Round(c * (x + n))
    BY <2>16, <2>17
  <2> QED
    BY <2>2, <2>15, <2>18
<1>8. a(M) = Round(c * d(M))
  BY <1>0, <1>5, <1>7
<1>9. Total(M) = a(M) /\ MapThenSumSet(DaysOf, M) = d(M)
  <2>1. (\A l \in M : Weights[l] = l.amount) /\ \A l \in M : DaysInLines[l] = DaysOf(l)
    BY <1>2 DEF Weights, DaysInLines
  <2>2. M \in SUBSET LineType
    BY <1>2
  <2> HIDE DEF M
  <2>3. Total(M) = Added(Weights, M)
    BY <1>3, <2>1, <2>2, TotalAdds
  <2>4. MapThenSumSet(DaysOf, M) = Added(DaysInLines, M)
    BY <1>3, <2>1, <2>2, DaysAdd
  <2> QED
    BY <2>3, <2>4
<1> QED
  BY <1>5, <1>8, <1>9

\* Every day of a seat of the month is charged once, to the company of the seat.
LEMMA DaysCharged ==
  ASSUME NEW S, Seats(S), NEW R, Rates(R), Covered(S, R), NEW c \in Organizations, NEW d \in Month
  PROVE  Cardinality({l \in Lines(S, R) : l.company = c /\ d \in l.from..l.to})
           = IF \E s \in S : s.company = c /\ d \in s.from..s.to THEN 1 ELSE 0
<1> DEFINE N == {l \in Lines(S, R) : l.company = c /\ d \in l.from..l.to}
<1>1. \A l \in N : l \in Lines(S, R) /\ l \in LineType /\ l.company = c /\ d \in l.from..l.to
  BY LinesFit
<1>2. \A l \in N : l.from \in Int /\ l.to \in Int /\ d \in Int
  BY <1>1, CloseAssumption DEF LineType, Month
<1>3. CASE \E s \in S : s.company = c /\ d \in s.from..s.to
  <2>1. PICK s \in S : s.company = c /\ d \in s.from..s.to
    BY <1>3
  <2>2. s \in SeatType
    BY DEF Seats
  <2>3. s.from \in Int /\ s.to \in Int /\ LastDay(s) \in Int /\ d <= LastDay(s) /\ d \in s.from..LastDay(s)
    BY <2>1, <2>2, LastDayTyped, CloseAssumption DEF SeatType, Month
  <2>4. PICK i \in RateIds : d \in R[i].from..R[i].to
    BY <2>3 DEF Covered
  <2>5. R[i].from \in Int /\ R[i].to \in Int
    BY RatesTyped DEF RateType
  <2> DEFINE p == PieceAt(s, i, R)
  <2>6. p.company = c /\ p.from = Greatest(s.from, R[i].from) /\ p.to = Least(LastDay(s), R[i].to)
    BY <2>1 DEF PieceAt
  <2>7. p.from <= d /\ d <= p.to /\ p.from \in Int /\ p.to \in Int
    BY <2>1, <2>3, <2>4, <2>5, <2>6 DEF Greatest, Least, Month
  <2>8. p \in Pieces(S, R)
    <3>1. p.from <= p.to
      BY <2>7 DEF Month
    <3> QED
      BY <3>1 DEF Pieces, PieceAt
  <2> HIDE DEF p
  <2> DEFINE l == LineAt(p, Pieces(S, R), R)
  <2>9. l \in N
    <3>1. l \in Lines(S, R)
      BY <2>8, LinesAre
    <3>2. l.company = c /\ l.from = p.from /\ l.to = p.to
      BY <2>6, <2>8, LineFields
    <3> HIDE DEF l
    <3> QED
      BY <2>7, <3>1, <3>2 DEF Month
  <2> HIDE DEF l
  <2>10. ASSUME NEW k \in N PROVE k = l
    <3>1. Meet(k, l)
      BY <1>1, <1>2, <2>9 DEF Meet
    <3> QED
      BY <1>1, <2>9, <3>1, LinesApart
  <2>11. N = {l}
    BY <2>9, <2>10
  <2> HIDE DEF N
  <2>12. Cardinality(N) = 1
    BY <2>11, FS_Singleton
  <2> QED
    BY <1>3, <2>12 DEF N
<1>4. CASE ~\E s \in S : s.company = c /\ d \in s.from..s.to
  <2>1. ASSUME NEW l \in N PROVE FALSE
    <3>1. PICK s \in S : s.company = l.company /\ s.from <= l.from /\ l.to <= LastDay(s)
      BY <1>1, LinesFit
    <3>2. s \in SeatType
      BY DEF Seats
    <3>3. s.from \in Int /\ s.to \in Int /\ LastDay(s) \in Int /\ LastDay(s) <= s.to
      BY <3>2, LastDayTyped, CloseAssumption DEF SeatType, Month
    <3>4. s.company = c /\ d \in s.from..s.to
      BY <1>1, <1>2, <3>1, <3>3
    <3> QED
      BY <1>4, <3>4
  <2>2. N = {}
    BY <2>1
  <2> HIDE DEF N
  <2>3. Cardinality(N) = 0
    BY <2>2, FS_EmptySet
  <2> QED
    BY <1>4, <2>3 DEF N
<1> QED
  BY <1>3, <1>4

-------------------------------------------------------------------------------
(* MonthlyClose: the register changes                                      *)

\* After the month, what becomes of a seat does not change its days of the month.
MonthKept ==
  day > MonthDays => \A s \in register : \E t \in register' :
    t.company = s.company /\ t.from = s.from /\ LastDay(t) = LastDay(s)

LEMMA MonthKeptKeeps ==
  ASSUME CloseInv, MonthKept, day' = day, UNCHANGED <<eager, rate, run, closing, snapshot, statement, recon>>,
         RegisterInv'
  PROVE  CloseInv'
<1>1. ASSUME NEW s, Known(s) PROVE Known(s)'
  BY <1>1 DEF Known, MonthKept
<1>2. ASSUME NEW c, NEW l, Charged(c, l) PROVE Charged(c, l)'
  <2>1. PICK s \in register : s.company = c /\ s.from <= l.from /\ l.to <= LastDay(s)
    BY <1>2 DEF Charged
  <2>2. PICK t \in register' : t.company = s.company /\ t.from = s.from /\ LastDay(t) = LastDay(s)
    BY <1>2 DEF Charged, MonthKept
  <2> QED
    BY <1>2, <2>1, <2>2 DEF Charged
<1>3. SnapshotInv'
  BY <1>1 DEF CloseInv, SnapshotInv
<1>4. StatementInv'
  BY <1>2 DEF CloseInv, StatementInv, Final, Priced
<1>5. RunInv' /\ ReconInv'
  BY DEF CloseInv, RunInv, ReconInv, FinalLines, Final
<1> QED
  BY <1>3, <1>4, <1>5 DEF CloseInv

LEMMA DayFacts ==
  ASSUME CloseInv
  PROVE  /\ day \in Int /\ 1 <= day /\ day <= MonthDays + 1 /\ MonthDays \in Int /\ 1 <= MonthDays
         /\ Forever = MonthDays + 2
BY CloseAssumption DEF CloseInv, Forever

LEMMA TakeSeatKeeps ==
  ASSUME CloseInv, NEW c \in Organizations, NEW d \in 1..MonthDays + 1, TakeSeat(c, d)
  PROVE  CloseInv'
<1> DEFINE new == [company |-> c, from |-> d, to |-> Forever]
<1>1. /\ register' = register \cup {new} /\ d <= day /\ \A s \in register : s.to < d
      /\ UNCHANGED <<day, eager, rate, run, closing, snapshot, statement, recon>>
  BY DEF TakeSeat
<1>2. new \in SeatType /\ new.from = d /\ new.to = Forever
  BY DayFacts DEF SeatType, Forever
<1> HIDE DEF new
<1>3. IsFiniteSet(register')
  BY <1>1, FS_AddElement DEF CloseInv, RegisterInv, Seats
<1>4. \A s \in register : s \in SeatType /\ s.from <= s.to /\ s.from <= day /\ (s.to <= day \/ s.to = Forever)
  BY DEF CloseInv, RegisterInv, Seats
<1>5. \A s \in register : ~Meet(s, new) /\ ~Meet(new, s)
  BY <1>1, <1>2, <1>4, DayFacts DEF Meet, SeatType
<1>6. RegisterInv'
  <2>1. register' \subseteq SeatType
    BY <1>1, <1>2, <1>4
  <2>2. \A s \in register' : s.from <= s.to /\ s.from <= day /\ (s.to <= day \/ s.to = Forever)
    BY <1>1, <1>2, <1>4, DayFacts
  <2>3. \A s, t \in register' : Meet(s, t) => s = t
    BY <1>1, <1>5 DEF CloseInv, RegisterInv, Seats
  <2> QED
    BY <1>1, <1>3, <2>1, <2>2, <2>3 DEF RegisterInv, Seats
<1>7. MonthKept
  BY <1>1 DEF MonthKept
<1> QED
  BY <1>1, <1>6, <1>7, MonthKeptKeeps

\* The current seat is cut at a day; another may follow it.
EndAt(s, to) == [s EXCEPT !.to = to]

LEMMA CutSeatKeeps ==
  ASSUME CloseInv, NEW s \in Current, NEW to \in Int, s.from <= to, to <= day, MonthDays <= to \/ day <= MonthDays,
         NEW next, next \subseteq SeatType, IsFiniteSet(next),
         \A t \in next : t.from = day /\ t.to = Forever /\ to < day,
         \A t, u \in next : t = u,
         register' = (register \ {s}) \cup ({EndAt(s, to)} \cup next),
         UNCHANGED <<day, eager, rate, run, closing, snapshot, statement, recon>>
  PROVE  CloseInv'
<1> DEFINE cut == EndAt(s, to)
<1>1. s \in register /\ s.to = Forever /\ s \in SeatType
  BY DEF Current, CloseInv, RegisterInv, Seats
<1>2. cut \in SeatType /\ cut.from = s.from /\ cut.to = to /\ cut.company = s.company
  BY <1>1, DayFacts DEF SeatType, Forever, EndAt
<1> HIDE DEF cut
<1>3. register' = (register \ {s}) \cup ({cut} \cup next)
  BY DEF cut
<1>4. IsFiniteSet(register')
  <2>1. IsFiniteSet(register \ {s}) /\ IsFiniteSet({cut})
    BY FS_RemoveElement, FS_Singleton DEF CloseInv, RegisterInv, Seats
  <2>2. IsFiniteSet({cut} \cup next)
    BY <2>1, FS_Union
  <2>3. IsFiniteSet((register \ {s}) \cup ({cut} \cup next))
    <3> DEFINE A == register \ {s}
               B == {cut} \cup next
    <3> HIDE DEF A, B
    <3>1. IsFiniteSet(A) /\ IsFiniteSet(B)
      BY <2>1, <2>2 DEF A, B
    <3>2. IsFiniteSet(A \cup B)
      BY <3>1, FS_Union
    <3> QED
      BY <3>2 DEF A, B
  <2> QED
    BY <1>3, <2>3
<1>5. \A t \in register : t \in SeatType /\ t.from <= t.to /\ t.from <= day /\ (t.to <= day \/ t.to = Forever)
  BY DEF CloseInv, RegisterInv, Seats
<1>6. \A t \in register \ {s} : ~Meet(t, s) /\ ~Meet(s, t)
  BY <1>1 DEF CloseInv, RegisterInv, Seats
<1>7. \A t \in register \ {s} : ~Meet(t, cut) /\ ~Meet(cut, t)
  BY <1>1, <1>2, <1>5, <1>6, DayFacts DEF Meet, SeatType
<1>8. \A t \in register \ {s}, u \in next : ~Meet(t, u) /\ ~Meet(u, t)
  BY <1>1, <1>2, <1>5, <1>6, DayFacts DEF Meet, SeatType
<1>9. \A u \in next : ~Meet(cut, u) /\ ~Meet(u, cut)
  BY <1>2, DayFacts DEF Meet, SeatType
<1>10. RegisterInv'
  <2>1. register' \subseteq SeatType
    BY <1>2, <1>3, <1>5
  <2>2. \A t \in register' : t.from <= t.to /\ t.from <= day /\ (t.to <= day \/ t.to = Forever)
    <3>1. cut.from <= cut.to /\ cut.from <= day /\ cut.to <= day
      BY <1>1, <1>2, <1>5
    <3>2. \A t \in next : t.from <= t.to /\ t.from <= day /\ t.to = Forever
      BY DayFacts
    <3> QED
      BY <1>3, <1>5, <3>1, <3>2
  <2>3. ASSUME NEW t \in register', NEW u \in register', Meet(t, u) PROVE t = u
    <3>1. CASE t \in register \ {s}
      <4>1. u \in register
        BY <1>3, <1>7, <1>8, <2>3, <3>1
      <4> QED
        BY <2>3, <3>1, <4>1 DEF CloseInv, RegisterInv, Seats
    <3>2. CASE t = cut
      BY <1>3, <1>7, <1>9, <2>3, <3>2
    <3>3. CASE t \in next
      <4>1. u \in next
        BY <1>3, <1>8, <1>9, <2>3, <3>3
      <4> QED
        BY <3>3, <4>1
    <3> QED
      BY <1>3, <3>1, <3>2, <3>3
  <2> QED
    BY <1>4, <2>1, <2>2, <2>3 DEF RegisterInv, Seats
<1>11. MonthKept
  <2> SUFFICES ASSUME day > MonthDays, NEW t \in register
               PROVE  \E u \in register' : u.company = t.company /\ u.from = t.from /\ LastDay(u) = LastDay(t)
    BY DEF MonthKept
  <2>1. CASE t # s
    BY <1>3, <2>1
  <2>2. CASE t = s
    <3>1. MonthDays <= to
      BY DayFacts
    <3>2. LastDay(cut) = LastDay(s)
      BY <1>1, <1>2, <3>1, LastDayTyped, DayFacts
    <3> QED
      BY <1>2, <1>3, <2>2, <3>2
  <2> QED
    BY <2>1, <2>2
<1> QED
  BY <1>10, <1>11, MonthKeptKeeps

LEMMA MoveSeatKeeps ==
  ASSUME CloseInv, NEW c \in Organizations, MoveSeat(c)
  PROVE  CloseInv'
<1> DEFINE new == [company |-> c, from |-> day, to |-> Forever]
<1>1. PICK s \in Current :
        /\ s.from < day
        /\ register' = (register \ {s}) \cup {[s EXCEPT !.to = day - 1], new}
        /\ UNCHANGED <<day, eager, rate, run, closing, snapshot, statement, recon>>
  BY DEF MoveSeat
<1>2. new \in SeatType /\ new.from = day /\ new.to = Forever
  BY DayFacts DEF SeatType, Forever
<1> HIDE DEF new
<1>3. s.from \in Int
  BY DEF Current, CloseInv, RegisterInv, Seats, SeatType
<1>4. day - 1 \in Int /\ s.from <= day - 1 /\ day - 1 <= day /\ (MonthDays <= day - 1 \/ day <= MonthDays) /\ day - 1 < day
  BY <1>1, <1>3, DayFacts
<1>5. {new} \subseteq SeatType /\ IsFiniteSet({new})
  BY <1>2, FS_Singleton
<1>6. register' = (register \ {s}) \cup ({EndAt(s, day - 1)} \cup {new})
  BY <1>1 DEF EndAt
<1>7. (\A t \in {new} : t.from = day /\ t.to = Forever /\ day - 1 < day) /\ \A t, u \in {new} : t = u
  BY <1>2, <1>4
<1> QED
  BY <1>1, <1>4, <1>5, <1>6, <1>7, CutSeatKeeps

LEMMA EndSeatKeeps ==
  ASSUME CloseInv, EndSeat
  PROVE  CloseInv'
<1>1. PICK s \in Current :
        /\ register' = (register \ {s}) \cup {[s EXCEPT !.to = day]}
        /\ UNCHANGED <<day, eager, rate, run, closing, snapshot, statement, recon>>
  BY DEF EndSeat
<1>2. s.from <= day
  BY DEF Current, CloseInv, RegisterInv
<1>3. day \in Int /\ day <= day /\ (MonthDays <= day \/ day <= MonthDays)
  BY DayFacts
<1>4. register' = (register \ {s}) \cup ({EndAt(s, day)} \cup {}) /\ IsFiniteSet({})
  BY <1>1, FS_EmptySet DEF EndAt
<1> QED
  BY <1>1, <1>2, <1>3, <1>4, CutSeatKeeps

LEMMA NextDayKeeps ==
  ASSUME CloseInv, NextDay
  PROVE  CloseInv'
<1>1. /\ day <= MonthDays /\ day' = day + 1
      /\ UNCHANGED <<eager, register, rate, run, closing, snapshot, statement, recon>>
  BY DEF NextDay
<1>2. day' \in 1..MonthDays + 1 /\ day < day'
  BY <1>1, DayFacts
<1>3. RegisterInv'
  <2>1. Seats(register)'
    BY <1>1 DEF CloseInv, RegisterInv, Seats
  <2>2. \A s \in register : s.from <= day' /\ (s.to <= day' \/ s.to = Forever)
    BY <1>1, <1>2, DayFacts DEF CloseInv, RegisterInv, Seats, SeatType
  <2> QED
    BY <1>1, <2>1, <2>2 DEF RegisterInv
<1>4. \A s : ~Known(s)
  BY <1>1, DayFacts DEF Known
<1>5. \A c, l : ~Charged(c, l)
  BY <1>1, DayFacts DEF Charged
<1>6. SnapshotInv'
  BY <1>1, <1>4 DEF CloseInv, SnapshotInv, Seats
<1>7. StatementInv'
  BY <1>1, <1>5 DEF CloseInv, StatementInv, Final, Priced
<1>8. ReconInv'
  BY <1>1 DEF CloseInv, ReconInv, FinalLines, Final
<1>9. RunInv'
  BY <1>1, DayFacts DEF CloseInv, RunInv
<1> QED
  BY <1>1, <1>2, <1>3, <1>6, <1>7, <1>8, <1>9 DEF CloseInv, Rates

-------------------------------------------------------------------------------
(* MonthlyClose: rates and runs                                            *)

\* The final statements stand, and no other becomes final.
FinalsSame == \A c \in Organizations : (Final(c)' <=> Final(c)) /\ (Final(c) => statement'[c] = statement[c])

LEMMA FinalLinesSame ==
  ASSUME FinalsSame
  PROVE  FinalLines' = FinalLines
<1>1. \A l : l \in FinalLines' <=> \E c \in Organizations : Final(c)' /\ l \in statement'[c].lines
  BY DEF FinalLines
<1>2. \A l : l \in FinalLines <=> \E c \in Organizations : Final(c) /\ l \in statement[c].lines
  BY DEF FinalLines
<1>3. \A l : l \in FinalLines' <=> l \in FinalLines
  BY <1>1, <1>2 DEF FinalsSame
<1> QED
  BY <1>3

LEMMA ReconKeeps ==
  ASSUME CloseInv, FinalsSame, recon' = recon
  PROVE  ReconInv'
BY FinalLinesSame DEF CloseInv, ReconInv

\* A line of a final statement is typed, and it is one of the final lines.
LEMMA FinalLine ==
  ASSUME CloseInv, NEW c \in Organizations, Final(c), NEW l \in statement[c].lines
  PROVE  l \in FinalLines /\ l \in LineType /\ l.from <= l.to /\ Priced(l)
<1>1. l \in FinalLines
  BY DEF FinalLines
<1>2. statement[c] \in StatementType
  BY DEF CloseInv, StatementInv
<1>3. l \in LineType
  BY <1>2 DEF StatementType
<1> QED
  BY <1>1, <1>3 DEF CloseInv, StatementInv

LEMMA SaveRateKeeps ==
  ASSUME CloseInv, NEW i \in RateIds, NEW r \in RateRows, SaveRate(i, r)
  PROVE  CloseInv'
<1>1. /\ ~RateLocked(i) /\ \A j \in RateIds \ {i} : ~Meet(r, rate[j])
      /\ rate' = [rate EXCEPT ![i] = r]
      /\ UNCHANGED <<day, eager, register, run, closing, snapshot, statement, recon>>
  BY DEF SaveRate
<1>2. rate \in [RateIds -> RateRows \cup {NoRate}] /\ Rates(rate)
  BY DEF CloseInv, Rates
<1>3. \A j \in RateIds : rate'[j] = IF j = i THEN r ELSE rate[j]
  BY <1>1, <1>2
<1>4. Rates(rate')
  <2>1. rate' \in [RateIds -> RateRows \cup {NoRate}]
    BY <1>1, <1>2
  <2>2. \A j \in RateIds \ {i} : ~Meet(rate[j], r)
    BY <1>1 DEF Meet
  <2>3. \A j, k \in RateIds : Meet(rate'[j], rate'[k]) => j = k
    BY <1>1, <1>2, <1>3, <2>2 DEF Rates
  <2> QED
    BY <2>1, <2>3 DEF Rates
<1>5. ASSUME NEW c \in Organizations, Final(c), NEW l \in statement[c].lines PROVE Priced(l)'
  <2>1. l \in FinalLines /\ l \in LineType /\ l.from <= l.to
    BY <1>5, FinalLine
  <2>2. PICK j \in RateIds : rate[j].price = l.price /\ rate[j].from <= l.from /\ l.to <= rate[j].to
    BY <1>5, FinalLine DEF Priced
  <2>3. j # i
    <3> SUFFICES ASSUME j = i PROVE FALSE
      OBVIOUS
    <3>1. ~Meet(l, rate[i])
      BY <1>1, <2>1 DEF RateLocked
    <3>2. l.from \in Int /\ l.to \in Int /\ rate[i].from \in Int /\ rate[i].to \in Int
      BY <1>2, <2>1, RatesTyped DEF LineType, Month, RateType
    <3> QED
      BY <2>1, <2>2, <3>1, <3>2 DEF Meet
  <2> QED
    BY <1>3, <2>2, <2>3 DEF Priced
<1>6. StatementInv'
  <2>1. \A c \in Organizations : Final(c)' <=> Final(c)
    BY <1>1 DEF Final
  <2>2. \A c, l : Charged(c, l) => Charged(c, l)'
    BY <1>1 DEF Charged
  <2> QED
    BY <1>1, <1>5, <2>1, <2>2 DEF CloseInv, StatementInv
<1>7. ReconInv'
  BY <1>1, ReconKeeps DEF FinalsSame, Final
<1>8. RegisterInv' /\ SnapshotInv' /\ RunInv'
  BY <1>1 DEF CloseInv, RegisterInv, SnapshotInv, RunInv, Known
<1> QED
  BY <1>1, <1>4, <1>6, <1>7, <1>8 DEF CloseInv

\* Neither the register nor the rates nor a statement change.
DataSame == UNCHANGED <<day, eager, register, rate, statement, recon>>

LEMMA DataKeeps ==
  ASSUME CloseInv, DataSame, SnapshotInv', RunInv'
  PROVE  CloseInv'
<1>1. RegisterInv' /\ Rates(rate')
  BY DEF CloseInv, DataSame, RegisterInv
<1>2. StatementInv'
  BY DEF CloseInv, DataSame, StatementInv, Final, Priced, Charged
<1>3. ReconInv'
  BY ReconKeeps DEF DataSame, FinalsSame, Final
<1> QED
  BY <1>1, <1>2, <1>3 DEF CloseInv, DataSame

LEMMA StartRunKeeps ==
  ASSUME CloseInv, NEW r \in Runs, StartRun(r)
  PROVE  CloseInv'
<1>1. SnapshotInv'
  BY DEF CloseInv, SnapshotInv, StartRun, Known
<1>2. RunInv'
  BY DEF CloseInv, RunInv, StartRun
<1> QED
  BY <1>1, <1>2, DataKeeps DEF StartRun, DataSame

LEMMA ReadRegisterKeeps ==
  ASSUME CloseInv, NEW r \in Runs, ReadRegister(r)
  PROVE  CloseInv'
<1>1. /\ run[r] = "running" /\ closing = NoRun /\ closing' = r /\ snapshot' \subseteq register
      /\ UNCHANGED <<day, eager, register, rate, run, statement, recon>>
  BY DEF ReadRegister
<1>2. closing' # NoRun
  BY <1>1, CloseAssumption
<1>3. Seats(snapshot')
  BY <1>1, FS_Subset DEF CloseInv, RegisterInv, Seats
<1>4. ~eager => \A s \in snapshot' : Known(s)
  BY <1>1 DEF CloseInv, RunInv, Known
<1>5. SnapshotInv'
  BY <1>1, <1>2, <1>3, <1>4 DEF SnapshotInv, Known
<1>6. RunInv'
  BY <1>1 DEF CloseInv, RunInv
<1> QED
  BY <1>1, <1>5, <1>6, DataKeeps DEF DataSame

LEMMA ReleaseEmpties ==
  ASSUME Release
  PROVE  SnapshotInv'
BY FS_EmptySet DEF Release, SnapshotInv, Seats

LEMMA FailRunKeeps ==
  ASSUME CloseInv, NEW r \in Runs, FailRun(r)
  PROVE  CloseInv'
<1>1. run' = [run EXCEPT ![r] = "failed"] /\ Release
  BY DEF FailRun
<1>2. RunInv'
  BY <1>1 DEF CloseInv, RunInv, Release, FailRun
<1> QED
  BY <1>1, <1>2, ReleaseEmpties, DataKeeps DEF FailRun, DataSame

LEMMA LoseRunKeeps ==
  ASSUME CloseInv, NEW r \in Runs, LoseRun(r)
  PROVE  CloseInv'
<1>1. /\ run' = [run EXCEPT ![r] = "lost"] /\ UNCHANGED <<day, eager, register, rate, statement, recon>>
      /\ Release \/ (closing # r /\ UNCHANGED <<closing, snapshot>>)
  BY DEF LoseRun
<1>2. SnapshotInv'
  <2>1. CASE Release
    BY <2>1, ReleaseEmpties
  <2>2. CASE UNCHANGED <<closing, snapshot>>
    BY <1>1, <2>2 DEF CloseInv, SnapshotInv, Known
  <2> QED
    BY <1>1, <2>1, <2>2
<1>3. RunInv'
  BY <1>1 DEF CloseInv, RunInv, Release
<1> QED
  BY <1>1, <1>2, <1>3, DataKeeps DEF DataSame

LEMMA DrawKeeps ==
  ASSUME CloseInv, NEW r \in Runs, Draw(r)
  PROVE  CloseInv'
<1> DEFINE lines == Lines(snapshot, rate)
           mine(c) == {l \in lines : l.company = c}
<1>1. /\ closing = r /\ run' = [run EXCEPT ![r] = "succeeded"] /\ Release
      /\ statement' = [c \in Organizations |-> IF Rewritable(c) THEN [status |-> "draft", lines |-> mine(c)]
                                                                ELSE statement[c]]
      /\ UNCHANGED <<day, eager, register, rate, recon>>
  BY DEF Draw
<1>2. Seats(snapshot) /\ Rates(rate) /\ (~eager => \A s \in snapshot : Known(s))
  BY DEF CloseInv, SnapshotInv
<1>3. IsFiniteSet(lines)
  BY <1>2, LinesFinite
<1>4. \A l \in lines : l \in LineType /\ l.from <= l.to
  BY <1>2, LinesFit
<1>5. \A k, l \in lines : Meet(k, l) => k = l
  BY <1>2, LinesApart
<1>6. ASSUME ~eager, NEW l \in lines PROVE Charged(l.company, l)'
  <2>1. PICK s \in snapshot : s.company = l.company /\ s.from <= l.from /\ l.to <= LastDay(s)
    BY <1>2, LinesFit
  <2>2. PICK t \in register : t.company = s.company /\ t.from = s.from /\ LastDay(t) = LastDay(s)
    BY <1>2, <1>6 DEF Known
  <2>3. day > MonthDays
    BY <1>2, <1>6, <2>1 DEF Known
  <2> QED
    BY <1>1, <2>1, <2>2, <2>3 DEF Charged
<1> HIDE DEF lines
<1>7. \A c \in Organizations : mine(c) \subseteq lines /\ IsFiniteSet(mine(c)) /\ \A l \in mine(c) : l.company = c
  BY <1>3, FS_Subset
<1> HIDE DEF mine
<1>8. ASSUME NEW c \in Organizations
      PROVE  \/ statement'[c].status = "draft" /\ statement'[c].lines = mine(c) /\ ~Final(c)
             \/ statement'[c] = statement[c]
  BY <1>1 DEF Rewritable, Final
<1>9. FinalsSame
  BY <1>8 DEF FinalsSame, Final
<1>10. ASSUME NEW c \in Organizations
       PROVE  /\ statement'[c] \in StatementType
              /\ IsFiniteSet(statement'[c].lines)
              /\ \A l \in statement'[c].lines : l.from <= l.to /\ (~eager => Charged(c, l)')
              /\ \A k, l \in statement'[c].lines : Meet(k, l) => k = l
              /\ Final(c)' => \A l \in statement'[c].lines : Priced(l)'
  <2>1. CASE statement'[c] = statement[c]
    BY <1>1, <2>1 DEF CloseInv, StatementInv, Final, Priced, Charged
  <2>2. CASE Rewritable(c)
    <3>1. statement'[c] = [status |-> "draft", lines |-> mine(c)]
      BY <1>1, <2>2
    <3>2. statement'[c] \in StatementType
      BY <1>4, <1>7, <3>1 DEF StatementType
    <3>3. ~Final(c)' /\ statement'[c].lines = mine(c)
      BY <3>1 DEF Final
    <3>4. \A l \in mine(c) : l.from <= l.to /\ (~eager => Charged(c, l)')
      BY <1>4, <1>6, <1>7
    <3> QED
      BY <1>5, <1>7, <3>2, <3>3, <3>4
  <2> QED
    BY <1>1, <2>1, <2>2
<1>11. StatementInv'
  <2>1. statement' \in [Organizations -> StatementType]
    BY <1>1, <1>10
  <2> QED
    BY <1>1, <1>10, <2>1 DEF StatementInv
<1>12. ReconInv'
  BY <1>1, <1>9, ReconKeeps
<1>13. SnapshotInv'
  BY <1>1, ReleaseEmpties
<1>14. RunInv'
  BY <1>1 DEF CloseInv, RunInv, Release
<1>15. RegisterInv' /\ Rates(rate')
  BY <1>1 DEF CloseInv, RegisterInv
<1> QED
  BY <1>1, <1>11, <1>12, <1>13, <1>14, <1>15 DEF CloseInv

-------------------------------------------------------------------------------
(* MonthlyClose: final statements and the invoice                          *)

\* Lines never cost less than nothing, and more of them never cost less.
LEMMA TotalGrows ==
  ASSUME NEW L \in SUBSET LineType, IsFiniteSet(L), NEW K \in SUBSET L
  PROVE  Total(K) \in Nat /\ Total(L) \in Nat /\ Total(K) <= Total(L)
<1>1. IsFiniteSet(K) /\ K \in SUBSET LineType
  BY FS_Subset
<1>2. (\A l \in L : Weights[l] = l.amount) /\ \A l \in K : Weights[l] = l.amount
  BY DEF Weights
<1>3. Total(L) = Added(Weights, L) /\ Total(K) = Added(Weights, K)
  BY <1>1, <1>2, TotalAdds, WeightsTyped
<1> QED
  BY <1>1, <1>3, AddedNat, AddedMonotone, WeightsTyped

\* The lines of all statements.
AllLines == UNION {statement[c].lines : c \in Organizations}

LEMMA AllLinesFinite ==
  ASSUME CloseInv
  PROVE  IsFiniteSet(AllLines) /\ AllLines \subseteq LineType /\ FinalLines \subseteq AllLines
<1> DEFINE A == {statement[c].lines : c \in Organizations}
           f == [c \in Organizations |-> statement[c].lines]
<1>1. f \in Surjection(Organizations, A)
  BY DEF Surjection
<1>2. \A L \in A : IsFiniteSet(L) /\ L \subseteq LineType
  BY DEF CloseInv, StatementInv, StatementType
<1>3. FinalLines \subseteq AllLines
  BY DEF FinalLines, AllLines
<1>4. AllLines = UNION A
  BY DEF AllLines
<1> HIDE DEF A, f
<1>5. IsFiniteSet(A)
  BY <1>1, FS_Surjection, CloseAssumption
<1>6. IsFiniteSet(UNION A)
  BY <1>2, <1>5, FS_UNION
<1> QED
  BY <1>2, <1>3, <1>4, <1>6

LEMMA FinalizeKeeps ==
  ASSUME CloseInv, NEW S \in SUBSET Organizations, Finalize(S)
  PROVE  CloseInv'
<1> DEFINE drafts == {c \in S : statement[c].status = "draft"}
<1>1. /\ \A c \in drafts : \A l \in statement[c].lines : Priced(l)
      /\ statement' = [c \in Organizations |->
           IF c \in drafts THEN [statement[c] EXCEPT !.status = "final"] ELSE statement[c]]
      /\ UNCHANGED <<day, eager, register, rate, run, closing, snapshot, recon>>
  BY DEF Finalize
<1> HIDE DEF drafts
<1>2. \A c \in Organizations : statement[c] \in StatementType
  BY DEF CloseInv, StatementInv
<1>3. ASSUME NEW c \in Organizations
      PROVE  /\ statement'[c] \in StatementType /\ statement'[c].lines = statement[c].lines
             /\ Final(c) => Final(c)'
             /\ Final(c)' => Final(c) \/ c \in drafts
  BY <1>1, <1>2 DEF StatementType, Final
<1>4. statement' \in [Organizations -> StatementType]
  BY <1>1, <1>3
<1>5. \A l : Priced(l) => Priced(l)'
  BY <1>1 DEF Priced
<1>6. \A c, l : Charged(c, l) => Charged(c, l)'
  BY <1>1 DEF Charged
<1>7. ASSUME NEW c \in Organizations
      PROVE  /\ IsFiniteSet(statement'[c].lines)
             /\ \A l \in statement'[c].lines : l.from <= l.to /\ (~eager => Charged(c, l)')
             /\ \A k, l \in statement'[c].lines : Meet(k, l) => k = l
             /\ Final(c)' => \A l \in statement'[c].lines : Priced(l)'
  BY <1>1, <1>3, <1>5, <1>6 DEF CloseInv, StatementInv
<1>8. StatementInv'
  BY <1>1, <1>4, <1>7 DEF StatementInv
<1>9. FinalLines \subseteq FinalLines' /\ FinalLines' \subseteq AllLines
  <2>1. \A l : l \in FinalLines => \E c \in Organizations : Final(c) /\ l \in statement[c].lines
    BY DEF FinalLines
  <2>2. \A l : (\E c \in Organizations : Final(c)' /\ l \in statement'[c].lines) <=> l \in FinalLines'
    BY DEF FinalLines
  <2>3. \A c \in Organizations : \A l \in statement[c].lines : l \in AllLines
    BY DEF AllLines
  <2> QED
    BY <1>3, <2>1, <2>2, <2>3
<1>10. Total(FinalLines) <= Total(FinalLines') /\ Total(FinalLines) \in Nat /\ Total(FinalLines') \in Nat
  <2>1. IsFiniteSet(FinalLines') /\ FinalLines' \in SUBSET LineType
    BY <1>9, AllLinesFinite, FS_Subset
  <2> QED
    BY <1>9, <2>1, TotalGrows
<1>11. ReconInv'
  BY <1>1, <1>10 DEF CloseInv, ReconInv
<1>12. RegisterInv' /\ SnapshotInv' /\ RunInv' /\ Rates(rate')
  BY <1>1 DEF CloseInv, RegisterInv, SnapshotInv, RunInv, Known
<1> QED
  BY <1>1, <1>8, <1>11, <1>12 DEF CloseInv

\* When every statement with lines is final, the rollup is what the final lines cost.
LEMMA RollupIsFinal ==
  ASSUME CloseInv, Finished
  PROVE  Rollup = Total(FinalLines) /\ Rollup \in Nat
<1>1. \A l : l \in AllLines <=> \E c \in Organizations : l \in statement[c].lines
  BY DEF AllLines
<1>2. \A l : l \in FinalLines <=> \E c \in Organizations : Final(c) /\ l \in statement[c].lines
  BY DEF FinalLines
<1>3. AllLines = FinalLines
  BY <1>1, <1>2 DEF Finished
<1>4. Total(AllLines) \in Nat
  BY AllLinesFinite, TotalGrows
<1>5. Rollup = Total(AllLines)
  BY DEF Rollup, AllLines
<1> QED
  BY <1>3, <1>4, <1>5

LEMMA BooksKeep ==
  ASSUME CloseInv, UNCHANGED <<day, eager, register, rate, run, closing, snapshot, statement>>, ReconInv'
  PROVE  CloseInv'
<1>1. RegisterInv' /\ SnapshotInv' /\ RunInv' /\ Rates(rate')
  BY DEF CloseInv, RegisterInv, SnapshotInv, RunInv, Known
<1>2. StatementInv'
  BY DEF CloseInv, StatementInv, Final, Priced, Charged
<1> QED
  BY <1>1, <1>2 DEF CloseInv

LEMMA SaveInvoiceKeeps ==
  ASSUME CloseInv, NEW billed \in Invoices, SaveInvoice(billed)
  PROVE  CloseInv'
<1>1. /\ Finished /\ UNCHANGED <<day, eager, register, rate, run, closing, snapshot, statement>>
      /\ \E st \in {"reconciled", "open"} : recon' = [status |-> st, rollup |-> Rollup, invoice |-> billed]
  BY DEF SaveInvoice, Unsettled
<1>2. PICK n \in Nat : n = Rollup /\ n = Total(FinalLines)
  BY <1>1, RollupIsFinal
<1>3. PICK st \in {"reconciled", "open"} : recon' = [status |-> st, rollup |-> n, invoice |-> billed]
  BY <1>1, <1>2
<1>4. FinalLines' = FinalLines
  BY <1>1, FinalLinesSame DEF FinalsSame, Final
<1>5. ReconInv'
  <2>1. recon' \in [status : {NotYet, "open", "reconciled", "overridden"}, rollup : Nat, invoice : Invoices \cup {-1}]
    BY <1>3
  <2>2. recon'.rollup <= Total(FinalLines')
    BY <1>2, <1>3, <1>4
  <2> QED
    BY <2>1, <2>2 DEF ReconInv
<1> QED
  BY <1>1, <1>5, BooksKeep

LEMMA OverrideKeeps ==
  ASSUME CloseInv, Override
  PROVE  CloseInv'
<1>1. /\ Finished /\ UNCHANGED <<day, eager, register, rate, run, closing, snapshot, statement>>
      /\ recon' = [recon EXCEPT !.status = "overridden", !.rollup = Rollup]
  BY DEF Override, Unsettled
<1>2. PICK n \in Nat : n = Rollup /\ n = Total(FinalLines)
  BY <1>1, RollupIsFinal
<1>3. recon' = [recon EXCEPT !.status = "overridden", !.rollup = n]
  BY <1>1, <1>2
<1>4. FinalLines' = FinalLines
  BY <1>1, FinalLinesSame DEF FinalsSame, Final
<1>5. recon \in [status : {NotYet, "open", "reconciled", "overridden"}, rollup : Nat, invoice : Invoices \cup {-1}]
  BY DEF CloseInv, ReconInv
<1>6. ReconInv'
  <2>1. recon' \in [status : {NotYet, "open", "reconciled", "overridden"}, rollup : Nat, invoice : Invoices \cup {-1}]
    BY <1>3, <1>5
  <2>2. recon'.rollup <= Total(FinalLines')
    BY <1>2, <1>3, <1>4, <1>5
  <2> QED
    BY <2>1, <2>2 DEF ReconInv
<1> QED
  BY <1>1, <1>6, BooksKeep

-------------------------------------------------------------------------------
(* MonthlyClose: the theorems                                              *)

LEMMA CloseInitInv ==
  ASSUME CloseInit
  PROVE  CloseInv
<1>1. /\ day = 1 /\ eager \in BOOLEAN /\ register = {}
      /\ rate \in [RateIds -> RateRows \cup {NoRate}]
      /\ \A i, j \in RateIds : i # j => ~Meet(rate[i], rate[j])
      /\ run = [r \in Runs |-> NotYet] /\ closing = NoRun /\ snapshot = {}
      /\ statement = [c \in Organizations |-> NoStatement]
      /\ recon = [status |-> NotYet, rollup |-> 0, invoice |-> -1]
  BY DEF CloseInit
<1>2. Rates(rate) /\ day \in 1..MonthDays + 1
  BY <1>1, CloseAssumption DEF Rates
<1>3. Seats({})
  BY FS_EmptySet DEF Seats
<1>4. RegisterInv /\ SnapshotInv
  BY <1>1, <1>3 DEF RegisterInv, SnapshotInv
<1>5. RunInv
  BY <1>1, CloseAssumption DEF RunInv, NotYet
<1>6. \A c \in Organizations : statement[c] = NoStatement /\ ~Final(c) /\ statement[c].lines = {}
  BY <1>1 DEF NoStatement, NotYet, Final
<1>7. statement \in [Organizations -> StatementType]
  BY <1>1 DEF NoStatement, StatementType
<1>8. StatementInv
  BY <1>6, <1>7, FS_EmptySet DEF StatementInv
<1>9. ReconInv
  BY <1>1 DEF ReconInv, NotYet
<1> QED
  BY <1>1, <1>2, <1>4, <1>5, <1>8, <1>9 DEF CloseInv

LEMMA CloseNextInv ==
  ASSUME CloseInv, [CloseNext]_closeVars
  PROVE  CloseInv'
<1>1. CASE UNCHANGED closeVars
  BY <1>1, BooksKeep DEF closeVars, CloseInv, ReconInv, FinalLines, Final
<1>2. ASSUME NEW c \in Organizations, NEW d \in 1..MonthDays + 1, TakeSeat(c, d) PROVE CloseInv'
  BY <1>2, TakeSeatKeeps
<1>3. ASSUME NEW c \in Organizations, MoveSeat(c) PROVE CloseInv'
  BY <1>3, MoveSeatKeeps
<1>4. CASE EndSeat
  BY <1>4, EndSeatKeeps
<1>5. CASE NextDay
  BY <1>5, NextDayKeeps
<1>6. ASSUME NEW i \in RateIds, NEW r \in RateRows, SaveRate(i, r) PROVE CloseInv'
  BY <1>6, SaveRateKeeps
<1>7. ASSUME NEW r \in Runs, StartRun(r) \/ ReadRegister(r) \/ Draw(r) \/ FailRun(r) \/ LoseRun(r) PROVE CloseInv'
  BY <1>7, StartRunKeeps, ReadRegisterKeeps, DrawKeeps, FailRunKeeps, LoseRunKeeps
<1>8. ASSUME NEW c \in Organizations, Finalize({c}) PROVE CloseInv'
  BY <1>8, FinalizeKeeps
<1>9. CASE Finalize(Organizations)
  BY <1>9, FinalizeKeeps
<1>10. ASSUME NEW billed \in Invoices, SaveInvoice(billed) PROVE CloseInv'
  BY <1>10, SaveInvoiceKeeps
<1>11. CASE Override
  BY <1>11, OverrideKeeps
<1> QED
  BY <1>1, <1>2, <1>3, <1>4, <1>5, <1>6, <1>7, <1>8, <1>9, <1>10, <1>11 DEF CloseNext

LEMMA CloseInvariant == CloseSpec => []CloseInv
<1> QED
  BY CloseInitInv, CloseNextInv, PTL DEF CloseSpec

LEMMA CloseTyped ==
  ASSUME CloseInv
  PROVE  CloseTypeOK
<1>1. Seats(register) /\ Seats(snapshot)
  BY DEF CloseInv, RegisterInv, SnapshotInv
<1>2. \A s \in register \cup snapshot : s \in SeatType /\ s.from <= s.to
  BY <1>1 DEF Seats
<1>3. \A s \in register \cup snapshot :
        s.company \in Organizations /\ s.from \in 1..MonthDays + 1 /\ s.to \in s.from..Forever
  BY <1>2, DayFacts DEF SeatType
<1>4. \A c \in Organizations : statement[c].status \in {NotYet, "draft", "final"} /\ statement[c].lines \subseteq LineType
  BY DEF CloseInv, StatementInv, StatementType
<1>5. /\ recon.status \in {NotYet, "open", "reconciled", "overridden"}
      /\ recon.rollup \in Nat /\ recon.invoice \in Invoices \cup {-1}
  BY DEF CloseInv, ReconInv
<1>6. /\ run \in [Runs -> {NotYet, "running", "succeeded", "failed", "lost"}]
      /\ closing \in Runs \cup {NoRun} /\ (closing # NoRun => run[closing] = "running")
  BY DEF CloseInv, RunInv
<1>7. day \in 1..MonthDays + 1 /\ eager \in BOOLEAN /\ rate \in [RateIds -> RateRows \cup {NoRate}]
  BY DEF CloseInv, Rates
<1> QED
  BY <1>3, <1>4, <1>5, <1>6, <1>7 DEF CloseTypeOK

\* The register, the rates, the runs, the statements and the reconciliation have the
\* types of their tables; the lock is held by a run under way (run-close.ts).
THEOREM CloseTypeCorrect == CloseSpec => []CloseTypeOK
<1> QED
  BY CloseInvariant, CloseTyped, PTL

LEMMA LastDayEnds ==
  ASSUME NEW s \in SeatType
  PROVE  LastDay(s) \in Int /\ LastDay(s) <= s.to /\ LastDay(s) <= MonthDays
BY CloseAssumption DEF LastDay, Least, SeatType

LEMMA ChargedOnce ==
  ASSUME CloseInv
  PROVE  DayChargedOnce
<1> SUFFICES ASSUME ~eager, NEW c \in Organizations, NEW e \in Organizations,
                    NEW k \in statement[e].lines, NEW l \in statement[c].lines, Meet(k, l)
             PROVE  k = l
  BY DEF DayChargedOnce
<1>1. k.from <= k.to /\ l.from <= l.to /\ Charged(e, k) /\ Charged(c, l)
  BY DEF CloseInv, StatementInv
<1>2. PICK s \in register : s.company = c /\ s.from <= l.from /\ l.to <= LastDay(s)
  BY <1>1 DEF Charged
<1>3. PICK t \in register : t.company = e /\ t.from <= k.from /\ k.to <= LastDay(t)
  BY <1>1 DEF Charged
<1>4. s \in SeatType /\ t \in SeatType
  BY DEF CloseInv, RegisterInv, Seats
<1>5. k \in LineType /\ l \in LineType
  BY DEF CloseInv, StatementInv, StatementType
<1>6. k.from \in Int /\ k.to \in Int /\ l.from \in Int /\ l.to \in Int
  BY <1>5 DEF LineType, Month
<1>7. s.from \in Int /\ s.to \in Int /\ t.from \in Int /\ t.to \in Int
  BY <1>4 DEF SeatType
<1>8. LastDay(s) \in Int /\ LastDay(s) <= s.to /\ LastDay(t) \in Int /\ LastDay(t) <= t.to
  BY <1>4, LastDayEnds
<1>9. Meet(s, t)
  BY <1>1, <1>2, <1>3, <1>6, <1>7, <1>8 DEF Meet
<1>10. s = t
  BY <1>9 DEF CloseInv, RegisterInv, Seats
<1>11. c = e
  BY <1>2, <1>3, <1>10
<1> QED
  BY <1>11 DEF CloseInv, StatementInv

\* No day of the seat is ever charged to two companies, however often the month is
\* closed and whatever becomes of the seat after it (BR-17).
THEOREM ChargedOneCompany == CloseSpec => []DayChargedOnce
<1> QED
  BY CloseInvariant, ChargedOnce, PTL

\* What an invoice was reconciled with is never more than the final statements (BR-20).
THEOREM RollupsStand == CloseSpec => []RollupStands
<1>1. CloseInv => RollupStands
  BY DEF CloseInv, ReconInv, RollupStands
<1> QED
  BY <1>1, CloseInvariant, PTL

LEMMA FinalsKept ==
  ASSUME [CloseNext]_closeVars, NEW c \in Organizations, Final(c)
  PROVE  statement'[c] = statement[c]
<1>1. CASE UNCHANGED statement
  BY <1>1
<1>2. ASSUME NEW r \in Runs, Draw(r) PROVE statement'[c] = statement[c]
  BY <1>2 DEF Draw, Rewritable, Final
<1>3. ASSUME NEW S, Finalize(S) PROVE statement'[c] = statement[c]
  BY <1>3 DEF Finalize, Final
<1>4. UNCHANGED statement \/ (\E r \in Runs : Draw(r)) \/ \E S : Finalize(S)
  BY DEF CloseNext, closeVars, TakeSeat, MoveSeat, EndSeat, NextDay, SaveRate, StartRun, ReadRegister, FailRun,
         LoseRun, SaveInvoice, Override
<1> QED
  BY <1>1, <1>2, <1>3, <1>4

\* A final statement changes no more, and its lines keep a rate of their price, whatever
\* runs were under way and whatever is edited (BR-18, BR-21).
THEOREM FinalsAreKept == CloseSpec => FinalsStand
<1>1. CloseInv => \A l \in FinalLines : Priced(l)
  <2> SUFFICES ASSUME CloseInv, NEW l \in FinalLines PROVE Priced(l)
    OBVIOUS
  <2>1. PICK c \in Organizations : Final(c) /\ l \in statement[c].lines
    BY DEF FinalLines
  <2> QED
    BY <2>1, FinalLine
<1>2. CloseInv /\ CloseInv' /\ [CloseNext]_closeVars =>
        [/\ \A c \in Organizations : Final(c) => statement'[c] = statement[c]
         /\ \A l \in FinalLines' : Priced(l)']_closeVars
  <2> SUFFICES ASSUME CloseInv, CloseInv', [CloseNext]_closeVars
               PROVE  /\ \A c \in Organizations : Final(c) => statement'[c] = statement[c]
                      /\ \A l \in FinalLines' : Priced(l)'
    OBVIOUS
  <2>1. CloseInv' => (\A l \in FinalLines : Priced(l))'
    BY <1>1, PTL
  <2>2. \A c \in Organizations : Final(c) => statement'[c] = statement[c]
    BY FinalsKept
  <2> QED
    BY <2>1, <2>2
<1> QED
  BY <1>2, CloseInvariant, PTL DEF CloseSpec, FinalsStand

\* What a run draws charges each day of a seat once, to its company, and the pieces of
\* a rate cost to the cent what the unsplit charge costs (computeLicenseClose, BR-17).
THEOREM SplitsExactly == CloseSpec => []SplitIsExact
<1>1. ASSUME CloseInv PROVE SplitIsExact
  <2>1. Seats(register) /\ Rates(rate)
    BY <1>1 DEF CloseInv, RegisterInv
  <2>2. \A i \in RateIds : Total(Mine(i, register, rate))
          = Round(rate[i].price * MapThenSumSet(DaysOf, Mine(i, register, rate)))
    BY <2>1, MineCosts
  <2> QED
    BY <2>1, <2>2, DaysCharged DEF SplitIsExact, Mine
<1> QED
  BY <1>1, CloseInvariant, PTL
===============================================================================
