---------------------- MODULE LifecycleNotificationsProofs ----------------------
(***************************************************************************)
(* Proofs about LifecycleNotifications: for any number of notifications and *)
(* dispatchers and any cap, a mail is repeated only for a fault, and        *)
(* attempts overrun the cap only as far as scans may be out of date.        *)
(***************************************************************************)
EXTENDS LifecycleNotifications, FiniteSetTheorems, TLAPS

Busy(d) == drain[d].phase \in {"claimed", "sending", "settling"}

\* The dispatchers whose scan still lists the notification.
Waiting(n) == {d \in Dispatchers : drain[d].phase # "resting" /\ n \in drain[d].todo}

\* Attempts are claimed in turn.
PrefixInv ==
  \A n \in Notifications, k \in Attempts :
    deliveries[n][k].outcome # "none" <=> k <= LastAttempt(n)

\* Beyond the cap, only those may claim who scanned before it was reached; one of
\* them reached it.
CountInv ==
  \A n \in Notifications : LastAttempt(n) >= MaxAttempts =>
    LastAttempt(n) + Cardinality(Waiting(n)) < MaxAttempts + Cardinality(Dispatchers)

\* A dispatcher works on an attempt that was claimed, and no other one does.
OwnInv ==
  \A d \in Dispatchers : Busy(d) =>
    /\ deliveries[drain[d].n][drain[d].attempt].outcome # "none"
    /\ \A e \in Dispatchers \ {d} : Busy(e) /\ drain[e].n = drain[d].n
         => drain[e].attempt # drain[d].attempt

\* Who read the clock too late finds the lease over.
TimeInv ==
  \A d \in Dispatchers : drain[d].phase = "settling" /\ ~drain[d].inTime =>
    deliveries[drain[d].n][drain[d].attempt].over

\* A success is of a mail that was accepted.
SentInv ==
  /\ \A d \in Dispatchers : drain[d].phase = "settling" /\ drain[d].result = "succeeded"
       => accepted[drain[d].n] >= 1
  /\ \A n \in Notifications : MailSucceeded(n) => accepted[n] >= 1

\* The attempts of which the mail may be sent yet.
Unsent(n) == {d \in Dispatchers : drain[d].phase \in {"claimed", "sending"} /\ drain[d].n = n}

\* The dispatchers under a lease that have not failed.
Holding(n) ==
  {d \in Dispatchers :
     /\ Busy(d) /\ drain[d].n = n
     /\ deliveries[n][drain[d].attempt].outcome = "claimed" /\ ~deliveries[n][drain[d].attempt].over
     /\ drain[d].phase = "settling" => drain[d].result = "succeeded"}

\* Of every mail sent, or still to be sent, all but one have their fault; and all
\* of them while nobody holds a lease and nothing succeeded, so that a claim may add
\* one.
MailOf(n) ==
  /\ accepted[n] + Cardinality(Unsent(n)) <= 1 + mailFaults
  /\ ~MailSucceeded(n) /\ Holding(n) = {} => accepted[n] + Cardinality(Unsent(n)) <= mailFaults

MailInv == \A n \in Notifications : MailOf(n)

IInv == MailTypeOK /\ PrefixInv /\ CountInv /\ OwnInv /\ TimeInv /\ SentInv /\ MailInv

-------------------------------------------------------------------------------
(* Attempts                                                                *)

Used(n) == {k \in Attempts : deliveries[n][k].outcome # "none"}

LEMMA Numbers ==
  /\ Cardinality(Dispatchers) \in Nat /\ MaxAttempts \in Nat
  /\ Attempts = 1..(MaxAttempts + Cardinality(Dispatchers)) /\ IsFiniteSet(Attempts)
<1>1. Cardinality(Dispatchers) \in Nat /\ MaxAttempts \in Nat
  BY FS_CardinalityType, MailAssumption
<1>2. PICK m \in Nat : m = MaxAttempts + Cardinality(Dispatchers)
  BY <1>1
<1>3. IsFiniteSet(1..m)
  BY <1>2, FS_Interval
<1> QED
  BY <1>1, <1>2, <1>3 DEF Attempts

LEMMA UsedAttempts ==
  ASSUME NEW n
  PROVE  IsFiniteSet(Used(n)) /\ LastAttempt(n) = Cardinality(Used(n)) /\ LastAttempt(n) \in Nat
<1>1. PICK used : used = Used(n)
  OBVIOUS
<1>2. used \in SUBSET Attempts
  BY <1>1 DEF Used
<1>3. IsFiniteSet(used)
  BY <1>2, Numbers, FS_Subset
<1>4. Cardinality(used) \in Nat
  BY <1>3, FS_CardinalityType
<1> QED
  BY <1>1, <1>3, <1>4 DEF LastAttempt, Used

\* Rows that stay used, or unused, leave the number of attempts as it is.
LEMMA LastSame ==
  ASSUME NEW n,
         \A k \in Attempts : deliveries'[n][k].outcome # "none" <=> deliveries[n][k].outcome # "none"
  PROVE  LastAttempt(n)' = LastAttempt(n)
<1>1. {k \in Attempts : deliveries'[n][k].outcome # "none"} = {k \in Attempts : deliveries[n][k].outcome # "none"}
  OBVIOUS
<1> QED
  BY <1>1 DEF LastAttempt

\* The next attempt is claimed.
LEMMA LastNext ==
  ASSUME NEW n, NEW last, last = LastAttempt(n), last + 1 \in Attempts,
         \A k \in Attempts : deliveries[n][k].outcome # "none" <=> k <= last,
         deliveries'[n][last + 1].outcome # "none",
         \A k \in Attempts : k # last + 1 => deliveries'[n][k] = deliveries[n][k]
  PROVE  /\ LastAttempt(n)' = last + 1
         /\ \A k \in Attempts : deliveries'[n][k].outcome # "none" <=> k <= last + 1
<1>1. PICK used : used = Used(n)
  OBVIOUS
<1>2. IsFiniteSet(used) /\ Cardinality(used) = last /\ last \in Nat
  BY <1>1, UsedAttempts
<1>3. last + 1 \notin used
  BY <1>1, <1>2 DEF Used
<1>4. {k \in Attempts : deliveries'[n][k].outcome # "none"} = used \cup {last + 1}
  BY <1>1 DEF Used
<1>5. Cardinality(used \cup {last + 1}) = last + 1
  BY <1>2, <1>3, FS_AddElement
<1>6. LastAttempt(n)' = last + 1
  BY <1>4, <1>5 DEF LastAttempt
<1>7. \A k \in Attempts : k \in Nat /\ (k <= last + 1 <=> k <= last \/ k = last + 1)
  BY <1>2, Numbers
<1> QED
  BY <1>6, <1>7

-------------------------------------------------------------------------------
(* The states of a dispatcher                                              *)

DrainingState == [phase : {"draining"}, todo : (SUBSET Notifications) \ {{}}]
SendingState  == [phase : {"claimed", "sending"}, todo : SUBSET Notifications,
                  n : Notifications, attempt : Attempts]
SettlingState == [phase : {"settling"}, todo : SUBSET Notifications, n : Notifications,
                  attempt : Attempts, result : {"succeeded", "failed", "suppressed"},
                  inTime : BOOLEAN]

Rows == [outcome : {"none", "claimed", "succeeded", "failed", "suppressed"},
         over : BOOLEAN, rested : BOOLEAN]

LEMMA DrainStates ==
  DrainState = {Resting} \cup DrainingState \cup SendingState \cup SettlingState
BY DEF DrainState, DrainingState, SendingState, SettlingState

LEMMA StateOf ==
  ASSUME MailTypeOK, NEW d \in Dispatchers
  PROVE  /\ drain[d].phase = "resting" <=> drain[d] = Resting
         /\ drain[d].phase = "draining" <=> drain[d] \in DrainingState
         /\ drain[d].phase \in {"claimed", "sending"} <=> drain[d] \in SendingState
         /\ drain[d].phase = "settling" <=> drain[d] \in SettlingState
         /\ drain[d].phase \in {"resting", "draining", "claimed", "sending", "settling"}
         /\ drain[d].phase # "resting" => drain[d].todo \in SUBSET Notifications
         /\ Busy(d) => drain[d].n \in Notifications /\ drain[d].attempt \in Attempts
<1>1. drain[d] \in {Resting} \cup DrainingState \cup SendingState \cup SettlingState
  BY DrainStates DEF MailTypeOK
<1> QED
  BY <1>1 DEF Resting, DrainingState, SendingState, SettlingState, Busy

LEMMA RowsTyped ==
  ASSUME MailTypeOK, NEW n \in Notifications, NEW k \in Attempts
  PROVE  deliveries[n][k] \in Rows
BY DEF MailTypeOK, Rows

\* A dispatcher takes a step, the others do not.
LEMMA DrainUpdate ==
  ASSUME MailTypeOK, NEW d \in Dispatchers, NEW r \in DrainState, drain' = [drain EXCEPT ![d] = r]
  PROVE  /\ drain' \in [Dispatchers -> DrainState] /\ drain'[d] = r
         /\ \A e \in Dispatchers \ {d} : drain'[e] = drain[e]
BY DEF MailTypeOK

LEMMA JournalUpdate ==
  ASSUME MailTypeOK, NEW n \in Notifications, NEW k \in Attempts, NEW r \in Rows,
         deliveries' = [deliveries EXCEPT ![n][k] = r]
  PROVE  /\ deliveries' \in [Notifications -> [Attempts -> Rows]] /\ deliveries'[n][k] = r
         /\ \A m \in Notifications, j \in Attempts :
              m # n \/ j # k => deliveries'[m][j] = deliveries[m][j]
BY DEF MailTypeOK, Rows

LEMMA ContinueTyped ==
  ASSUME NEW todo \in SUBSET Notifications
  PROVE  /\ Continue(todo) \in DrainState
         /\ Continue(todo).phase \in {"resting", "draining"}
         /\ Continue(todo).phase # "resting" => Continue(todo).todo = todo
<1>1. CASE todo = {}
  BY <1>1, DrainStates DEF Continue, Resting
<1>2. CASE todo # {}
  <2>1. todo \in (SUBSET Notifications) \ {{}}
    BY <1>2
  <2>2. [phase |-> "draining", todo |-> todo] \in DrainingState
    BY <2>1 DEF DrainingState
  <2> QED
    BY <1>2, <2>2, DrainStates DEF Continue
<1> QED
  BY <1>1, <1>2

LEMMA SettlingTyped ==
  ASSUME MailTypeOK, NEW d \in Dispatchers, Busy(d),
         NEW result \in {"succeeded", "failed", "suppressed"}
  PROVE  LET r == Settling(d, result) IN
         /\ r \in DrainState /\ r.phase = "settling" /\ r.todo = drain[d].todo /\ r.n = drain[d].n
         /\ r.attempt = drain[d].attempt /\ r.result = result
         /\ r.inTime = ~deliveries[drain[d].n][drain[d].attempt].over
<1>1. /\ drain[d].n \in Notifications /\ drain[d].attempt \in Attempts
      /\ drain[d].todo \in SUBSET Notifications
  BY StateOf DEF Busy
<1>2. deliveries[drain[d].n][drain[d].attempt].over \in BOOLEAN
  BY <1>1, RowsTyped DEF Rows
<1>3. Settling(d, result) \in SettlingState
  BY <1>1, <1>2 DEF Settling, SettlingState
<1> QED
  BY <1>3, DrainStates DEF Settling

-------------------------------------------------------------------------------
(* What steps keep                                                         *)

\* Who claims nothing, and scans nothing that reached the cap, leaves the
\* counts and the owners as they are.
LEMMA Steady ==
  ASSUME MailTypeOK, PrefixInv, CountInv, OwnInv,
         \A m \in Notifications, j \in Attempts :
           /\ deliveries'[m][j].outcome # "none" <=> deliveries[m][j].outcome # "none"
           /\ deliveries[m][j].over => deliveries'[m][j].over,
         \A e \in Dispatchers :
           /\ Busy(e)' => /\ Busy(e) /\ drain'[e].n = drain[e].n
                          /\ drain'[e].attempt = drain[e].attempt
           /\ drain'[e].phase = "settling" /\ ~drain'[e].inTime =>
                deliveries[drain[e].n][drain[e].attempt].over,
         \A m \in Notifications : LastAttempt(m) >= MaxAttempts => Waiting(m)' \subseteq Waiting(m)
  PROVE  PrefixInv' /\ CountInv' /\ OwnInv' /\ TimeInv'
<1>1. \A n \in Notifications : LastAttempt(n)' = LastAttempt(n)
  BY LastSame
<1>2. PrefixInv'
  BY <1>1 DEF PrefixInv
<1>3. CountInv'
  <2>1. SUFFICES ASSUME NEW n \in Notifications, LastAttempt(n) >= MaxAttempts
                 PROVE  LastAttempt(n) + Cardinality(Waiting(n)') < MaxAttempts + Cardinality(Dispatchers)
    BY <1>1 DEF CountInv
  <2>2. PICK w : w = Waiting(n)
    OBVIOUS
  <2>3. PICK v : v = Waiting(n)'
    OBVIOUS
  <2>4. v \subseteq w /\ w \subseteq Dispatchers
    BY <2>1, <2>2, <2>3 DEF Waiting
  <2>5. IsFiniteSet(w)
    BY <2>4, FS_Subset, MailAssumption
  <2>6. IsFiniteSet(v) /\ Cardinality(v) <= Cardinality(w)
    BY <2>4, <2>5, FS_Subset
  <2>7. Cardinality(v) \in Nat /\ Cardinality(w) \in Nat
    BY <2>5, <2>6, FS_CardinalityType
  <2>8. LastAttempt(n) + Cardinality(w) < MaxAttempts + Cardinality(Dispatchers)
    BY <2>1, <2>2 DEF CountInv
  <2> QED
    BY <2>3, <2>6, <2>7, <2>8, UsedAttempts, Numbers
<1>4. OwnInv'
  <2>1. SUFFICES ASSUME NEW d \in Dispatchers, Busy(d)'
                 PROVE  /\ deliveries'[drain'[d].n][drain'[d].attempt].outcome # "none"
                        /\ \A e \in Dispatchers \ {d} : Busy(e)' /\ drain'[e].n = drain'[d].n
                             => drain'[e].attempt # drain'[d].attempt
    BY DEF OwnInv
  <2>2. Busy(d) /\ drain'[d].n = drain[d].n /\ drain'[d].attempt = drain[d].attempt
    BY <2>1
  <2>3. drain[d].n \in Notifications /\ drain[d].attempt \in Attempts
    BY <2>2, StateOf
  <2>4. deliveries'[drain'[d].n][drain'[d].attempt].outcome # "none"
    BY <2>2, <2>3 DEF OwnInv
  <2> QED
    BY <2>2, <2>4 DEF OwnInv
<1>5. TimeInv'
  <2>1. SUFFICES ASSUME NEW d \in Dispatchers, drain'[d].phase = "settling", ~drain'[d].inTime
                 PROVE  deliveries'[drain'[d].n][drain'[d].attempt].over
    BY DEF TimeInv
  <2>2. Busy(d) /\ drain'[d].n = drain[d].n /\ drain'[d].attempt = drain[d].attempt
    BY <2>1 DEF Busy
  <2>3. drain[d].n \in Notifications /\ drain[d].attempt \in Attempts
    BY <2>2, StateOf
  <2> QED
    BY <2>1, <2>2, <2>3
<1> QED
  BY <1>2, <1>3, <1>4, <1>5

LEMMA SameBut ==
  ASSUME NEW S, NEW T, NEW x, S \ {x} = T \ {x}, x \in S <=> x \in T
  PROVE  S = T
OBVIOUS

\* Those whose mail is not sent are some of the dispatchers.
LEMMA UnsentFinite ==
  ASSUME NEW n
  PROVE  IsFiniteSet(Unsent(n)) /\ Cardinality(Unsent(n)) \in Nat
<1>1. PICK u : u = Unsent(n)
  OBVIOUS
<1>2. u \subseteq Dispatchers
  BY <1>1 DEF Unsent
<1>3. IsFiniteSet(u)
  BY <1>2, FS_Subset, MailAssumption
<1> QED
  BY <1>1, <1>3, FS_CardinalityType

\* A step that concerns another notification.
LEMMA MailKept ==
  ASSUME MailTypeOK, MailInv, NEW m \in Notifications,
         accepted'[m] = accepted[m], Unsent(m)' \subseteq Unsent(m), mailFaults' \in Nat, mailFaults' >= mailFaults,
         MailSucceeded(m) => MailSucceeded(m)',
         Holding(m)' = {} /\ ~MailSucceeded(m)' => Holding(m) = {}
  PROVE  MailOf(m)'
<1>1. PICK u : u = Unsent(m)
  OBVIOUS
<1>2. PICK v : v = Unsent(m)'
  OBVIOUS
<1>3. IsFiniteSet(u) /\ Cardinality(u) \in Nat
  BY <1>1, UnsentFinite
<1>4. IsFiniteSet(v) /\ Cardinality(v) <= Cardinality(u)
  BY <1>1, <1>2, <1>3, FS_Subset
<1>5. Cardinality(v) \in Nat
  BY <1>4, FS_CardinalityType
<1>6. accepted[m] \in Nat /\ mailFaults \in Nat
  BY DEF MailTypeOK
<1>7. accepted[m] + Cardinality(u) <= 1 + mailFaults
  BY <1>1 DEF MailInv, MailOf
<1>8. accepted'[m] + Cardinality(v) <= 1 + mailFaults'
  BY <1>3, <1>4, <1>5, <1>6, <1>7
<1>9. ASSUME ~MailSucceeded(m)', Holding(m)' = {}
      PROVE  accepted'[m] + Cardinality(v) <= mailFaults'
  <2>1. accepted[m] + Cardinality(u) <= mailFaults
    BY <1>1, <1>9 DEF MailInv, MailOf
  <2> QED
    BY <1>3, <1>4, <1>5, <1>6, <2>1
<1> QED
  BY <1>2, <1>8, <1>9 DEF MailOf

\* A fault pays for a mail.
LEMMA MailPaid ==
  ASSUME MailTypeOK, MailInv, NEW m \in Notifications,
         accepted'[m] = accepted[m], Unsent(m)' \subseteq Unsent(m), mailFaults' = mailFaults + 1
  PROVE  MailOf(m)'
<1>1. PICK u : u = Unsent(m)
  OBVIOUS
<1>2. PICK v : v = Unsent(m)'
  OBVIOUS
<1>3. IsFiniteSet(u) /\ Cardinality(u) \in Nat
  BY <1>1, UnsentFinite
<1>4. IsFiniteSet(v) /\ Cardinality(v) <= Cardinality(u)
  BY <1>1, <1>2, <1>3, FS_Subset
<1>5. Cardinality(v) \in Nat
  BY <1>4, FS_CardinalityType
<1>6. accepted[m] \in Nat /\ mailFaults \in Nat
  BY DEF MailTypeOK
<1>7. accepted[m] + Cardinality(u) <= 1 + mailFaults
  BY <1>1 DEF MailInv, MailOf
<1>8. accepted'[m] + Cardinality(v) <= mailFaults'
  BY <1>3, <1>4, <1>5, <1>6, <1>7
<1> QED
  BY <1>2, <1>5, <1>6, <1>8 DEF MailOf

\* What a dispatcher does to the row of its attempt is nothing to the others.
LEMMA OthersHold ==
  ASSUME MailTypeOK, OwnInv, NEW d \in Dispatchers, Busy(d),
         \A e \in Dispatchers \ {d} : drain'[e] = drain[e],
         \A m \in Notifications, j \in Attempts :
           m # drain[d].n \/ j # drain[d].attempt => deliveries'[m][j] = deliveries[m][j]
  PROVE  /\ \A m \in Notifications : Holding(m)' \ {d} = Holding(m) \ {d}
         /\ \A m \in Notifications : Unsent(m)' \ {d} = Unsent(m) \ {d}
<1>1. ASSUME NEW m \in Notifications, NEW e \in Dispatchers \ {d}, Busy(e), drain[e].n = m
      PROVE  deliveries'[m][drain[e].attempt] = deliveries[m][drain[e].attempt]
  <2>1. drain[e].attempt \in Attempts
    BY <1>1, StateOf
  <2>2. m # drain[d].n \/ drain[e].attempt # drain[d].attempt
    BY <1>1 DEF OwnInv
  <2> QED
    BY <2>1, <2>2
<1>2. ASSUME NEW m \in Notifications, NEW e \in Dispatchers \ {d}
      PROVE  e \in Holding(m)' <=> e \in Holding(m)
  BY <1>1, <1>2 DEF Holding, Busy
<1>3. \A m \in Notifications : Holding(m)' \ {d} = Holding(m) \ {d}
  <2>1. \A m \in Notifications : Holding(m)' \subseteq Dispatchers /\ Holding(m) \subseteq Dispatchers
    BY DEF Holding
  <2> QED
    BY <1>2, <2>1
<1> QED
  BY <1>3 DEF Unsent

\* Where neither the rows nor the dispatchers of a notification change.
LEMMA OthersMail ==
  ASSUME MailTypeOK, MailInv, NEW d \in Dispatchers, NEW m \in Notifications,
         Holding(m)' \ {d} = Holding(m) \ {d}, Unsent(m)' \ {d} = Unsent(m) \ {d},
         Busy(d) => drain[d].n # m, Busy(d)' => drain'[d].n # m,
         accepted'[m] = accepted[m], mailFaults' \in Nat, mailFaults' >= mailFaults,
         \A j \in Attempts : deliveries'[m][j] = deliveries[m][j]
  PROVE  MailOf(m)'
<1>1. d \notin Holding(m) /\ d \notin Holding(m)' /\ d \notin Unsent(m) /\ d \notin Unsent(m)'
  BY DEF Holding, Unsent, Busy
<1>2. MailSucceeded(m) => MailSucceeded(m)'
  BY DEF MailSucceeded
<1> QED
  BY <1>1, <1>2, MailKept

\* One dispatcher takes a step that changes no row: it goes on with its attempt, or
\* leaves it.
LEMMA RunStep ==
  ASSUME MailTypeOK, PrefixInv, CountInv, OwnInv, TimeInv,
         NEW d \in Dispatchers, NEW r \in DrainState,
         drain' = [drain EXCEPT ![d] = r], deliveries' = deliveries,
         r.phase \in {"claimed", "sending", "settling"} =>
           Busy(d) /\ r.n = drain[d].n /\ r.attempt = drain[d].attempt,
         r.phase # "resting" => drain[d].phase # "resting" /\ r.todo \subseteq drain[d].todo,
         r.phase = "settling" /\ ~r.inTime => deliveries[drain[d].n][drain[d].attempt].over
  PROVE  /\ PrefixInv' /\ CountInv' /\ OwnInv' /\ TimeInv'
         /\ drain' \in [Dispatchers -> DrainState] /\ drain'[d] = r
         /\ \A e \in Dispatchers \ {d} : drain'[e] = drain[e]
         /\ \A m \in Notifications : Holding(m)' \ {d} = Holding(m) \ {d}
         /\ \A m \in Notifications : Unsent(m)' \ {d} = Unsent(m) \ {d}
<1>1. /\ drain' \in [Dispatchers -> DrainState] /\ drain'[d] = r
      /\ \A e \in Dispatchers \ {d} : drain'[e] = drain[e]
  BY DrainUpdate
<1>2. \A e \in Dispatchers :
        /\ Busy(e)' => Busy(e) /\ drain'[e].n = drain[e].n /\ drain'[e].attempt = drain[e].attempt
        /\ drain'[e].phase = "settling" /\ ~drain'[e].inTime =>
             deliveries[drain[e].n][drain[e].attempt].over
  BY <1>1 DEF Busy, TimeInv
<1>3. \A m \in Notifications : Waiting(m)' \subseteq Waiting(m)
  BY <1>1 DEF Waiting
<1>4. \A m \in Notifications, j \in Attempts :
        /\ deliveries'[m][j].outcome # "none" <=> deliveries[m][j].outcome # "none"
        /\ deliveries[m][j].over => deliveries'[m][j].over
  OBVIOUS
<1>5. PrefixInv' /\ CountInv' /\ OwnInv' /\ TimeInv'
  BY <1>2, <1>3, <1>4, Steady
<1>6. \A m \in Notifications : /\ Holding(m)' \ {d} = Holding(m) \ {d}
                               /\ Unsent(m)' \ {d} = Unsent(m) \ {d}
  BY <1>1 DEF Holding, Unsent, Busy
<1> QED
  BY <1>1, <1>5, <1>6

\* The mail of an attempt is sent, or will not be: one less is to be sent.
LEMMA OneLess ==
  ASSUME NEW m, NEW d, d \in Unsent(m), Unsent(m)' = Unsent(m) \ {d}
  PROVE  /\ Cardinality(Unsent(m)) \in Nat /\ Cardinality(Unsent(m)') \in Nat
         /\ Cardinality(Unsent(m)') = Cardinality(Unsent(m)) - 1
<1>1. PICK u : u = Unsent(m)
  OBVIOUS
<1>2. IsFiniteSet(u) /\ Cardinality(u) \in Nat
  BY <1>1, UnsentFinite
<1>3. IsFiniteSet(u \ {d}) /\ Cardinality(u \ {d}) = Cardinality(u) - 1
  BY <1>1, <1>2, FS_RemoveElement
<1>4. Cardinality(u \ {d}) \in Nat
  BY <1>3, FS_CardinalityType
<1>5. Unsent(m)' = u \ {d}
  BY <1>1
<1> QED
  BY <1>1, <1>2, <1>3, <1>4, <1>5

\* The mail of an attempt will not be sent.
LEMMA MailGivenUp ==
  ASSUME MailTypeOK, MailInv, NEW m \in Notifications, NEW d,
         d \in Unsent(m), Unsent(m)' = Unsent(m) \ {d}, accepted'[m] = accepted[m], mailFaults' = mailFaults
  PROVE  MailOf(m)'
<1>1. accepted[m] \in Nat /\ mailFaults \in Nat
  BY DEF MailTypeOK
<1>2. PICK u, v : u = Cardinality(Unsent(m)) /\ v = Cardinality(Unsent(m)')
  OBVIOUS
<1>3. u \in Nat /\ v \in Nat /\ v = u - 1
  BY <1>2, OneLess
<1>4. accepted[m] + u <= 1 + mailFaults
  BY <1>2 DEF MailInv, MailOf
<1>5. accepted'[m] + v <= mailFaults'
  BY <1>1, <1>3, <1>4
<1> QED
  BY <1>1, <1>2, <1>3, <1>5 DEF MailOf

\* It is sent: as a success that holds its lease if the attempt did, or for a fault.
LEMMA MailGone ==
  ASSUME MailTypeOK, MailInv, NEW m \in Notifications, NEW d,
         d \in Unsent(m), Unsent(m)' = Unsent(m) \ {d}, accepted'[m] = accepted[m] + 1,
         \/ mailFaults' = mailFaults + 1
         \/ /\ mailFaults' = mailFaults /\ (MailSucceeded(m) => MailSucceeded(m)')
            /\ Holding(m)' = {} => Holding(m) = {}
  PROVE  MailOf(m)'
<1>1. accepted[m] \in Nat /\ mailFaults \in Nat
  BY DEF MailTypeOK
<1>2. PICK u, v : u = Cardinality(Unsent(m)) /\ v = Cardinality(Unsent(m)')
  OBVIOUS
<1>3. u \in Nat /\ v \in Nat /\ v = u - 1
  BY <1>2, OneLess
<1>4. accepted[m] + u <= 1 + mailFaults
  BY <1>2 DEF MailInv, MailOf
<1>5. CASE mailFaults' = mailFaults + 1
  <2>1. accepted'[m] + v <= mailFaults' /\ accepted'[m] + v <= 1 + mailFaults'
    BY <1>1, <1>3, <1>4, <1>5
  <2> QED
    BY <1>2, <2>1 DEF MailOf
<1>6. CASE /\ mailFaults' = mailFaults /\ (MailSucceeded(m) => MailSucceeded(m)')
           /\ Holding(m)' = {} => Holding(m) = {}
  <2>1. accepted'[m] + v <= 1 + mailFaults'
    BY <1>1, <1>3, <1>4, <1>6
  <2>2. ASSUME ~MailSucceeded(m)', Holding(m)' = {}
        PROVE  accepted'[m] + v <= mailFaults'
    <3>1. accepted[m] + u <= mailFaults
      BY <1>2, <1>6, <2>2 DEF MailInv, MailOf
    <3> QED
      BY <1>1, <1>3, <1>6, <3>1
  <2> QED
    BY <1>2, <2>1, <2>2 DEF MailOf
<1> QED
  BY <1>5, <1>6

-------------------------------------------------------------------------------
(* The steps                                                               *)

\* Who may be mailed, and what is queued, is nothing to the invariant.
LEMMA EnqueueKeeps ==
  ASSUME IInv, NEW n \in Notifications, Enqueue(n) \/ ChangeAuthorization(n)
  PROVE  IInv'
<1>1. /\ deliveries' = deliveries /\ drain' = drain
      /\ accepted' = accepted /\ mailFaults' = mailFaults
  BY DEF Enqueue, ChangeAuthorization
<1>2. /\ queued' \subseteq Notifications /\ authorized' \subseteq Notifications
      /\ mailChanges' \in 0..MaxMailChanges
  <2>1. queued \subseteq Notifications /\ authorized \subseteq Notifications
        /\ mailChanges \in 0..MaxMailChanges
    BY DEF IInv, MailTypeOK
  <2>2. CASE Enqueue(n)
    BY <2>1, <2>2 DEF Enqueue
  <2>3. CASE ChangeAuthorization(n)
    BY <2>1, <2>3, MailAssumption DEF ChangeAuthorization
  <2> QED
    BY <2>2, <2>3
<1>3. MailTypeOK'
  BY <1>1, <1>2 DEF IInv, MailTypeOK
<1>4. PrefixInv' /\ CountInv'
  BY <1>1 DEF IInv, PrefixInv, CountInv, LastAttempt, Waiting
<1>5. OwnInv' /\ TimeInv' /\ SentInv'
  BY <1>1 DEF IInv, OwnInv, TimeInv, SentInv, Busy, MailSucceeded
<1>6. MailInv'
  BY <1>1 DEF IInv, MailInv, MailOf, Unsent, Holding, MailSucceeded, Busy
<1> QED
  BY <1>3, <1>4, <1>5, <1>6 DEF IInv

\* A scan lists what has not reached the cap.
LEMMA ScanKeeps ==
  ASSUME IInv, NEW d \in Dispatchers, NEW scope \in SUBSET Notifications, ScanOutbox(d, scope)
  PROVE  IInv'
<1> USE DEF IInv
<1>1. PICK ready : ready = {n \in queued \cap scope : Ready(n)}
  OBVIOUS
<1>2. PICK r : r = [phase |-> "draining", todo |-> ready]
  OBVIOUS
<1>3. /\ drain[d] = Resting /\ ready # {} /\ drain' = [drain EXCEPT ![d] = r]
      /\ UNCHANGED <<queued, deliveries, authorized, accepted, mailFaults, mailChanges>>
  BY <1>1, <1>2 DEF ScanOutbox
<1>4. ready \in (SUBSET Notifications) \ {{}}
  BY <1>1, <1>3
<1>5. r \in DrainState
  BY <1>2, <1>4 DEF DrainState
<1>6. /\ drain' \in [Dispatchers -> DrainState] /\ drain'[d] = r
      /\ \A e \in Dispatchers \ {d} : drain'[e] = drain[e]
  BY <1>3, <1>5, DrainUpdate
<1>7. \A m \in Notifications : LastAttempt(m) >= MaxAttempts => m \notin ready
  BY <1>1, Numbers, UsedAttempts, MailAssumption DEF Ready
<1>8. \A m \in Notifications : LastAttempt(m) >= MaxAttempts => Waiting(m)' \subseteq Waiting(m)
  BY <1>2, <1>6, <1>7 DEF Waiting
<1>9. ~Busy(d) /\ ~Busy(d)' /\ drain'[d].phase = "draining"
  BY <1>2, <1>3, <1>6 DEF Busy, Resting
<1>10. \A e \in Dispatchers :
        /\ Busy(e)' => Busy(e) /\ drain'[e].n = drain[e].n /\ drain'[e].attempt = drain[e].attempt
        /\ drain'[e].phase = "settling" /\ ~drain'[e].inTime =>
             deliveries[drain[e].n][drain[e].attempt].over
  BY <1>6, <1>9 DEF Busy, TimeInv
<1>11. \A m \in Notifications, j \in Attempts :
        /\ deliveries'[m][j].outcome # "none" <=> deliveries[m][j].outcome # "none"
        /\ deliveries[m][j].over => deliveries'[m][j].over
  BY <1>3
<1>12. PrefixInv' /\ CountInv' /\ OwnInv' /\ TimeInv'
  BY <1>8, <1>10, <1>11, Steady
<1>13. MailTypeOK'
  BY <1>3, <1>6 DEF MailTypeOK
<1>14. SentInv'
  BY <1>3, <1>6, <1>9 DEF SentInv, MailSucceeded
<1>15. \A m \in Notifications : Holding(m)' = Holding(m) /\ Unsent(m)' = Unsent(m)
  BY <1>3, <1>6, <1>9 DEF Holding, Unsent, Busy
<1>16. \A m \in Notifications : MailSucceeded(m)' = MailSucceeded(m)
  BY <1>3 DEF MailSucceeded
<1>17. mailFaults \in Nat /\ mailFaults' = mailFaults /\ accepted' = accepted
  BY <1>3 DEF MailTypeOK
<1>18. ASSUME NEW m \in Notifications
       PROVE  MailOf(m)'
  <2>1. Holding(m)' = Holding(m) /\ Unsent(m)' = Unsent(m) /\ MailSucceeded(m)' = MailSucceeded(m)
    BY <1>15, <1>16
  <2>2. mailFaults' \in Nat /\ mailFaults' >= mailFaults /\ accepted'[m] = accepted[m]
    BY <1>17
  <2> QED
    BY <2>1, <2>2, MailKept
<1>19. MailInv'
  BY <1>18 DEF MailInv
<1> QED
  BY <1>12, <1>13, <1>14, <1>19

\* Who gives up the attempt, for a fault.
LEMMA AbandonKeeps ==
  ASSUME IInv, NEW d \in Dispatchers, CrashDispatcher(d) \/ RecordFails(d)
  PROVE  IInv'
<1> USE DEF IInv
<1>1. PICK r : r = IF CrashDispatcher(d) \/ drain[d].result # "succeeded" THEN Resting
                   ELSE Settling(d, "failed")
  OBVIOUS
<1>2. /\ UNCHANGED <<queued, deliveries, authorized, accepted, mailChanges>>
      /\ mailFaults' = mailFaults + 1 /\ mailFaults < MaxMailFaults /\ drain' = [drain EXCEPT ![d] = r]
  BY <1>1 DEF CrashDispatcher, RecordFails, RecordThrows
<1>3. /\ r \in DrainState /\ r.phase \in {"resting", "settling"}
      /\ r.phase = "settling" =>
           /\ drain[d].phase = "settling" /\ r.todo = drain[d].todo /\ r.n = drain[d].n
           /\ r.attempt = drain[d].attempt /\ r.result = "failed"
           /\ r.inTime = ~deliveries[drain[d].n][drain[d].attempt].over
  <2>1. CASE r = Resting
    BY <2>1 DEF DrainState, Resting
  <2>2. CASE r # Resting
    <3>1. drain[d].phase = "settling" /\ r = Settling(d, "failed")
      BY <1>1, <2>2 DEF RecordFails
    <3>2. Busy(d)
      BY <3>1 DEF Busy
    <3> QED
      BY <3>1, <3>2, SettlingTyped
  <2> QED
    BY <2>1, <2>2
<1>4. drain[d].phase = "settling" => Busy(d)
  BY DEF Busy
<1>5. drain[d].phase = "settling" =>
        deliveries[drain[d].n][drain[d].attempt].over \in BOOLEAN
  BY <1>4, StateOf, RowsTyped DEF Rows
<1>6. /\ PrefixInv' /\ CountInv' /\ OwnInv' /\ TimeInv'
      /\ drain' \in [Dispatchers -> DrainState] /\ drain'[d] = r
      /\ \A e \in Dispatchers \ {d} : drain'[e] = drain[e]
      /\ \A m \in Notifications : Unsent(m)' \ {d} = Unsent(m) \ {d}
  <2>1. /\ r.phase \in {"claimed", "sending", "settling"} =>
             Busy(d) /\ r.n = drain[d].n /\ r.attempt = drain[d].attempt
        /\ r.phase # "resting" => drain[d].phase # "resting" /\ r.todo \subseteq drain[d].todo
        /\ r.phase = "settling" /\ ~r.inTime => deliveries[drain[d].n][drain[d].attempt].over
    BY <1>3, <1>4, <1>5
  <2> QED
    BY <1>2, <1>3, <2>1, RunStep
<1>7. MailTypeOK'
  BY <1>2, <1>6, MailAssumption DEF MailTypeOK
<1>8. SentInv'
  BY <1>2, <1>3, <1>6 DEF SentInv, MailSucceeded
<1>9. \A m \in Notifications : Unsent(m)' \subseteq Unsent(m)
  BY <1>3, <1>6 DEF Unsent
<1>10. \A m \in Notifications : MailOf(m)'
  BY <1>2, <1>9, MailPaid
<1>11. MailInv'
  BY <1>10 DEF MailInv
<1> QED
  BY <1>6, <1>7, <1>8, <1>11

\* What the steps of an attempt whose mail is unsent have in common.
LEMMA Attempting ==
  ASSUME IInv, NEW d \in Dispatchers, drain[d].phase \in {"claimed", "sending"},
         NEW r \in DrainState, drain' = [drain EXCEPT ![d] = r], deliveries' = deliveries,
         r.phase \in {"sending", "settling"}, r.todo = drain[d].todo, r.n = drain[d].n,
         r.attempt = drain[d].attempt,
         r.phase = "settling" => r.inTime = ~deliveries[drain[d].n][drain[d].attempt].over
  PROVE  /\ PrefixInv' /\ CountInv' /\ OwnInv' /\ TimeInv'
         /\ drain' \in [Dispatchers -> DrainState] /\ drain'[d] = r
         /\ \A e \in Dispatchers \ {d} : drain'[e] = drain[e]
         /\ \A m \in Notifications : MailSucceeded(m)' = MailSucceeded(m)
         /\ \A m \in Notifications : Holding(m)' \ {d} = Holding(m) \ {d}
         /\ \A m \in Notifications : Unsent(m)' = IF r.phase = "settling" THEN Unsent(m) \ {d}
                                                  ELSE Unsent(m)
         /\ drain[d].n \in Notifications /\ drain[d].attempt \in Attempts
         /\ d \in Unsent(drain[d].n) /\ \A m \in Notifications : d \in Unsent(m) => m = drain[d].n
<1>1. Busy(d)
  BY DEF Busy
<1>2. drain[d].n \in Notifications /\ drain[d].attempt \in Attempts
  BY <1>1, StateOf DEF IInv
<1>3. deliveries[drain[d].n][drain[d].attempt].over \in BOOLEAN
  BY <1>2, RowsTyped DEF IInv, Rows
<1>4. /\ PrefixInv' /\ CountInv' /\ OwnInv' /\ TimeInv'
      /\ drain' \in [Dispatchers -> DrainState] /\ drain'[d] = r
      /\ \A e \in Dispatchers \ {d} : drain'[e] = drain[e]
      /\ \A m \in Notifications : Holding(m)' \ {d} = Holding(m) \ {d}
      /\ \A m \in Notifications : Unsent(m)' \ {d} = Unsent(m) \ {d}
  <2>1. /\ drain[d].phase # "resting" /\ r.todo \subseteq drain[d].todo
        /\ r.phase = "settling" /\ ~r.inTime => deliveries[drain[d].n][drain[d].attempt].over
    BY <1>3
  <2>2. MailTypeOK /\ PrefixInv /\ CountInv /\ OwnInv /\ TimeInv
    BY DEF IInv
  <2> QED
    BY <1>1, <2>1, <2>2, RunStep
<1>5. \A m \in Notifications : MailSucceeded(m)' = MailSucceeded(m)
  BY DEF MailSucceeded
<1>6. \A m \in Notifications : Unsent(m)' = IF r.phase = "settling" THEN Unsent(m) \ {d}
                                            ELSE Unsent(m)
  BY <1>4 DEF Unsent
<1>7. d \in Unsent(drain[d].n) /\ \A m \in Notifications : d \in Unsent(m) => m = drain[d].n
  BY DEF Unsent
<1> QED
  BY <1>2, <1>4, <1>5, <1>6, <1>7

LEMMA LoadKeeps ==
  ASSUME IInv, NEW d \in Dispatchers, Load(d)
  PROVE  IInv'
<1> USE DEF IInv
<1>1. PICK r : r = IF drain[d].n \in authorized THEN [drain[d] EXCEPT !.phase = "sending"]
                   ELSE Settling(d, "suppressed")
  OBVIOUS
<1>2. /\ drain[d].phase = "claimed" /\ drain' = [drain EXCEPT ![d] = r]
      /\ UNCHANGED <<queued, deliveries, authorized, accepted, mailFaults, mailChanges>>
  BY <1>1 DEF Load, MailTypeOK
<1>3. Busy(d) /\ drain[d] \in SendingState
  BY <1>2, StateOf DEF Busy
<1>4. /\ r \in DrainState /\ r.phase \in {"sending", "settling"} /\ r.todo = drain[d].todo
      /\ r.n = drain[d].n /\ r.attempt = drain[d].attempt
      /\ r.phase = "settling" => /\ r.inTime = ~deliveries[drain[d].n][drain[d].attempt].over
                                 /\ r.result = "suppressed"
  <2>1. CASE drain[d].n \in authorized
    BY <1>1, <1>3, <2>1, DrainStates DEF SendingState
  <2>2. CASE drain[d].n \notin authorized
    BY <1>1, <1>3, <2>2, SettlingTyped
  <2> QED
    BY <2>1, <2>2
<1>5. /\ PrefixInv' /\ CountInv' /\ OwnInv' /\ TimeInv'
      /\ drain' \in [Dispatchers -> DrainState] /\ drain'[d] = r
      /\ \A e \in Dispatchers \ {d} : drain'[e] = drain[e]
      /\ \A m \in Notifications : MailSucceeded(m)' = MailSucceeded(m)
      /\ \A m \in Notifications : Holding(m)' \ {d} = Holding(m) \ {d}
      /\ \A m \in Notifications : Unsent(m)' = IF r.phase = "settling" THEN Unsent(m) \ {d}
                                               ELSE Unsent(m)
      /\ d \in Unsent(drain[d].n) /\ \A m \in Notifications : d \in Unsent(m) => m = drain[d].n
      /\ drain[d].n \in Notifications
  BY <1>2, <1>4, Attempting
<1>6. MailTypeOK'
  BY <1>2, <1>5 DEF MailTypeOK
<1>7. SentInv'
  BY <1>2, <1>4, <1>5 DEF SentInv
<1>8. ASSUME NEW m \in Notifications
      PROVE  MailOf(m)'
  <2>1. accepted'[m] = accepted[m] /\ mailFaults' = mailFaults /\ mailFaults' \in Nat /\ mailFaults' >= mailFaults
    BY <1>2 DEF MailTypeOK
  <2>2. CASE r.phase = "settling" /\ m = drain[d].n
    <3>1. d \in Unsent(m) /\ Unsent(m)' = Unsent(m) \ {d}
      BY <1>5, <2>2
    <3> QED
      BY <2>1, <3>1, MailGivenUp
  <2>3. CASE r.phase = "sending" \/ m # drain[d].n
    <3>1. d \in Holding(m)' <=> d \in Holding(m)
      <4>1. /\ drain'[d].n = drain[d].n /\ drain'[d].attempt = drain[d].attempt
            /\ drain'[d].phase = r.phase /\ Busy(d)'
        BY <1>4, <1>5 DEF Busy
      <4>2. CASE m # drain[d].n
        BY <4>1, <4>2 DEF Holding
      <4>3. CASE r.phase = "sending"
        BY <1>2, <1>3, <4>1, <4>3 DEF Holding
      <4> QED
        BY <2>3, <4>2, <4>3
    <3>2. Holding(m)' = Holding(m)
      BY <1>5, <3>1, SameBut
    <3>3. Unsent(m)' \subseteq Unsent(m)
      BY <1>5
    <3> QED
      BY <1>5, <2>1, <3>2, <3>3, MailKept
  <2> QED
    BY <1>4, <2>2, <2>3
<1>9. MailInv'
  BY <1>8 DEF MailInv
<1> QED
  BY <1>5, <1>6, <1>7, <1>9

\* The server answers, or the answer is lost.
LEMMA SendKeeps ==
  ASSUME IInv, NEW d \in Dispatchers, SendMail(d) \/ AnswerLost(d)
  PROVE  IInv'
<1> USE DEF IInv
<1>1. PICK result \in {"succeeded", "failed"} :
        /\ drain[d].phase = "sending"
        /\ drain' = [drain EXCEPT ![d] = Settling(d, result)]
        /\ UNCHANGED <<queued, deliveries, authorized, mailChanges>>
        /\ \/ /\ mailFaults' = mailFaults /\ accepted' = [accepted EXCEPT ![drain[d].n] = @ + 1]
              /\ result = "succeeded"
           \/ mailFaults' = mailFaults /\ accepted' = accepted /\ result = "failed"
           \/ /\ mailFaults < MaxMailFaults /\ mailFaults' = mailFaults + 1 /\ result = "failed"
              /\ accepted' = [accepted EXCEPT ![drain[d].n] = @ + 1]
  BY DEF SendMail, AnswerLost
<1>2. PICK r : r = Settling(d, result)
  OBVIOUS
<1>3. Busy(d)
  BY <1>1 DEF Busy
<1>4. /\ r \in DrainState /\ r.phase = "settling" /\ r.todo = drain[d].todo
      /\ r.n = drain[d].n /\ r.attempt = drain[d].attempt /\ r.result = result
      /\ r.inTime = ~deliveries[drain[d].n][drain[d].attempt].over
  BY <1>2, <1>3, SettlingTyped
<1>5. /\ PrefixInv' /\ CountInv' /\ OwnInv' /\ TimeInv'
      /\ drain' \in [Dispatchers -> DrainState] /\ drain'[d] = r
      /\ \A e \in Dispatchers \ {d} : drain'[e] = drain[e]
      /\ \A m \in Notifications : MailSucceeded(m)' = MailSucceeded(m)
      /\ \A m \in Notifications : Holding(m)' \ {d} = Holding(m) \ {d}
      /\ \A m \in Notifications : Unsent(m)' = Unsent(m) \ {d}
      /\ d \in Unsent(drain[d].n) /\ \A m \in Notifications : d \in Unsent(m) => m = drain[d].n
      /\ drain[d].n \in Notifications /\ drain[d].attempt \in Attempts
  <2>1. deliveries' = deliveries /\ drain' = [drain EXCEPT ![d] = r]
    BY <1>1, <1>2
  <2>2. \A m \in Notifications :
          (IF r.phase = "settling" THEN Unsent(m) \ {d} ELSE Unsent(m)) = Unsent(m) \ {d}
    BY <1>4
  <2>3. drain[d].phase \in {"claimed", "sending"} /\ r.phase \in {"sending", "settling"}
    BY <1>1, <1>4
  <2> QED
    BY <1>4, <2>1, <2>2, <2>3, Attempting
<1>6. /\ accepted' \in [Notifications -> Nat]
      /\ \A m \in Notifications : accepted'[m] >= accepted[m] /\ (m # drain[d].n => accepted'[m] = accepted[m])
      /\ accepted'[drain[d].n] = accepted[drain[d].n] + (IF accepted' = accepted THEN 0 ELSE 1)
  BY <1>1, <1>5 DEF MailTypeOK
<1>7. MailTypeOK'
  BY <1>1, <1>5, <1>6, MailAssumption DEF MailTypeOK
<1>8. SentInv'
  <2>1. result = "succeeded" => accepted'[drain[d].n] >= 1
    BY <1>1, <1>5 DEF MailTypeOK
  <2>2. \A m \in Notifications : accepted[m] \in Nat /\ accepted'[m] \in Nat
    BY <1>6 DEF MailTypeOK
  <2>3. ASSUME NEW e \in Dispatchers, drain'[e].phase = "settling", drain'[e].result = "succeeded"
        PROVE  accepted'[drain'[e].n] >= 1
    <3>1. CASE e = d
      BY <1>4, <1>5, <2>1, <2>3, <3>1
    <3>2. CASE e # d
      <4>1. drain'[e] = drain[e]
        BY <1>5, <3>2
      <4>2. drain[e].n \in Notifications /\ accepted[drain[e].n] >= 1
        BY <2>3, <4>1, StateOf DEF SentInv, Busy
      <4> QED
        BY <1>6, <2>2, <4>1, <4>2
    <3> QED
      BY <3>1, <3>2
  <2>4. \A m \in Notifications : MailSucceeded(m)' => accepted'[m] >= 1
    BY <1>5, <1>6, <2>2 DEF SentInv
  <2> QED
    BY <2>3, <2>4 DEF SentInv
<1>9. ASSUME NEW m \in Notifications
      PROVE  MailOf(m)'
  <2>1. mailFaults' \in Nat /\ mailFaults' >= mailFaults
    BY <1>1 DEF MailTypeOK
  <2>2. CASE m # drain[d].n
    <3>1. d \notin Holding(m) /\ d \notin Holding(m)'
      <4>1. drain'[d].n = drain[d].n
        BY <1>4, <1>5
      <4> QED
        BY <2>2, <4>1 DEF Holding
    <3>2. Holding(m)' = Holding(m)
      BY <1>5, <3>1, SameBut
    <3>3. Unsent(m)' \subseteq Unsent(m)
      BY <1>5
    <3> QED
      BY <1>5, <1>6, <2>1, <2>2, <3>2, <3>3, MailKept
  <2>3. CASE m = drain[d].n
    <3>1. d \in Unsent(m) /\ Unsent(m)' = Unsent(m) \ {d}
      BY <1>5, <2>3
    <3>2. CASE mailFaults' = mailFaults /\ accepted' = accepted
      BY <3>1, <3>2, MailGivenUp
    <3>3. CASE mailFaults' = mailFaults + 1 /\ accepted' = [accepted EXCEPT ![drain[d].n] = @ + 1]
      <4>1. accepted'[m] = accepted[m] + 1
        BY <2>3, <3>3 DEF MailTypeOK
      <4> QED
        BY <3>1, <3>3, <4>1, MailGone
    <3>4. CASE /\ mailFaults' = mailFaults /\ accepted' = [accepted EXCEPT ![drain[d].n] = @ + 1]
               /\ result = "succeeded"
      <4>1. accepted'[m] = accepted[m] + 1
        BY <2>3, <3>4 DEF MailTypeOK
      <4>2. d \in Holding(m)' <=> d \in Holding(m)
        BY <1>1, <1>4, <1>5, <2>3, <3>4 DEF Holding, Busy
      <4>3. Holding(m)' = Holding(m)
        BY <1>5, <4>2, SameBut
      <4> QED
        BY <1>5, <3>1, <3>4, <4>1, <4>3, MailGone
    <3> QED
      BY <1>1, <3>2, <3>3, <3>4
  <2> QED
    BY <2>2, <2>3
<1>10. MailInv'
  BY <1>9 DEF MailInv
<1> QED
  BY <1>5, <1>7, <1>8, <1>10

\* The outcome is recorded: the lease that is given up is one of a success, if it
\* was held.
LEMMA RecordedKeeps ==
  ASSUME IInv, NEW d \in Dispatchers, RecordResult(d), ResultFence(drain[d])
  PROVE  IInv'
<1> USE DEF IInv
<1>1. drain[d].phase = "settling" /\ drain[d] \in SettlingState /\ Busy(d)
  BY StateOf DEF RecordResult, Busy
<1>2. PICK n, k, todo, result : n = drain[d].n /\ k = drain[d].attempt /\ todo = drain[d].todo
                                /\ result = drain[d].result
  OBVIOUS
<1>3. /\ n \in Notifications /\ k \in Attempts /\ todo \in SUBSET Notifications
      /\ result \in {"succeeded", "failed", "suppressed"}
  BY <1>1, <1>2 DEF SettlingState
<1>4. PICK c : c = Continue(todo)
  OBVIOUS
<1>5. PICK row : row = [deliveries[n][k] EXCEPT !.outcome = result, !.rested = FALSE]
  OBVIOUS
<1>6. /\ UNCHANGED <<queued, authorized, accepted, mailFaults, mailChanges>>
      /\ deliveries' = [deliveries EXCEPT ![n][k] = row] /\ drain' = [drain EXCEPT ![d] = c]
      /\ drain[d].inTime /\ deliveries[n][k].outcome = "claimed"
      /\ result = "succeeded" => ~MailSucceeded(n)
  <2>1. deliveries[n] \in [Attempts -> Rows]
    BY <1>3 DEF MailTypeOK, Rows
  <2>2. [deliveries EXCEPT ![n][k] = [@ EXCEPT !.outcome = result, !.rested = FALSE]]
          = [deliveries EXCEPT ![n][k] = row]
    BY <1>3, <1>5, <2>1 DEF MailTypeOK
  <2> QED
    BY <1>2, <1>4, <2>2 DEF RecordResult, ResultFence
<1>7. row \in Rows /\ row.outcome = result /\ row.over = deliveries[n][k].over
  BY <1>3, <1>5, RowsTyped DEF Rows
<1>8. /\ deliveries' \in [Notifications -> [Attempts -> Rows]] /\ deliveries'[n][k] = row
      /\ \A m \in Notifications, j \in Attempts :
           m # n \/ j # k => deliveries'[m][j] = deliveries[m][j]
  <2>1. MailTypeOK /\ n \in Notifications /\ k \in Attempts /\ row \in Rows
    BY <1>3, <1>7
  <2>2. deliveries' = [deliveries EXCEPT ![n][k] = row]
    BY <1>6
  <2> QED
    BY <2>1, <2>2, JournalUpdate
<1>9. c \in DrainState /\ c.phase \in {"resting", "draining"} /\ (c.phase # "resting" => c.todo = todo)
  BY <1>3, <1>4, ContinueTyped
<1>10. /\ drain' \in [Dispatchers -> DrainState] /\ drain'[d] = c
       /\ \A e \in Dispatchers \ {d} : drain'[e] = drain[e]
  BY <1>6, <1>9, DrainUpdate
<1>11. ~Busy(d)'
  BY <1>9, <1>10 DEF Busy
<1>12. PrefixInv' /\ CountInv' /\ OwnInv' /\ TimeInv'
  <2>1. \A m \in Notifications, j \in Attempts :
          /\ deliveries'[m][j].outcome # "none" <=> deliveries[m][j].outcome # "none"
          /\ deliveries[m][j].over => deliveries'[m][j].over
    BY <1>3, <1>6, <1>7, <1>8
  <2>2. \A e \in Dispatchers :
          /\ Busy(e)' => Busy(e) /\ drain'[e].n = drain[e].n /\ drain'[e].attempt = drain[e].attempt
          /\ drain'[e].phase = "settling" /\ ~drain'[e].inTime =>
               deliveries[drain[e].n][drain[e].attempt].over
    BY <1>10, <1>11 DEF Busy, TimeInv
  <2>3. \A m \in Notifications : Waiting(m)' \subseteq Waiting(m)
    BY <1>1, <1>2, <1>9, <1>10 DEF Waiting
  <2> QED
    BY <2>1, <2>2, <2>3, Steady
<1>13. MailTypeOK'
  BY <1>6, <1>8, <1>10 DEF MailTypeOK, Rows
<1>14. \A m \in Notifications : MailSucceeded(m) => MailSucceeded(m)'
  BY <1>6, <1>8 DEF MailSucceeded
<1>15. \A m \in Notifications : MailSucceeded(m)' => MailSucceeded(m) \/ (m = n /\ result = "succeeded")
  BY <1>7, <1>8 DEF MailSucceeded
<1>16. SentInv'
  <2>1. \A e \in Dispatchers : drain'[e].phase = "settling" /\ drain'[e].result = "succeeded"
          => accepted'[drain'[e].n] >= 1
    BY <1>6, <1>10, <1>11 DEF SentInv, Busy
  <2>2. result = "succeeded" => accepted[n] >= 1
    BY <1>1, <1>2 DEF SentInv
  <2> QED
    BY <1>6, <1>15, <2>1, <2>2 DEF SentInv
<1>17. /\ \A m \in Notifications : Holding(m)' \ {d} = Holding(m) \ {d}
       /\ \A m \in Notifications : Unsent(m)' \ {d} = Unsent(m) \ {d}
  BY <1>1, <1>2, <1>8, <1>10, OthersHold
<1>18. ASSUME NEW m \in Notifications
       PROVE  MailOf(m)'
  <2>1. mailFaults' \in Nat /\ mailFaults' >= mailFaults /\ accepted'[m] = accepted[m]
    BY <1>6 DEF MailTypeOK
  <2>2. Unsent(m)' = Unsent(m)
    <3>1. d \notin Unsent(m) /\ d \notin Unsent(m)'
      BY <1>1, <1>9, <1>10 DEF Unsent
    <3> QED
      BY <1>17, <3>1, SameBut
  <2>3. ASSUME ~MailSucceeded(m)', d \in Holding(m)
        PROVE  FALSE
    <3>1. m = n /\ result = "succeeded"
      BY <1>1, <1>2, <2>3 DEF Holding
    <3>2. MailSucceeded(n)'
      BY <1>3, <1>7, <1>8, <3>1 DEF MailSucceeded
    <3> QED
      BY <2>3, <3>1, <3>2
  <2>4. d \notin Holding(m)'
    BY <1>11 DEF Holding
  <2>5. Holding(m)' = {} /\ ~MailSucceeded(m)' => Holding(m) = {}
    BY <1>17, <2>3, <2>4
  <2> QED
    BY <1>14, <2>1, <2>2, <2>5, MailKept
<1>19. MailInv'
  BY <1>18 DEF MailInv
<1> QED
  BY <1>12, <1>13, <1>16, <1>19

\* The record is refused: a success whose lease is held is refused beside another
\* success only.
LEMMA RefusedKeeps ==
  ASSUME IInv, NEW d \in Dispatchers, RecordResult(d), ~ResultFence(drain[d])
  PROVE  IInv'
<1> USE DEF IInv
<1>1. drain[d].phase = "settling" /\ drain[d] \in SettlingState /\ Busy(d)
  BY StateOf DEF RecordResult, Busy
<1>2. PICK r : r = IF drain[d].result = "succeeded" THEN Settling(d, "failed") ELSE Resting
  OBVIOUS
<1>3. /\ UNCHANGED <<queued, deliveries, authorized, accepted, mailFaults, mailChanges>>
      /\ drain' = [drain EXCEPT ![d] = r]
  BY <1>2 DEF RecordResult, RecordThrows
<1>4. /\ r \in DrainState /\ r.phase \in {"resting", "settling"}
      /\ r.phase = "settling" =>
           /\ r.todo = drain[d].todo /\ r.n = drain[d].n
           /\ r.attempt = drain[d].attempt /\ r.result = "failed"
           /\ r.inTime = ~deliveries[drain[d].n][drain[d].attempt].over
  <2>1. CASE drain[d].result = "succeeded"
    <3>1. r = Settling(d, "failed")
      BY <1>2, <2>1
    <3> QED
      BY <1>1, <3>1, SettlingTyped
  <2>2. CASE drain[d].result # "succeeded"
    BY <1>2, <2>2 DEF DrainState, Resting
  <2> QED
    BY <2>1, <2>2
<1>5. /\ drain[d].n \in Notifications /\ drain[d].attempt \in Attempts
      /\ deliveries[drain[d].n][drain[d].attempt].over \in BOOLEAN
  <2>1. drain[d].n \in Notifications /\ drain[d].attempt \in Attempts
    BY <1>1, StateOf
  <2> QED
    BY <2>1, RowsTyped DEF Rows
<1>6. /\ PrefixInv' /\ CountInv' /\ OwnInv' /\ TimeInv'
      /\ drain' \in [Dispatchers -> DrainState] /\ drain'[d] = r
      /\ \A e \in Dispatchers \ {d} : drain'[e] = drain[e]
      /\ \A m \in Notifications : Holding(m)' \ {d} = Holding(m) \ {d}
      /\ \A m \in Notifications : Unsent(m)' \ {d} = Unsent(m) \ {d}
  <2>1. /\ r.phase \in {"claimed", "sending", "settling"} =>
             Busy(d) /\ r.n = drain[d].n /\ r.attempt = drain[d].attempt
        /\ r.phase # "resting" => drain[d].phase # "resting" /\ r.todo \subseteq drain[d].todo
        /\ r.phase = "settling" /\ ~r.inTime => deliveries[drain[d].n][drain[d].attempt].over
    BY <1>1, <1>4, <1>5
  <2> QED
    BY <1>3, <1>4, <2>1, RunStep
<1>7. MailTypeOK'
  BY <1>3, <1>6 DEF MailTypeOK
<1>8. SentInv'
  BY <1>3, <1>4, <1>6 DEF SentInv, MailSucceeded
<1>9. ASSUME NEW m \in Notifications
      PROVE  MailOf(m)'
  <2>1. mailFaults' \in Nat /\ mailFaults' >= mailFaults /\ accepted'[m] = accepted[m]
    BY <1>3 DEF MailTypeOK
  <2>2. MailSucceeded(m)' = MailSucceeded(m)
    BY <1>3 DEF MailSucceeded
  <2>3. d \notin Unsent(m) /\ d \notin Unsent(m)'
    BY <1>1, <1>4, <1>6 DEF Unsent
  <2>4. Unsent(m)' \subseteq Unsent(m)
    BY <1>6, <2>3, SameBut
  <2>5. d \notin Holding(m)'
    <3>1. /\ drain'[d].phase \in {"resting", "settling"}
          /\ drain'[d].phase = "settling" => drain'[d].result = "failed"
      BY <1>4, <1>6
    <3> QED
      BY <3>1 DEF Holding, Busy
  <2>6. ASSUME ~MailSucceeded(m), d \in Holding(m)
        PROVE  FALSE
    <3>1. /\ m = drain[d].n /\ drain[d].result = "succeeded"
          /\ deliveries[drain[d].n][drain[d].attempt].outcome = "claimed"
          /\ ~deliveries[drain[d].n][drain[d].attempt].over
      BY <1>1, <2>6 DEF Holding
    <3>2. drain[d].inTime
      BY <1>1, <3>1 DEF TimeInv
    <3> QED
      BY <2>6, <3>1, <3>2 DEF ResultFence
  <2>7. Holding(m)' = {} /\ ~MailSucceeded(m)' => Holding(m) = {}
    BY <1>6, <2>2, <2>5, <2>6
  <2> QED
    BY <2>1, <2>2, <2>4, <2>7, MailKept
<1>10. MailInv'
  BY <1>9 DEF MailInv
<1> QED
  BY <1>6, <1>7, <1>8, <1>10

\* A lease ends, or the delay of an attempt passes.
LEMMA TimeKeeps ==
  ASSUME IInv, NEW n \in Notifications, NEW k \in Attempts,
         AttemptLeaseEnds(n, k) \/ DelayPasses(n, k)
  PROVE  IInv'
<1> USE DEF IInv
<1>1. PICK row : row = IF AttemptLeaseEnds(n, k) THEN [deliveries[n][k] EXCEPT !.over = TRUE]
                       ELSE [deliveries[n][k] EXCEPT !.rested = TRUE]
  OBVIOUS
<1>2. deliveries[n][k] \in Rows
  BY RowsTyped
<1>3. /\ row \in Rows /\ row.outcome = deliveries[n][k].outcome /\ (deliveries[n][k].over => row.over)
      /\ AttemptLeaseEnds(n, k) \/ row.over = deliveries[n][k].over
  BY <1>1, <1>2 DEF Rows
<1>4. /\ UNCHANGED <<queued, authorized, drain, accepted, mailChanges>>
      /\ deliveries' = [deliveries EXCEPT ![n][k] = row]
      /\ \/ mailFaults' = mailFaults /\ (~Attended(n, k) \/ row.over = deliveries[n][k].over)
         \/ mailFaults' = mailFaults + 1 /\ mailFaults < MaxMailFaults
  <2>1. deliveries[n] \in [Attempts -> Rows]
    BY DEF MailTypeOK, Rows
  <2>2. CASE AttemptLeaseEnds(n, k)
    <3>1. deliveries' = [deliveries EXCEPT ![n][k].over = TRUE]
      BY <2>2 DEF AttemptLeaseEnds
    <3>2. deliveries' = [deliveries EXCEPT ![n][k] = row]
      BY <1>1, <2>1, <2>2, <3>1 DEF MailTypeOK
    <3> QED
      BY <2>2, <3>2 DEF AttemptLeaseEnds
  <2>3. CASE ~AttemptLeaseEnds(n, k)
    <3>1. deliveries' = [deliveries EXCEPT ![n][k].rested = TRUE]
      BY <2>3 DEF DelayPasses
    <3>2. deliveries' = [deliveries EXCEPT ![n][k] = row]
      BY <1>1, <2>1, <2>3, <3>1 DEF MailTypeOK
    <3> QED
      BY <1>3, <2>3, <3>2 DEF DelayPasses
  <2> QED
    BY <2>2, <2>3
<1>5. /\ deliveries' \in [Notifications -> [Attempts -> Rows]] /\ deliveries'[n][k] = row
      /\ \A m \in Notifications, j \in Attempts :
           m # n \/ j # k => deliveries'[m][j] = deliveries[m][j]
  <2>1. MailTypeOK /\ row \in Rows
    BY <1>3
  <2>2. deliveries' = [deliveries EXCEPT ![n][k] = row]
    BY <1>4
  <2> QED
    BY <2>1, <2>2, JournalUpdate
<1>6. \A m \in Notifications, j \in Attempts :
        /\ deliveries'[m][j].outcome = deliveries[m][j].outcome
        /\ deliveries[m][j].over => deliveries'[m][j].over
  BY <1>3, <1>5
<1>7. PrefixInv' /\ CountInv' /\ OwnInv' /\ TimeInv'
  <2>1. \A m \in Notifications, j \in Attempts :
          /\ deliveries'[m][j].outcome # "none" <=> deliveries[m][j].outcome # "none"
          /\ deliveries[m][j].over => deliveries'[m][j].over
    BY <1>6
  <2>2. \A e \in Dispatchers :
          /\ Busy(e)' => Busy(e) /\ drain'[e].n = drain[e].n /\ drain'[e].attempt = drain[e].attempt
          /\ drain'[e].phase = "settling" /\ ~drain'[e].inTime =>
               deliveries[drain[e].n][drain[e].attempt].over
    BY <1>4 DEF Busy, TimeInv
  <2>3. \A m \in Notifications : Waiting(m)' \subseteq Waiting(m)
    BY <1>4 DEF Waiting
  <2> QED
    BY <2>1, <2>2, <2>3, Steady
<1>8. MailTypeOK'
  BY <1>4, <1>5, MailAssumption DEF MailTypeOK, Rows
<1>9. \A m \in Notifications : MailSucceeded(m)' <=> MailSucceeded(m)
  BY <1>6 DEF MailSucceeded
<1>10. SentInv'
  BY <1>4, <1>9 DEF SentInv
<1>11. ASSUME NEW m \in Notifications
       PROVE  MailOf(m)'
  <2>1. Unsent(m)' \subseteq Unsent(m) /\ accepted'[m] = accepted[m]
    BY <1>4 DEF Unsent
  <2>2. CASE mailFaults' = mailFaults + 1
    BY <2>1, <2>2, MailPaid
  <2>3. CASE mailFaults' = mailFaults /\ (~Attended(n, k) \/ row.over = deliveries[n][k].over)
    <3>1. mailFaults' \in Nat /\ mailFaults' >= mailFaults
      BY <2>3 DEF MailTypeOK
    <3>2. Holding(m) \subseteq Holding(m)'
      <4>1. SUFFICES ASSUME NEW e \in Holding(m) PROVE e \in Holding(m)'
        OBVIOUS
      <4>2. /\ e \in Dispatchers /\ Busy(e) /\ drain[e].n = m
            /\ deliveries[m][drain[e].attempt].outcome = "claimed"
            /\ ~deliveries[m][drain[e].attempt].over
            /\ drain[e].phase = "settling" => drain[e].result = "succeeded"
        BY DEF Holding
      <4>3. drain[e].attempt \in Attempts
        BY <4>2, StateOf
      <4>4. ~deliveries'[m][drain[e].attempt].over
        <5>1. CASE m = n /\ drain[e].attempt = k
          <6>1. Attended(n, k)
            BY <4>2, <5>1 DEF Attended, Busy
          <6> QED
            BY <1>5, <2>3, <4>2, <5>1, <6>1
        <5>2. CASE m # n \/ drain[e].attempt # k
          BY <1>5, <4>2, <4>3, <5>2
        <5> QED
          BY <5>1, <5>2
      <4>5. deliveries'[m][drain[e].attempt].outcome = "claimed"
        BY <1>6, <4>2, <4>3
      <4> QED
        BY <1>4, <4>2, <4>4, <4>5 DEF Holding, Busy
    <3>3. Holding(m)' = {} /\ ~MailSucceeded(m)' => Holding(m) = {}
      BY <3>2
    <3> QED
      BY <1>9, <2>1, <3>1, <3>3, MailKept
  <2> QED
    BY <1>4, <2>2, <2>3
<1>12. MailInv'
  BY <1>11 DEF MailInv
<1> QED
  BY <1>7, <1>8, <1>10, <1>12

\* Nothing is claimed.
LEMMA SkippedKeeps ==
  ASSUME IInv, NEW d \in Dispatchers, drain[d].phase = "draining",
         NEW n \in drain[d].todo, drain' = [drain EXCEPT ![d] = Continue(drain[d].todo \ {n})],
         UNCHANGED <<queued, deliveries, authorized, accepted, mailFaults, mailChanges>>
  PROVE  IInv'
<1> USE DEF IInv
<1>1. drain[d].todo \in SUBSET Notifications
  BY StateOf
<1>2. PICK todo : todo = drain[d].todo \ {n}
  OBVIOUS
<1>3. PICK c : c = Continue(todo)
  OBVIOUS
<1>4. /\ c \in DrainState /\ c.phase \in {"resting", "draining"}
      /\ c.phase # "resting" => c.todo = todo
  BY <1>1, <1>2, <1>3, ContinueTyped
<1>5. /\ PrefixInv' /\ CountInv' /\ OwnInv' /\ TimeInv'
      /\ drain' \in [Dispatchers -> DrainState] /\ drain'[d] = c
      /\ \A e \in Dispatchers \ {d} : drain'[e] = drain[e]
      /\ \A m \in Notifications : Holding(m)' \ {d} = Holding(m) \ {d}
      /\ \A m \in Notifications : Unsent(m)' \ {d} = Unsent(m) \ {d}
  <2>1. /\ c.phase \notin {"claimed", "sending", "settling"}
        /\ c.phase # "resting" => drain[d].phase # "resting" /\ c.todo \subseteq drain[d].todo
    BY <1>2, <1>4
  <2>2. drain' = [drain EXCEPT ![d] = c] /\ deliveries' = deliveries
    BY <1>2, <1>3
  <2> QED
    BY <1>4, <2>1, <2>2, RunStep
<1>6. ~Busy(d) /\ ~Busy(d)'
  BY <1>4, <1>5 DEF Busy
<1>7. MailTypeOK'
  BY <1>5 DEF MailTypeOK
<1>8. SentInv'
  BY <1>5, <1>6 DEF SentInv, MailSucceeded, Busy
<1>9. ASSUME NEW m \in Notifications
      PROVE  MailOf(m)'
  <2>1. mailFaults' \in Nat /\ mailFaults' >= mailFaults /\ accepted'[m] = accepted[m]
    BY DEF MailTypeOK
  <2> QED
    BY <1>5, <1>6, <2>1, OthersMail
<1>10. MailInv'
  BY <1>9 DEF MailInv
<1> QED
  BY <1>5, <1>7, <1>8, <1>10

\* There is room for one more attempt while someone's scan lists the notification.
LEMMA RoomForClaim ==
  ASSUME CountInv, NEW d \in Dispatchers, NEW n \in Notifications, d \in Waiting(n)
  PROVE  /\ LastAttempt(n) + 1 \in Attempts
         /\ IsFiniteSet(Waiting(n)) /\ IsFiniteSet(Waiting(n) \ {d}) /\ IsFiniteSet(Dispatchers \ {d})
         /\ Cardinality(Waiting(n)) \in Nat
         /\ Cardinality(Waiting(n) \ {d}) = Cardinality(Waiting(n)) - 1
         /\ Cardinality(Dispatchers \ {d}) = Cardinality(Dispatchers) - 1
<1>1. PICK w : w = Waiting(n)
  OBVIOUS
<1>2. w \subseteq Dispatchers
  BY <1>1 DEF Waiting
<1>3. IsFiniteSet(w)
  BY <1>2, FS_Subset, MailAssumption
<1>4. /\ IsFiniteSet(w \ {d}) /\ Cardinality(w) \in Nat
      /\ Cardinality(w \ {d}) = Cardinality(w) - 1 /\ Cardinality(w \ {d}) \in Nat
  BY <1>1, <1>3, FS_RemoveElement, FS_CardinalityType
<1>5. /\ IsFiniteSet(Dispatchers \ {d}) /\ Cardinality(Dispatchers \ {d}) = Cardinality(Dispatchers) - 1
      /\ Cardinality(Dispatchers \ {d}) \in Nat
  BY FS_RemoveElement, FS_CardinalityType, MailAssumption
<1>6. PICK last, max, all : last = LastAttempt(n) /\ max = MaxAttempts /\ all = Cardinality(Dispatchers)
  OBVIOUS
<1>7. last \in Nat /\ max \in Nat /\ all \in Nat /\ Attempts = 1..(max + all)
  BY <1>6, UsedAttempts, Numbers
<1>8. last >= max => last + Cardinality(w) < max + all
  BY <1>1, <1>6 DEF CountInv
<1>9. last + 1 \in 1..(max + all)
  BY <1>4, <1>5, <1>6, <1>7, <1>8
<1> QED
  BY <1>1, <1>3, <1>4, <1>5, <1>6, <1>7, <1>9

\* One attempt is claimed: under the cap, or by one of those whose scan is out of
\* date; and nobody holds a lease, so that the mail sent before has its fault.
LEMMA ClaimedKeeps ==
  ASSUME IInv, NEW d \in Dispatchers, drain[d].phase = "draining",
         NEW n \in drain[d].todo, Claimable(n), NEW last, last = LastAttempt(n),
         deliveries' = [deliveries EXCEPT ![n][last + 1] = ClaimRow],
         drain' = [drain EXCEPT ![d] = [phase |-> "claimed", todo |-> drain[d].todo \ {n},
                                        n |-> n, attempt |-> last + 1]],
         UNCHANGED <<queued, authorized, accepted, mailFaults, mailChanges>>
  PROVE  IInv'
<1> USE DEF IInv
<1>1. drain[d].todo \in SUBSET Notifications /\ n \in Notifications
  BY StateOf
<1>2. d \in Waiting(n)
  BY DEF Waiting
<1>3. last \in Nat /\ last + 1 \in Attempts
  BY <1>1, <1>2, RoomForClaim, UsedAttempts
<1>4. PICK r : r = [phase |-> "claimed", todo |-> drain[d].todo \ {n}, n |-> n, attempt |-> last + 1]
  OBVIOUS
<1>5. r \in DrainState
  BY <1>1, <1>3, <1>4 DEF DrainState
<1>6. /\ drain' \in [Dispatchers -> DrainState] /\ drain'[d] = r
      /\ \A e \in Dispatchers \ {d} : drain'[e] = drain[e]
  <2>1. drain' = [drain EXCEPT ![d] = r]
    BY <1>4
  <2> QED
    BY <1>5, <2>1, DrainUpdate
<1>7. ClaimRow \in Rows
  BY DEF ClaimRow, Rows
<1>8. /\ deliveries' \in [Notifications -> [Attempts -> Rows]] /\ deliveries'[n][last + 1] = ClaimRow
      /\ \A m \in Notifications, j \in Attempts :
           m # n \/ j # last + 1 => deliveries'[m][j] = deliveries[m][j]
  <2>1. PICK k, row : k = last + 1 /\ row = ClaimRow
    OBVIOUS
  <2>2. n \in Notifications /\ k \in Attempts /\ row \in Rows
    BY <1>1, <1>3, <1>7, <2>1
  <2>3. MailTypeOK /\ deliveries' = [deliveries EXCEPT ![n][k] = row]
    BY <2>1
  <2>4. /\ deliveries' \in [Notifications -> [Attempts -> Rows]] /\ deliveries'[n][k] = row
        /\ \A m \in Notifications, j \in Attempts :
             m # n \/ j # k => deliveries'[m][j] = deliveries[m][j]
    BY ONLY <2>2, <2>3, JournalUpdate
  <2> QED
    BY <2>1, <2>4
<1>9. \A k \in Attempts : deliveries[n][k].outcome # "none" <=> k <= last
  BY <1>1 DEF PrefixInv
<1>10. deliveries[n][last + 1].outcome = "none"
  BY <1>3, <1>9
<1>11. /\ LastAttempt(n)' = last + 1
       /\ \A k \in Attempts : deliveries'[n][k].outcome # "none" <=> k <= last + 1
  <2>1. deliveries'[n][last + 1].outcome # "none"
    BY <1>8 DEF ClaimRow
  <2>2. \A k \in Attempts : k # last + 1 => deliveries'[n][k] = deliveries[n][k]
    BY <1>1, <1>8
  <2> QED
    BY <1>3, <1>9, <2>1, <2>2, LastNext
<1>12. \A m \in Notifications \ {n} : LastAttempt(m)' = LastAttempt(m)
  <2>1. SUFFICES ASSUME NEW m \in Notifications \ {n} PROVE LastAttempt(m)' = LastAttempt(m)
    OBVIOUS
  <2>2. \A k \in Attempts : deliveries'[m][k].outcome # "none" <=> deliveries[m][k].outcome # "none"
    BY <1>8
  <2> QED
    BY <2>2, LastSame
<1>13. PrefixInv'
  <2>1. SUFFICES ASSUME NEW m \in Notifications, NEW k \in Attempts
                 PROVE  deliveries'[m][k].outcome # "none" <=> k <= LastAttempt(m)'
    BY DEF PrefixInv
  <2>2. CASE m = n
    BY <1>11, <2>2
  <2>3. CASE m # n
    BY <1>8, <1>12, <2>3 DEF PrefixInv
  <2> QED
    BY <2>2, <2>3
<1>14. MailTypeOK'
  BY <1>6, <1>8 DEF MailTypeOK, Rows
<1>15. \A m \in Notifications : MailSucceeded(m)' <=> MailSucceeded(m)
  <2>1. SUFFICES ASSUME NEW m \in Notifications PROVE MailSucceeded(m)' <=> MailSucceeded(m)
    OBVIOUS
  <2>2. \A k \in Attempts : deliveries'[m][k].outcome = "succeeded" <=> deliveries[m][k].outcome = "succeeded"
    BY <1>8, <1>10 DEF ClaimRow
  <2> QED
    BY <2>2 DEF MailSucceeded
<1>16. SentInv'
  BY <1>4, <1>6, <1>15 DEF SentInv
<1>17. CountInv'
  <2>1. SUFFICES ASSUME NEW m \in Notifications, LastAttempt(m)' >= MaxAttempts
                 PROVE  LastAttempt(m)' + Cardinality(Waiting(m)')
                          < MaxAttempts + Cardinality(Dispatchers)
    BY DEF CountInv
  <2>2. PICK w, v : w = Waiting(m) /\ v = Waiting(m)'
    OBVIOUS
  <2>3. w \subseteq Dispatchers /\ v \subseteq w /\ (m = n => v \subseteq w \ {d})
    BY <1>4, <1>6, <2>2 DEF Waiting
  <2>4. IsFiniteSet(w) /\ Cardinality(w) \in Nat
    BY <2>3, FS_Subset, FS_CardinalityType, MailAssumption
  <2>5. IsFiniteSet(v) /\ Cardinality(v) \in Nat /\ Cardinality(v) <= Cardinality(w)
    BY <2>3, <2>4, FS_Subset, FS_CardinalityType
  <2>6. PICK max, all : max = MaxAttempts /\ all = Cardinality(Dispatchers)
    OBVIOUS
  <2>7. max \in Nat /\ all \in Nat /\ LastAttempt(m) \in Nat
    BY <2>6, Numbers, UsedAttempts
  <2>8. CASE m # n
    <3>1. LastAttempt(m)' = LastAttempt(m)
      BY <1>12, <2>8
    <3>2. LastAttempt(m) + Cardinality(w) < max + all
      BY <2>1, <2>2, <2>6, <3>1 DEF CountInv
    <3> QED
      BY <2>2, <2>4, <2>5, <2>6, <2>7, <3>1, <3>2
  <2>9. CASE m = n
    <3>1. /\ IsFiniteSet(w \ {d}) /\ IsFiniteSet(Dispatchers \ {d})
          /\ Cardinality(w \ {d}) = Cardinality(w) - 1 /\ Cardinality(Dispatchers \ {d}) = all - 1
      BY <1>1, <1>2, <2>2, <2>6, <2>9, RoomForClaim
    <3>2. v \subseteq w \ {d} /\ v \subseteq Dispatchers \ {d}
      BY <2>3, <2>9
    <3>3. Cardinality(v) <= Cardinality(w) - 1 /\ Cardinality(v) <= all - 1
      BY <3>1, <3>2, FS_Subset
    <3>4. LastAttempt(m)' = last + 1
      BY <1>11, <2>9
    <3>5. last >= max => last + Cardinality(w) < max + all
      BY <1>1, <2>2, <2>6, <2>9 DEF CountInv
    <3>6. last + 1 >= max
      BY <2>1, <2>6, <3>4
    <3>7. last + 1 + Cardinality(v) < max + all
      <4>1. CASE last >= max
        BY <1>3, <2>4, <2>5, <2>7, <3>3, <3>5, <4>1
      <4>2. CASE last < max
        <5>1. last + 1 = max
          BY <1>3, <2>7, <3>6, <4>2
        <5> QED
          BY <2>5, <2>7, <3>3, <5>1
      <4> QED
        BY <1>3, <2>7, <4>1, <4>2
    <3> QED
      BY <2>2, <2>6, <3>4, <3>7
  <2> QED
    BY <2>8, <2>9
<1>18. \A e \in Dispatchers \ {d} : Busy(e) =>
         /\ drain[e].n \in Notifications /\ drain[e].attempt \in Attempts
         /\ ~(drain[e].n = n /\ drain[e].attempt = last + 1)
  BY <1>10, StateOf DEF OwnInv
<1>19. OwnInv'
  <2>1. SUFFICES ASSUME NEW e \in Dispatchers, Busy(e)'
                 PROVE  /\ deliveries'[drain'[e].n][drain'[e].attempt].outcome # "none"
                        /\ \A f \in Dispatchers \ {e} : Busy(f)' /\ drain'[f].n = drain'[e].n
                             => drain'[f].attempt # drain'[e].attempt
    BY DEF OwnInv
  <2>2. \A f \in Dispatchers \ {d} : Busy(f)' => Busy(f) /\ drain'[f] = drain[f]
    BY <1>6 DEF Busy
  <2>3. drain'[d].n = n /\ drain'[d].attempt = last + 1
    BY <1>4, <1>6
  <2>4. CASE e = d
    <3>1. deliveries'[drain'[e].n][drain'[e].attempt].outcome # "none"
      BY <1>8, <2>3, <2>4 DEF ClaimRow
    <3> QED
      BY <1>18, <2>2, <2>3, <2>4, <3>1
  <2>5. CASE e # d
    <3>1. Busy(e) /\ drain'[e] = drain[e]
      BY <2>1, <2>2, <2>5
    <3>2. deliveries'[drain[e].n][drain[e].attempt] = deliveries[drain[e].n][drain[e].attempt]
      BY <1>8, <1>18, <2>5, <3>1
    <3>3. deliveries[drain[e].n][drain[e].attempt].outcome # "none"
      BY <3>1 DEF OwnInv
    <3>4. ASSUME NEW f \in Dispatchers \ {e}, Busy(f)', drain'[f].n = drain'[e].n
          PROVE  drain'[f].attempt # drain'[e].attempt
      <4>1. CASE f = d
        BY <1>18, <2>3, <2>5, <3>1, <3>4, <4>1
      <4>2. CASE f # d
        BY <2>2, <3>1, <3>4, <4>2 DEF OwnInv
      <4> QED
        BY <4>1, <4>2
    <3> QED
      BY <3>1, <3>2, <3>3, <3>4
  <2> QED
    BY <2>4, <2>5
<1>20. TimeInv'
  <2>1. SUFFICES ASSUME NEW e \in Dispatchers, drain'[e].phase = "settling", ~drain'[e].inTime
                 PROVE  deliveries'[drain'[e].n][drain'[e].attempt].over
    BY DEF TimeInv
  <2>2. e # d
    BY <1>4, <1>6, <2>1
  <2>3. drain'[e] = drain[e] /\ Busy(e)
    BY <1>6, <2>1, <2>2 DEF Busy
  <2>4. deliveries'[drain[e].n][drain[e].attempt] = deliveries[drain[e].n][drain[e].attempt]
    BY <1>8, <1>18, <2>2, <2>3
  <2> QED
    BY <2>1, <2>3, <2>4 DEF TimeInv
<1>21. ~Busy(d) /\ Busy(d)' /\ drain'[d].n = n /\ drain'[d].phase = "claimed"
       /\ drain'[d].attempt = last + 1
  BY <1>4, <1>6 DEF Busy
<1>22. \A m \in Notifications : Unsent(m)' \ {d} = Unsent(m) \ {d}
  BY <1>6 DEF Unsent
<1>23. ASSUME NEW m \in Notifications
       PROVE  MailOf(m)'
  <2>1. mailFaults' \in Nat /\ mailFaults' >= mailFaults /\ accepted'[m] = accepted[m]
    BY DEF MailTypeOK
  <2>2. CASE m # n
    <3>1. \A j \in Attempts : deliveries'[m][j] = deliveries[m][j]
      BY <1>8, <2>2
    <3>2. \A e \in Dispatchers \ {d} : e \in Holding(m)' <=> e \in Holding(m)
      <4>1. \A e \in Dispatchers : Busy(e) => drain[e].attempt \in Attempts
        BY StateOf
      <4> QED
        BY <1>6, <3>1, <4>1 DEF Holding, Busy
    <3>3. Holding(m)' \ {d} = Holding(m) \ {d}
      <4>1. Holding(m)' \subseteq Dispatchers /\ Holding(m) \subseteq Dispatchers
        BY DEF Holding
      <4> QED
        BY <3>2, <4>1
    <3> QED
      BY <1>21, <1>22, <2>1, <2>2, <3>1, <3>3, OthersMail
  <2>3. CASE m = n
    <3>1. Holding(n) = {}
      <4>1. \A e \in Dispatchers : Busy(e) => drain[e].attempt \in Attempts
        BY StateOf
      <4> QED
        BY <4>1 DEF Claimable, LiveClaims, Holding
    <3>2. PICK u, v : u = Unsent(n) /\ v = Unsent(n)'
      OBVIOUS
    <3>3. accepted[n] + Cardinality(u) <= mailFaults
      BY <1>1, <3>1, <3>2 DEF Claimable, MailInv, MailOf
    <3>4. d \notin u /\ v = u \cup {d}
      <4>1. d \notin u /\ d \in v
        BY <1>21, <3>2 DEF Unsent
      <4>2. v \ {d} = u \ {d}
        BY <1>1, <1>22, <3>2
      <4> QED
        BY <4>1, <4>2
    <3>5. IsFiniteSet(u) /\ Cardinality(u) \in Nat
      BY <3>2, UnsentFinite
    <3>6. Cardinality(v) = Cardinality(u) + 1
      BY <3>4, <3>5, FS_AddElement
    <3>7. d \in Holding(n)'
      <4>1. deliveries'[n][drain'[d].attempt].outcome = "claimed" /\ ~deliveries'[n][drain'[d].attempt].over
        BY <1>8, <1>21 DEF ClaimRow
      <4> QED
        BY <1>21, <4>1 DEF Holding
    <3>8. accepted'[n] + Cardinality(v) <= 1 + mailFaults'
      <4>1. accepted[n] \in Nat /\ mailFaults \in Nat /\ accepted'[n] = accepted[n] /\ mailFaults' = mailFaults
        BY <1>1 DEF MailTypeOK
      <4> QED
        BY <3>3, <3>5, <3>6, <4>1
    <3> QED
      BY <2>3, <3>2, <3>7, <3>8 DEF MailOf
  <2> QED
    BY <2>2, <2>3
<1>24. MailInv'
  BY <1>23 DEF MailInv
<1> QED
  BY <1>13, <1>14, <1>16, <1>17, <1>19, <1>20, <1>24

LEMMA ClaimKeeps ==
  ASSUME IInv, NEW d \in Dispatchers, ClaimAttempt(d)
  PROVE  IInv'
<1>1. PICK n \in drain[d].todo :
        IF Claimable(n)
        THEN /\ deliveries' = [deliveries EXCEPT ![n][LastAttempt(n) + 1] = ClaimRow]
             /\ drain' = [drain EXCEPT ![d] = [phase |-> "claimed", todo |-> drain[d].todo \ {n},
                                               n |-> n, attempt |-> LastAttempt(n) + 1]]
        ELSE /\ drain' = [drain EXCEPT ![d] = Continue(drain[d].todo \ {n})]
             /\ UNCHANGED deliveries
  BY DEF ClaimAttempt
<1>2. drain[d].phase = "draining" /\ UNCHANGED <<queued, authorized, accepted, mailFaults, mailChanges>>
  BY DEF ClaimAttempt
<1>3. CASE Claimable(n)
  <2>1. PICK last : last = LastAttempt(n)
    OBVIOUS
  <2>2. /\ deliveries' = [deliveries EXCEPT ![n][last + 1] = ClaimRow]
        /\ drain' = [drain EXCEPT ![d] = [phase |-> "claimed", todo |-> drain[d].todo \ {n},
                                          n |-> n, attempt |-> last + 1]]
    BY <1>1, <1>3, <2>1
  <2> QED
    BY <1>2, <1>3, <2>1, <2>2, ClaimedKeeps
<1>4. CASE ~Claimable(n)
  BY <1>1, <1>2, <1>4, SkippedKeeps
<1> QED
  BY <1>3, <1>4

-------------------------------------------------------------------------------
(* The theorems                                                            *)

LEMMA NothingUsed ==
  ASSUME MailInit, NEW n \in Notifications
  PROVE  LastAttempt(n) = 0
<1>1. {k \in Attempts : deliveries[n][k].outcome # "none"} = {}
  BY DEF MailInit, NoRow
<1> QED
  BY <1>1, FS_EmptySet DEF LastAttempt

LEMMA OutboxBegins ==
  ASSUME MailInit
  PROVE  IInv
<1>1. \A d \in Dispatchers : drain[d] = Resting /\ drain[d].phase = "resting" /\ ~Busy(d)
  BY DEF MailInit, Resting, Busy
<1>2. MailTypeOK
  BY MailAssumption DEF MailInit, MailTypeOK, NoRow, DrainState
<1>3. \A n \in Notifications : LastAttempt(n) = 0
  BY NothingUsed
<1>4. PrefixInv
  BY <1>3, Numbers DEF MailInit, NoRow, PrefixInv
<1>5. CountInv
  BY <1>3, Numbers, MailAssumption DEF CountInv
<1>6. OwnInv /\ TimeInv
  BY <1>1 DEF OwnInv, TimeInv
<1>7. \A n \in Notifications : ~MailSucceeded(n)
  BY DEF MailInit, NoRow, MailSucceeded
<1>8. SentInv
  BY <1>1, <1>7 DEF SentInv
<1>9. \A n \in Notifications : Unsent(n) = {}
  BY <1>1 DEF Unsent
<1>10. MailInv
  <2>1. \A n \in Notifications : accepted[n] = 0 /\ mailFaults = 0 /\ Cardinality(Unsent(n)) = 0
    BY <1>9, FS_EmptySet DEF MailInit
  <2> QED
    BY <2>1 DEF MailInv, MailOf
<1> QED
  BY <1>2, <1>4, <1>5, <1>6, <1>8, <1>10 DEF IInv

LEMMA OutboxKeeps ==
  ASSUME IInv, [MailNext]_mailVars
  PROVE  IInv'
<1>1. ASSUME NEW n \in Notifications, Enqueue(n) \/ ChangeAuthorization(n)
      PROVE  IInv'
  BY <1>1, EnqueueKeeps
<1>2. ASSUME NEW d \in Dispatchers, Scans(d)
      PROVE  IInv'
  BY <1>2, ScanKeeps DEF Scans
<1>3. ASSUME NEW d \in Dispatchers, Works(d)
      PROVE  IInv'
  <2>1. CASE ClaimAttempt(d)
    BY <2>1, ClaimKeeps
  <2>2. CASE Load(d)
    BY <2>2, LoadKeeps
  <2>3. CASE SendMail(d)
    BY <2>3, SendKeeps
  <2>4. CASE RecordResult(d)
    BY <2>4, RecordedKeeps, RefusedKeeps
  <2> QED
    BY <1>3, <2>1, <2>2, <2>3, <2>4 DEF Works
<1>4. ASSUME NEW d \in Dispatchers, AnswerLost(d)
      PROVE  IInv'
  BY <1>4, SendKeeps
<1>5. ASSUME NEW d \in Dispatchers, RecordFails(d) \/ CrashDispatcher(d)
      PROVE  IInv'
  BY <1>5, AbandonKeeps
<1>6. ASSUME NEW n \in Notifications, NEW k \in Attempts, AttemptLeaseEnds(n, k) \/ DelayPasses(n, k)
      PROVE  IInv'
  BY <1>6, TimeKeeps
<1>7. CASE UNCHANGED mailVars
  <2>1. MailTypeOK' /\ PrefixInv' /\ CountInv'
    BY <1>7 DEF IInv, mailVars, MailTypeOK, PrefixInv, CountInv, LastAttempt, Waiting
  <2>2. OwnInv' /\ TimeInv' /\ SentInv' /\ MailInv'
    BY <1>7 DEF IInv, mailVars, OwnInv, TimeInv, SentInv, MailInv, MailOf, Unsent, Holding, Busy,
                MailSucceeded
  <2> QED
    BY <2>1, <2>2 DEF IInv
<1> QED
  BY <1>1, <1>2, <1>3, <1>4, <1>5, <1>6, <1>7 DEF MailNext

THEOREM OutboxInvariant == MailSpec => []IInv
<1>1. MailInit => IInv
  BY OutboxBegins
<1>2. IInv /\ [MailNext]_mailVars => IInv'
  BY OutboxKeeps
<1> QED
  BY <1>1, <1>2, PTL DEF MailSpec

\* Rows, dispatchers and counters keep their types
\* (packages/notifications/src/lifecycle-dispatcher.ts:126).
THEOREM TypeCorrect == MailSpec => []MailTypeOK
<1>1. IInv => MailTypeOK
  BY DEF IInv
<1> QED
  BY <1>1, OutboxInvariant, PTL

\* A recorded success is of an accepted mail, and every mail beyond the first has its
\* fault, for any number of dispatchers, attempts and faults
\* (packages/notifications/src/lifecycle-dispatcher.ts:126).
THEOREM MailsAreExplained == MailSpec => []MailsExplained
<1>1. ASSUME IInv
      PROVE  MailsExplained
  <2>1. SUFFICES ASSUME NEW n \in Notifications
                 PROVE  (MailSucceeded(n) => accepted[n] >= 1) /\ accepted[n] <= 1 + mailFaults
    BY DEF MailsExplained
  <2>2. MailSucceeded(n) => accepted[n] >= 1
    BY <1>1 DEF IInv, SentInv
  <2>3. accepted[n] \in Nat /\ mailFaults \in Nat
    BY <1>1 DEF IInv, MailTypeOK
  <2>4. PICK u : u = Cardinality(Unsent(n))
    OBVIOUS
  <2>5. u \in Nat
    BY <2>4, UnsentFinite
  <2>6. accepted[n] + u <= 1 + mailFaults
    BY <1>1, <2>4 DEF IInv, MailInv, MailOf
  <2> QED
    BY <2>2, <2>3, <2>5, <2>6
<1>2. IInv => MailsExplained
  BY <1>1
<1> QED
  BY <1>2, OutboxInvariant, PTL

\* Scans that are out of date exceed the cap by one attempt for every dispatcher but
\* one, whatever the cap and however many dispatchers
\* (packages/notifications/src/lifecycle-dispatcher.ts:69).
THEOREM AttemptsAreBounded == MailSpec => []AttemptsBounded
<1>1. Cardinality(Dispatchers) \in Nat \ {0}
  BY FS_CardinalityType, FS_EmptySet, MailAssumption
<1>2. ASSUME IInv
      PROVE  AttemptsBounded
  <2>1. SUFFICES ASSUME NEW n \in Notifications
                 PROVE  LastAttempt(n) < MaxAttempts + Cardinality(Dispatchers)
    BY DEF AttemptsBounded
  <2>2. LastAttempt(n) \in Nat /\ MaxAttempts \in Nat
    BY UsedAttempts, Numbers
  <2>3. PICK w : w = Waiting(n)
    OBVIOUS
  <2>4. w \subseteq Dispatchers
    BY <2>3 DEF Waiting
  <2>5. Cardinality(w) \in Nat
    BY <2>4, FS_Subset, FS_CardinalityType, MailAssumption
  <2>6. LastAttempt(n) >= MaxAttempts =>
          LastAttempt(n) + Cardinality(w) < MaxAttempts + Cardinality(Dispatchers)
    BY <1>2, <2>3 DEF IInv, CountInv
  <2> QED
    BY <1>1, <2>2, <2>5, <2>6
<1>3. IInv => AttemptsBounded
  BY <1>2
<1> QED
  BY <1>3, OutboxInvariant, PTL
===============================================================================
