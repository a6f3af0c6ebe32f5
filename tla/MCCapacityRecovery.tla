-------------------------- MODULE MCCapacityRecovery --------------------------
(* Finite instances of the seat pool with and without the recovery job.  The      *)
(* passing run takes five of them in turn: the web alone, with all commands in     *)
(* one operating day, and with the commands of a checklist pool across midnight;   *)
(* and, across midnight, two recovery runs beside checklists that are confirmed and *)
(* given up, one beside invitations, and one beside a queue of three without any   *)
(* release.                                                                      *)
EXTENDS CapacityRecovery, TLC

CONSTANTS s1, s2, w1, w2, nobody

OneSession    == {s1}
TwoSessions   == {s1, s2}
OneRecoverer  == {w1}
TwoRecoverers == {w1, w2}
TwoRequests   == 1..2
ThreeRequests == 1..3
Alike == Permutations(TwoSessions) \cup Permutations(TwoRecoverers)

TwoDays == 1..2
DayOf   == (0 :> 1) @@ (1 :> 2)

\* Two instants of one day and one of the next.
LongDayOf == (0 :> 1) @@ (1 :> 1) @@ (2 :> 2)

VARIABLE scenario

Web     == {"all commands", "across midnight"}
Recovery == {"checklists", "invites", "no release"}

Asks(ops) == \A s \in Sessions : session'[s] # Idle => session'[s].op \in ops
OneAtMost(table) == \E m \in DOMAIN table : \A n \in DOMAIN table \ {m} : table[n] = Idle
Issues(kind) == \A r \in Requests, k \in Attempts : action'[r][k].kind \in {"none", kind}
Leaves(states) == \A r \in Requests : request'[r] \notin states
Waits(r) ==
  /\ request'[r] = "pending_approval"
  /\ \A s \in Sessions : session'[s] # Idle /\ session'[s].op # "change" => session'[s].r # r

OneSeat ==
  /\ \A c \in capacity' : c.qty <= 1
  /\ \A s \in Sessions :
       session'[s] # Idle /\ session'[s].op = "change" => session'[s].row.qty <= 1

Today ==
  /\ \A c \in capacity' : c.from = 1
  /\ \A s \in Sessions :
       session'[s] # Idle /\ session'[s].op = "change" => session'[s].row.from = 1

NoRecovery == drain' = drain /\ Waits(3)

AllCommands ==
  /\ NoRecovery /\ OneSeat /\ Today /\ now' \in {0, 1}

AcrossMidnight ==
  /\ NoRecovery /\ OneSeat /\ Issues("checklist") /\ Leaves({"rejected", "invited", "failed"})

\* Beside the recovery: one session, and instants from the last of a day.
Recovering ==
  /\ OneAtMost(session') /\ Leaves({"rejected", "offboarding"})
  /\ \A c \in Recoverers : drain'[c] # Idle => drain'[c].at >= 1

BesideChecklists ==
  /\ Recovering /\ OneSeat /\ Waits(3)
  /\ Asks({"approve", "confirm", "change"}) /\ Issues("checklist")

\* With two seats a run resumes a request while the provider refuses an older one.
BesideInvites ==
  /\ Recovering /\ Waits(3)
  /\ Asks({"approve", "retry", "change"}) /\ Issues("invite")
  /\ OneAtMost(drain') /\ faults' <= 1

BesideNoRelease ==
  /\ Recovering
  /\ Asks({"approve", "confirm", "change"}) /\ Issues("checklist")
  /\ Leaves({"failed"})
  /\ OneAtMost(drain') /\ faults' = 0

MCInit ==
  /\ scenario \in Web \cup Recovery
  /\ now = IF scenario = "all commands" THEN 0 ELSE 1
  /\ \E q \in 0..MaxQty :
       /\ scenario # "no release" => q <= 1
       /\ scenario = "invites" => q = 0
       /\ capacity = {[from |-> 1, qty |-> q, createdAt |-> now]}
  /\ request = [r \in Requests |-> "pending_approval"]
  /\ action = [r \in Requests |-> [k \in Attempts |-> NoAction]]
  /\ assignment = [r \in Requests |-> NoSeat]
  /\ work = [d \in Days |-> NoWork]
  /\ session = [s \in Sessions |-> Idle]
  /\ poolLock = Unlocked
  /\ drain = [c \in Recoverers |-> Idle]
  /\ lease = [d \in Days |-> NoLease]
  /\ faults = 0

MCNext ==
  /\ RecoveryNext
  /\ CASE scenario = "all commands"    -> AllCommands
       [] scenario = "across midnight" -> AcrossMidnight
       [] scenario = "checklists"      -> BesideChecklists
       [] scenario = "invites"         -> BesideInvites
       [] scenario = "no release"      -> BesideNoRelease
  /\ UNCHANGED scenario

MCSpec == MCInit /\ [][MCNext]_<<allVars, scenario>>

\* Beside a scheduled job: what is blocked although a seat is free.
FairSpec ==
  /\ RecoveryInit /\ scenario = "fair"
  /\ [][RecoveryNext /\ UNCHANGED scenario]_<<allVars, scenario>>
  /\ RecoveryFairness

\* A recovery run that nothing is released under leaves no seat idle while a
\* request waits for one, but for requests whose rows it found locked
\* (capacity-recovery.ts:146-152).
RecoveryUsesEverySeat ==
  [][scenario = "no release" => UsesEverySeat]_<<allVars, scenario>>
===============================================================================
