-------------------------------- MODULE MCMoves --------------------------------
(* Finite instances of Moves. *)
EXTENDS Moves, TLC

CONSTANTS n1, n2, orgX, orgY, poolA, poolB

TwoPersons   == {n1, n2}
OnePerson    == {n1}
TwoCompanies == {orgX, orgY}
TwoPools     == {poolA, poolB}
OneSeatEach  == [p \in TwoPools |-> 1]
ThreeRequests == 1..3
Symmetry == Permutations(TwoPersons) \cup Permutations(TwoCompanies) \cup Permutations(TwoPools)
AllCommands  == {"company", "account", "offboard", "fail"}
AccountMoves == {"account"}
CompanyMoves == {"company"}

\* History: a seat was left behind by its holder and may be returned to; and a
\* confirmation was accepted that did not have a standing seat of the pool in its sight.
VARIABLES leftBehind, overlooked

LeftBehind(r) ==
  /\ Open(r) \/ (State(r, "deprovisioned") /\ InForce(r, today))
  /\ Moved(r)

\* Two kinds of seats that stand are out of sight of a confirmation: one that is
\* younger than its clock, and one that begins after the day its clock has, for
\* instance because it was moved in the evening.
Stands(q) == (Open(q) \/ InForce(q, today)) /\ ~Moved(q)
OutOfSight(r, q) ==
  /\ Stands(q) /\ request[q].pool = request[r].pool
  /\ q \in confirming[r].at.seats \/ confirming[r].at.day < seat[q].startedOn

Overlook == \E r \in Requests : ReadConfirmation(r) /\ \E q \in Requests : OutOfSight(r, q)

MCInit == Init /\ leftBehind = FALSE /\ overlooked = FALSE
MCNext ==
  /\ Next
  /\ leftBehind' = (leftBehind \/ \E r \in Requests : LeftBehind(r)')
  /\ overlooked' = (overlooked \/ Overlook)
history == <<leftBehind, overlooked>>
MCSpec == MCInit /\ [][MCNext]_<<vars, history>>
MCFairSpec == MCSpec /\ Fairness

\* Moves reserve seats nobody counted (cross-org-move.ts:200), but what does not
\* fit is not confirmed: no pool has more seats in force than were purchased, as
\* long as no holder leaves a seat behind and may come back to it, and every
\* confirmation that was accepted had all standing seats in its sight.
SeatsFit == ~leftBehind /\ ~overlooked => \A p \in Pools : Cardinality(Held(p)) <= Purchased[p]
=================================================================================
