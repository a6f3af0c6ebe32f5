---------------------------- MODULE MCInviteProtocol ----------------------------
(* Finite instances of InviteProtocol: two workers and an administrator whose    *)
(* locks hold as long as their connections, and one worker whose lock may be     *)
(* lost under a delivery.                                                        *)
EXTENDS InviteProtocol

CONSTANTS w1, w2, alice

TwoWorkers == {w1, w2}
OneAdmin   == {alice}

VARIABLE scenario

KeepsLocks ==
  \A w \in Workers :
    proc'[w].phase \in {"locked", "posting", "answered", "noted"} => proc'[w].session

Alone == \A p \in Procs \ {w1} : proc'[p] = Resting

MCNext ==
  /\ Next
  /\ IF scenario = "together" THEN KeepsLocks ELSE Alone
  /\ UNCHANGED scenario

\* The fairness of InviteProtocol, for the processes of the scenario.
Runs(p) == p = w1 \/ scenario = "together"
MCFairness ==
  /\ \A w \in Workers : WF_vars(Runs(w) /\ (Deliver(w) \/ Poll(w) \/ ScanExpiry(w)))
  /\ \A p \in Procs : SF_vars(Runs(p) /\ Withdraw(p))

MCInit == Init /\ scenario \in {"together", "alone"}

MCSpec == MCInit /\ [][MCNext]_<<vars, scenario>> /\ MCFairness

\* Whatever connection is lost, whoever runs.
AnySpec == Init /\ scenario = "any" /\ [][Next /\ UNCHANGED scenario]_<<vars, scenario>>
=================================================================================
