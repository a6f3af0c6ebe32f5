--------------------------- MODULE RequestLifecycle ---------------------------
(***************************************************************************)
(* The life of a licence request as everybody outside the transactions     *)
(* sees it: a state per request, moved only along the transition table of  *)
(* packages/domain/src/request-workflow/lifecycle.ts.  The modules that    *)
(* model the transactions are shown to implement this specification.       *)
(***************************************************************************)

CONSTANT Requests          \* the identities of the licence requests

VARIABLE request           \* the committed state of every request

State == {"submitted", "pending_approval", "approved", "blocked_no_seat",
          "provisioning", "failed", "invited", "active", "flagged_inactive",
          "offboarding", "deprovisioned", "rejected"}

\* REQUEST_TRANSITIONS: the states a request may move to from each state.
Transitions ==
  [s \in State |->
     CASE s = "submitted"        -> {"pending_approval"}
       [] s = "pending_approval" -> {"approved", "rejected"}
       [] s = "approved"         -> {"provisioning", "blocked_no_seat"}
       [] s = "blocked_no_seat"  -> {"provisioning", "rejected"}
       [] s = "provisioning"     -> {"invited", "active", "failed", "blocked_no_seat"}
       [] s = "failed"           -> {"provisioning"}
       [] s = "invited"          -> {"active", "deprovisioned"}
       [] s = "active"           -> {"flagged_inactive", "offboarding"}
       [] s = "flagged_inactive" -> {"active", "offboarding"}
       [] s = "offboarding"      -> {"deprovisioned", "failed"}
       [] OTHER                  -> {}]

\* The decision to approve and the routing that follows it share one
\* transaction, so an observer sees the two transitions as one.
Moves(s) ==
  Transitions[s] \cup
    (IF "approved" \in Transitions[s] THEN Transitions["approved"] ELSE {})

Init == request = [r \in Requests |-> "pending_approval"]

\* One committed transaction moves any number of requests (the capacity
\* recovery job resumes several at once), each along the table.
Next ==
  /\ request' \in [Requests -> State]
  /\ \A r \in Requests :
       request'[r] = request[r] \/ request'[r] \in Moves(request[r])

Spec == Init /\ [][Next]_request
===============================================================================
