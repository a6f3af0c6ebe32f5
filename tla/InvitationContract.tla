--------------------------- MODULE InvitationContract ---------------------------
(***************************************************************************)
(* What automated invitation promises for one licence request: the ledger  *)
(* and the provider never contradict each other.  At most one invitation   *)
(* ever stands for the request; the ledger reports it only when it exists, *)
(* gives a seat only to somebody who accepted, and frees the seat of an    *)
(* invitation only when the provider has deleted it.  The one exception is *)
(* an invitation the provider makes although it answers with an error: the *)
(* ledger takes the error at its word, tries again, and the stray stands   *)
(* beside the invitation on record.                                        *)
(***************************************************************************)

VARIABLES
  ledger,      \* the state of the license request
  invitation,  \* what the provider holds for it
  strays       \* what it holds although it answered with an error

vars == <<ledger, invitation, strays>>

Init == ledger = "provisioning" /\ invitation = "none" /\ strays = {}

Create  == /\ ledger = "provisioning" /\ invitation = "none"
           /\ invitation' = "pending" /\ UNCHANGED <<ledger, strays>>

\* The provider makes an invitation and answers with an error.
GoAstray == /\ ledger = "provisioning" /\ invitation = "none"
            /\ strays' = strays \cup {"pending"} /\ UNCHANGED <<ledger, invitation>>

\* The person accepts, or lets the invitation lapse.
Answer  == /\ invitation = "pending" /\ invitation' \in {"accepted", "expired"}
           /\ UNCHANGED <<ledger, strays>>

AnswerStray ==
  /\ "pending" \in strays
  /\ \E answer \in {"accepted", "expired"} :
       strays' \in {strays \cup {answer}, (strays \ {"pending"}) \cup {answer}}
  /\ UNCHANGED <<ledger, invitation>>

\* Only an invitation the ledger knows of is deleted.
Delete  == /\ ledger = "invited" /\ invitation = "pending"
           /\ invitation' = "deleted" /\ UNCHANGED <<ledger, strays>>

Report  == /\ ledger = "provisioning" /\ invitation # "none"
           /\ ledger' = "invited" /\ UNCHANGED <<invitation, strays>>

Refuse  == /\ ledger = "provisioning" /\ invitation = "none"
           /\ ledger' \in {"failed", "blocked_no_seat"} /\ UNCHANGED <<invitation, strays>>

TryAgain == /\ ledger \in {"failed", "blocked_no_seat"} /\ invitation = "none"
            /\ ledger' = "provisioning" /\ UNCHANGED <<invitation, strays>>

Join    == /\ ledger = "invited" /\ (invitation = "accepted" \/ "accepted" \in strays)
           /\ ledger' = "active" /\ UNCHANGED <<invitation, strays>>

Withdraw == /\ ledger = "invited" /\ invitation = "deleted"
            /\ ledger' = "deprovisioned" /\ UNCHANGED <<invitation, strays>>

Next == \/ Create \/ GoAstray \/ Answer \/ AnswerStray \/ Delete
        \/ Report \/ Refuse \/ TryAgain \/ Join \/ Withdraw

Spec == Init /\ [][Next]_vars
=================================================================================
