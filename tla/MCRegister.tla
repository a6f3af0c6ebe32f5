------------------------------- MODULE MCRegister -------------------------------
(* Finite instances of two readers and writers of the register: seats that change *)
(* hands (Moves), and the close of a month (MonthlyClose).  A behaviour is one of *)
(* the one or of the other.                                                      *)
EXTENDS MCMoves, MonthlyClose

CONSTANTS rateA, rateB

TwoRuns  == {1, 2}
TwoRates == {rateA, rateB}
TwoInvoices == {10, 16}
LastOfMonth == 3
Rows == {[from |-> 1, to |-> LastOfMonth + 2, price |-> 10], [from |-> 1, to |-> 1, price |-> 10],
         [from |-> 2, to |-> LastOfMonth + 2, price |-> 20]}
RegisterSymmetry == Symmetry \cup Permutations(TwoRates)

VARIABLE part

moveVars == <<vars, history>>

\* Nobody works anywhere: nothing happens in the part of the moves.
NoMoves ==
  /\ today = 0 /\ evening = FALSE /\ company = [n \in Persons |-> None]
  /\ leftBehind = FALSE /\ overlooked = FALSE
  /\ request = [r \in Requests |-> NoRequest] /\ seat = [r \in Requests |-> NoSeat]
  /\ provision = [r \in Requests |-> None] /\ removal = [r \in Requests |-> NoRemoval]
  /\ confirming = [r \in Requests |-> Idle]

RegisterInit ==
  /\ CloseInit
  /\ \/ part = "moves" /\ MCInit /\ ~eager /\ \A i \in RateIds : rate[i].price = 0
     \/ part = "close" /\ NoMoves

RegisterNext ==
  \/ part = "moves" /\ MCNext /\ UNCHANGED <<part, closeVars>>
  \/ part = "close" /\ CloseNext /\ UNCHANGED <<part, moveVars>>

RegisterSpec == RegisterInit /\ [][RegisterNext]_<<part, moveVars, closeVars>>
=================================================================================
