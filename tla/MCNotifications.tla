----------------------------- MODULE MCNotifications -----------------------------
(* Finite instances of the two outboxes of e-mail, which share no state: the alert *)
(* job (AlertEvaluation); and lifecycle mail (LifecycleNotifications), as two mails *)
(* with one fault and fixed authorizations, or one mail with two faults and an      *)
(* authorization that changes.  A behaviour is one of these three.                 *)
EXTENDS AlertEvaluation, LifecycleNotifications

CONSTANTS w1, w2, s1, a1

TwoWorkers  == {w1, w2}
OneSubject  == {s1}
OneApprover == {a1}
TwoMails    == 1..2

VARIABLE part

MCInit ==
  /\ Init /\ MailInit
  /\ \/ part = "alerts" /\ authorized = {}
     \/ /\ part \in {"two mails", "one mail"} /\ kind = [s \in Subjects |-> "once"]
        /\ part = "two mails" => 1 \in authorized   \* which of them may be refused is alike

MCNext ==
  /\ UNCHANGED part
  /\ \/ part = "alerts" /\ Next /\ UNCHANGED mailVars
     \/ /\ part # "alerts" /\ MailNext /\ UNCHANGED vars
        /\ IF part = "two mails" THEN mailFaults' <= 1 /\ mailChanges' = 0 ELSE 2 \notin queued'

MCSpec ==
  /\ MCInit /\ [][MCNext]_<<part, vars, mailVars>>
  /\ Fairness /\ MailFairness
=================================================================================
