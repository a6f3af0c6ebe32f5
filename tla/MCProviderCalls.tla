---------------------------- MODULE MCProviderCalls ----------------------------
(* Finite instances of the modules about what leaves the ledger or enters it from  *)
(* outside: the vendor's API behind its limiter (ConnectorCalls), the identity     *)
(* provider (IdentityOperations), the vendor's reports of use and the flags that   *)
(* follow from them (Usage), the copies of the database (BackupRestore) and the    *)
(* releases that change its schema (SchemaMigrations).  They share no state: a     *)
(* behaviour is one of one of them; of the identity operations, either the         *)
(* creations of one address or the changes of one user are requested.              *)
EXTENDS ConnectorCalls, IdentityOperations, Usage, BackupRestore, SchemaMigrations, TLC

CONSTANTS k1, k2, k3, l1, s1, s2, c1, c2, d1, r1, u1, u2, u3

ThreeCallers == {k1, k2, k3}
OneLimiter   == {l1}
Shared       == [c \in ThreeCallers |-> l1]
UserManagement == {"members", "create_invite"}
SmallLimits  == [b \in Budgets |-> IF b = "user_management" THEN 2 ELSE 1]
SmallWindows == [b \in Budgets |-> IF b = "invite_create" THEN 3 ELSE 2]

TwoSessions == {s1, s2}
TwoCreates  == {c1, c2}
OneDisable  == {d1}
OneReset    == {r1}
ThreeUsers  == {u1, u2, u3}

OneUser    == {u1}
OneRun     == {1}
TwoSyncs   == {1, 2}
TwoHomes   == {1, 2}
UsedOrIdle == [OneUser -> {"used", "idle"}]

TwoScripts == {"first", "second"}
SameSecond == [s \in TwoScripts |-> 1]

TwoRunners == {1, 2}
File(f, s) == [file |-> f, sum |-> s]
Branches == {{File(1, 1), File(3, 1)}, {File(1, 1), File(2, 1)}, {File(1, 2), File(3, 1)},
             {File(1, 1), File(3, 1), File(4, 1)}}

VARIABLE part

AtFirst == [p \in OneUser |-> 1]

--------------------------------------------------------------------------------
MCInit ==
  /\ Init /\ IdentityInit /\ UsageInit /\ CopiesInit /\ SchemaInit
  /\ company = AtFirst
  /\ part \in {"calls", "creations", "changes", "usage", "copies", "schema"}
  /\ part # "usage" => \A p \in OneUser : ~row[p][1].used
  /\ part = "creations" => unused \in {ThreeUsers, ThreeUsers \ {u3}}
  /\ part # "creations" => unused = ThreeUsers /\ ~account.exists

Requested == IF part = "creations" THEN Creates ELSE Disables \cup Resets

\* Of the identity operations, those of the part.
IdentityStep ==
  /\ IdentityNext
  /\ \A o \in Ops \ Requested : op'[o].status = "none"

\* (bound) Two runs of analytics at once only while nobody has moved; which of the
\* idle runs starts makes no difference.
UsageStep ==
  /\ UsageNext
  /\ (\A j \in TwoSyncs : sync'[j].phase # "idle") => company' = AtFirst
  /\ sync[2].phase = "idle" /\ sync'[2].phase # "idle" => sync[1].phase # "idle"

\* (bound) Two backups or two restores, not both.
CopyStep == CopiesNext /\ "idle" \in {backup'["second"].pc, restore'["second"].pc}

MCNext ==
  \/ /\ part = "calls" /\ Next
     /\ UNCHANGED <<part, identityVars, usageVars, copiesVars, schemaVars>>
  \/ /\ part \in {"creations", "changes"} /\ IdentityStep
     /\ UNCHANGED <<part, vars, usageVars, copiesVars, schemaVars>>
  \/ /\ part = "usage" /\ UsageStep
     /\ UNCHANGED <<part, vars, identityVars, copiesVars, schemaVars>>
  \/ /\ part = "copies" /\ CopyStep
     /\ UNCHANGED <<part, vars, identityVars, usageVars, schemaVars>>
  \/ /\ part = "schema" /\ SchemaNext
     /\ UNCHANGED <<part, vars, identityVars, usageVars, copiesVars>>

MCSpec ==
  /\ MCInit
  /\ [][MCNext]_<<part, vars, identityVars, usageVars, copiesVars, schemaVars>>
  /\ IdentityFairness
=================================================================================
