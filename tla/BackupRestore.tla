---------------------------- MODULE BackupRestore ----------------------------
(* Backups of the database into a directory, and guarded restores out of it.    *)
(*                                                                              *)
(* A backup (backup-db.sh) is a ciphertext with three files beside it.  A       *)
(* guarded restore (run-guarded-restore.sh) copies and verifies the four files, *)
(* opens a window in which the role ledger_restore_admin may work               *)
(* (prepare-restore-window.sh), restores into a database of its own and renames *)
(* it (restore-db.sh), and closes the window (finalize-restore-window.sh).      *)
(* Backups share the advisory lock (741263, 2), which each of the last three    *)
(* scripts holds alone; between the scripts nothing is held.                    *)
(*                                                                              *)
(* A signal reaches a shell when the command it waits for has ended, and runs   *)
(* its trap.  A kill leaves everything as it is, but for locks and sessions.    *)
EXTENDS Naturals, FiniteSets

CONSTANTS Backups, Restores,
          NameOf,        \* the time stamp a backup works under, the name of its files
          Nil,           \* nobody
          MaxStops       \* bound on signals and kills

ASSUME CopiesAssumption ==
  /\ Backups # {} /\ MaxStops \in Nat
  /\ Nil \notin Backups \cup Restores \cup {"restore_admin", "owner"}

VARIABLES dir,           \* files of a name: the run that made each, or Nil
          mutex,         \* the run that holds .backup.lock
          backup,        \* runs of the backup
          restore,       \* guarded restores
          role,          \* ledger_restore_admin: who opened its window, login, membership
          outlived,      \* history: restores that were logged in when their window ended
          restored,      \* the restored database: the files it came from, its owner
          stops

copiesVars == <<dir, mutex, backup, restore, role, outlived, restored, stops>>

Checksum   == 1
Manifest   == 2
Signature  == 3
Ciphertext == 4
Parts    == 1..4
NoFiles  == [k \in Parts |-> Nil]
NoDatabase == [from |-> NoFiles, owner |-> Nil]
Closed   == [by |-> Nil, login |-> FALSE, member |-> FALSE]
Files(b) == dir[NameOf[b]]

Running   == {"named", "waiting", "identifying", "dumping", "publishing", "removing"}
Connected == {"locked", "loaded", "renamed"}
Answering == {"opening", "preparing", "prepared", "connecting", "finalizing"} \cup Connected

CopiesTypeOK ==
  /\ dir \in [{NameOf[b] : b \in Backups} -> [Parts -> Backups \cup {Nil}]]
  /\ mutex \in Backups \cup {Nil}
  /\ backup \in [Backups -> [pc : Running \cup {"idle", "succeeded", "failed", "killed", "torn"},
                             count : 0..4, shares : BOOLEAN,
                         then : {"failed", "identifying", "succeeded"}]]
  /\ restore \in [Restores -> [pc : Answering \cup {"idle", "copying", "staged", "ended", "unclosed", "abandoned"},
                               copy : [Parts -> Backups \cup {Nil}], of : Backups]]
  /\ role \in [by : Restores \cup {Nil}, login : BOOLEAN, member : BOOLEAN]
  /\ outlived \subseteq Restores
  /\ restored \in [from : [Parts -> Backups \cup {Nil}], owner : {Nil, "restore_admin", "owner"}]
  /\ stops \in 0..MaxStops

--------------------------------------------------------------------------------
(* The maintenance lock *)

Sharing == {b \in Backups : backup[b].shares}
Alone   == {r \in Restores : restore[r].pc \in {"opening", "preparing"} \cup Connected}
Unlocked == Sharing = {} /\ Alone = {}

--------------------------------------------------------------------------------
(* Backup *)

\* Is there a backup of that name?  The lock of the directory is taken after the
\* answer, and a run that finds it taken gives up.
LookForName(b) ==
  /\ backup[b].pc = "idle"
  /\ backup' = [backup EXCEPT ![b].pc = IF Files(b) = NoFiles THEN "named" ELSE "failed"]
  /\ UNCHANGED <<dir, mutex, restore, role, outlived, restored, stops>>

TakeDirectory(b) ==
  /\ backup[b].pc = "named"
  /\ IF mutex = Nil
     THEN mutex' = b /\ backup' = [backup EXCEPT ![b].pc = "waiting"]
     ELSE UNCHANGED mutex /\ backup' = [backup EXCEPT ![b].pc = "failed"]
  /\ UNCHANGED <<dir, restore, role, outlived, restored, stops>>

ShareLock(b) ==
  /\ backup[b].pc = "waiting" /\ Alone = {}
  /\ backup' = [backup EXCEPT ![b].pc = "identifying", ![b].shares = TRUE]
  /\ UNCHANGED <<dir, mutex, restore, role, outlived, restored, stops>>

\* The cluster tells its identity, before there is any file; then the dump is
\* encrypted, hashed and signed under names nobody looks for.
Dump(b) ==
  /\ \/ backup[b].pc = "identifying" /\ backup' = [backup EXCEPT ![b].pc = "dumping"]
     \/ backup[b].pc = "dumping" /\ backup' = [backup EXCEPT ![b].pc = "publishing"]
  /\ UNCHANGED <<dir, mutex, restore, role, outlived, restored, stops>>

\* Mutant: the ciphertext is published first.
PublicationReversed(i) == 5 - i
Publication(i) == i

\* Each file is renamed and its directory synced before the next one; after the
\* last the run has succeeded and its session and its locks end.
Publish(b) ==
  LET i == backup[b].count + 1
  IN  /\ backup[b].pc = "publishing"
      /\ IF i \in Parts
         THEN /\ dir' = [dir EXCEPT ![NameOf[b]][Publication(i)] = b]
              /\ backup' = [backup EXCEPT ![b].count = i]
              /\ UNCHANGED mutex
         ELSE /\ backup' = [backup EXCEPT ![b].pc = "succeeded", ![b].shares = FALSE]
              /\ mutex' = Nil /\ UNCHANGED dir
      /\ UNCHANGED <<restore, role, outlived, restored, stops>>

\* A failing command ends the script, and its trap removes every file of the name.
\* The trap of a signal removes them too, but does not end the script: before it
\* has any file it goes on without its lock, after the last rename it succeeds, and
\* in between the next command misses its file.
Outcomes(b) ==
  {"failed"} \cup
  (IF backup[b].pc = "identifying" THEN {"identifying"} ELSE {}) \cup
  (IF backup[b].count = Ciphertext THEN {"succeeded"} ELSE {})

StopBackup(b) ==
  /\ stops < MaxStops /\ stops' = stops + 1
  /\ backup[b].pc \in {"waiting", "identifying", "dumping", "publishing"}
  /\ \E then \in Outcomes(b) :
       backup' = [backup EXCEPT ![b] = [pc |-> "removing", count |-> 0, shares |-> FALSE, then |-> then]]
  /\ UNCHANGED <<dir, mutex, restore, role, outlived, restored>>

\* The files whose renaming the run remembers go first, each by itself, then the
\* others in the order rm is given.
RemoveFile(b) ==
  /\ backup[b].pc = "removing"
  /\ IF Files(b) = NoFiles
     THEN /\ backup' = [backup EXCEPT ![b].pc = backup[b].then]
          /\ mutex' = IF backup[b].then = "identifying" THEN b ELSE Nil
          /\ UNCHANGED dir
     ELSE /\ \E order \in {<<Checksum, Manifest, Signature, Ciphertext>>,
                           <<Ciphertext, Checksum, Manifest, Signature>>} :
               LET there == {i \in Parts : Files(b)[order[i]] # Nil}
                   first == CHOOSE i \in there : \A j \in there : i <= j
               IN  dir' = [dir EXCEPT ![NameOf[b]][order[first]] = Nil]
          /\ UNCHANGED <<mutex, backup>>
  /\ UNCHANGED <<restore, role, outlived, restored, stops>>

KillBackup(b) ==
  /\ stops < MaxStops /\ stops' = stops + 1
  /\ backup[b].pc \in Running
  /\ backup' = [backup EXCEPT ![b].shares = FALSE,
                  ![b].pc = IF @ = "removing" THEN "torn" ELSE "killed"]
  /\ mutex' = IF mutex = b THEN Nil ELSE mutex
  /\ UNCHANGED <<dir, restore, role, outlived, restored>>

--------------------------------------------------------------------------------
(* Guarded restore *)

Goto(r, pc) == restore' = [restore EXCEPT ![r].pc = pc]

\* The role's sessions other than those of r are terminated.
Terminate(r, pc) ==
  restore' = [s \in Restores |->
    IF s = r THEN [restore[s] EXCEPT !.pc = pc]
    ELSE IF restore[s].pc \in {"connecting"} \cup Connected
         THEN [restore[s] EXCEPT !.pc = "finalizing"]
    ELSE restore[s]]

\* Whoever is logged in stays so, whatever becomes of the role.
Outlive == outlived' = outlived \cup {s \in Restores : restore[s].pc = "connecting"}

\* The four files are copied one by one, the ciphertext first.
CopyFile(r) ==
  LET c == restore[r]
  IN  /\ UNCHANGED <<dir, mutex, backup, role, outlived, restored, stops>>
      /\ \/ /\ c.pc = "idle"
            /\ \E b \in Backups : /\ Files(b)[Ciphertext] # Nil
                                  /\ restore' = [restore EXCEPT ![r] =
                                       [pc |-> "copying", of |-> b,
                                        copy |-> [NoFiles EXCEPT ![Ciphertext] = Files(b)[Ciphertext]]]]
         \/ /\ c.pc = "copying"
            /\ LET left == {k \in Parts : c.copy[k] = Nil}
                   k    == CHOOSE i \in left : \A j \in left : i <= j
               IN  /\ left # {}
                   /\ IF Files(c.of)[k] = Nil THEN Goto(r, "ended")
                      ELSE restore' = [restore EXCEPT ![r].copy[k] = Files(c.of)[k]]

\* Hash, size and signature agree if the four are of one run.
Verify(r) ==
  /\ restore[r].pc = "copying" /\ \A k \in Parts : restore[r].copy[k] # Nil
  /\ Goto(r, IF \A k \in Parts : restore[r].copy[k] = restore[r].copy[Ciphertext] THEN "staged" ELSE "ended")
  /\ UNCHANGED <<dir, mutex, backup, role, outlived, restored, stops>>

\* One transaction under the lock.  Older authority is revoked and its sessions are
\* terminated; nobody sees the first before the commit.
Prepare(r) ==
  /\ restore[r].pc = "staged" /\ Unlocked
  /\ Terminate(r, "opening")
  /\ UNCHANGED <<dir, mutex, backup, role, outlived, restored, stops>>

\* A new password is set, the role may log in and act as owner, and all of it is
\* committed: who logged in with the old password meanwhile is still there.
CommitWindow(r) ==
  /\ restore[r].pc = "opening"
  /\ role' = [by |-> r, login |-> TRUE, member |-> TRUE]
  /\ Outlive /\ Goto(r, "preparing")
  /\ UNCHANGED <<dir, mutex, backup, restored, stops>>

\* Mutant: the trap of the failed preparation closes nothing.
AfterFailureEnded == "ended"
AfterFailure == "finalizing"

\* The state that was reached is compared; a failure closes the window again.
CheckPrepared(r) ==
  /\ restore[r].pc = "preparing"
  /\ \E pc \in {"prepared", AfterFailure} : Goto(r, pc)
  /\ UNCHANGED <<dir, mutex, backup, role, outlived, restored, stops>>

\* Mutant: one password serves every window.
LogsInAnyhow(r) == role.login
\* The password is the one generated for this window.
LogsIn(r) == role.by = r /\ role.login

\* The administrative session logs in, and then waits for the lock.
Connect(r) ==
  /\ restore[r].pc = "prepared"
  /\ Goto(r, IF LogsIn(r) THEN "connecting" ELSE "finalizing")
  /\ UNCHANGED <<dir, mutex, backup, role, outlived, restored, stops>>

LockAdmin(r) ==
  /\ restore[r].pc = "connecting" /\ Unlocked
  /\ Goto(r, IF restored = NoDatabase THEN "locked" ELSE "finalizing")
  /\ UNCHANGED <<dir, mutex, backup, role, outlived, restored, stops>>

\* A second session logs in and loads a new database in one transaction.
Load(r) ==
  /\ restore[r].pc = "locked"
  /\ Goto(r, IF LogsIn(r) THEN "loaded" ELSE "finalizing")
  /\ UNCHANGED <<dir, mutex, backup, role, outlived, restored, stops>>

\* Two statements, neither in a transaction: the name, then the owner.
Promote(r) ==
  /\ \/ /\ restore[r].pc = "loaded" /\ restored = NoDatabase
        /\ restored' = [from |-> restore[r].copy, owner |-> "restore_admin"]
        /\ Goto(r, "renamed")
     \/ /\ restore[r].pc = "renamed"
        /\ restored' = [restored EXCEPT !.owner = "owner"]
        /\ Goto(r, "finalizing")
  /\ UNCHANGED <<dir, mutex, backup, role, outlived, stops>>

\* An error or a signal on the way: the script's trap ends its sessions, the
\* wrapper's closes the window.  Only a signal while the window is being prepared
\* finds a wrapper that does not know yet that there is one.
StopRestore(r) ==
  /\ stops < MaxStops /\ stops' = stops + 1
  /\ \/ restore[r].pc \in {"copying", "staged"} /\ Goto(r, "ended")
     \/ restore[r].pc \in {"staged", "opening"} /\ Goto(r, "finalizing")  \* a failed transaction
     \/ restore[r].pc = "preparing" /\ Goto(r, "abandoned")
     \/ restore[r].pc \in {"prepared", "connecting"} \cup Connected /\ Goto(r, "finalizing")
  /\ UNCHANGED <<dir, mutex, backup, role, outlived, restored>>

\* Under the lock the role loses login and membership, and then its sessions.
CloseWindow(r) ==
  /\ restore[r].pc = "finalizing" /\ Unlocked
  /\ role' = Closed
  /\ Terminate(r, "ended")
  /\ UNCHANGED <<dir, mutex, backup, outlived, restored, stops>>

\* The closing script may end before it has closed anything (its audit log, its
\* connection) or after the commit with sessions left; the callers note its status.
FailToClose(r) ==
  /\ stops < MaxStops /\ stops' = stops + 1
  /\ restore[r].pc = "finalizing"
  /\ \/ Goto(r, "unclosed") /\ UNCHANGED <<role, outlived>>
     \/ Unlocked /\ role' = Closed /\ Outlive /\ Goto(r, "ended")
  /\ UNCHANGED <<dir, mutex, backup, restored>>

KillRestore(r) ==
  /\ stops < MaxStops /\ stops' = stops + 1
  /\ restore[r].pc \in Answering
  /\ Goto(r, "abandoned")
  /\ UNCHANGED <<dir, mutex, backup, role, outlived, restored>>

\* VALID UNTIL passes: nobody can log in any more; what is logged in stays, and so
\* does the membership.
Expire ==
  /\ role.login
  /\ role' = [role EXCEPT !.login = FALSE]
  /\ UNCHANGED <<dir, mutex, backup, restore, outlived, restored, stops>>

--------------------------------------------------------------------------------
CopiesInit ==
  /\ dir = [n \in {NameOf[b] : b \in Backups} |-> NoFiles]
  /\ mutex = Nil
  /\ backup = [b \in Backups |-> [pc |-> "idle", count |-> 0, shares |-> FALSE,
                             then |-> "failed"]]
  /\ restore = [r \in Restores |-> [pc |-> "idle", copy |-> NoFiles, of |-> CHOOSE b \in Backups : TRUE]]
  /\ role = Closed /\ outlived = {} /\ restored = NoDatabase /\ stops = 0

CopiesNext ==
  \/ \E b \in Backups : \/ LookForName(b) \/ TakeDirectory(b) \/ ShareLock(b) \/ Dump(b)
                        \/ Publish(b) \/ StopBackup(b) \/ RemoveFile(b) \/ KillBackup(b)
  \/ \E r \in Restores : \/ CopyFile(r) \/ Verify(r) \/ Prepare(r) \/ CommitWindow(r)
                         \/ CheckPrepared(r) \/ Connect(r) \/ LockAdmin(r) \/ Load(r)
                         \/ Promote(r) \/ StopRestore(r) \/ CloseWindow(r)
                         \/ FailToClose(r) \/ KillRestore(r)
  \/ Expire

CopiesSpec == CopiesInit /\ [][CopiesNext]_copiesVars

--------------------------------------------------------------------------------
(* Properties *)

\* No other run has worked under the name of b.
Unrivalled(b) == \A c \in Backups \ {b} :
  NameOf[c] = NameOf[b] => backup[c].pc \in {"idle", "named", "failed"}

\* A ciphertext in the directory has its three companions, whatever was killed and
\* whenever, unless its own run was stopped and is, or died, removing it, or another
\* run worked under its name (backup-db.sh:170); and a restored database came from
\* the files of one run, although files may be replaced and removed while they are
\* copied (stage-restore-inputs.sh:113).
BackupsAreWhole ==
  /\ \A b \in Backups :
       Files(b)[Ciphertext] = b /\ backup[b].pc \notin {"removing", "torn"} /\ Unrivalled(b)
         => \A k \in Parts : Files(b)[k] = b
  /\ \A k \in Parts : restored.from[k] = restored.from[Ciphertext]

\* Whoever opened the window that is open is still to close it, but for a wrapper that
\* was killed, or signalled while it prepared the window, and one whose closing script
\* failed, which it tries once (run-guarded-restore.sh:39-41).
WindowIsAnswered ==
  role.member => restore[role.by].pc \in Answering \cup {"abandoned", "unclosed"}

\* A restore that has the lock works with the window it opened, and keeps it until it
\* has promoted its database: no other restore ends it or takes it over.  Only one that
\* was logged in when another opened its window (prepare-restore-window.sh:57-69), or
\* when a closing script failed half-way, may find itself with the lock and without the
\* window, and it loads nothing.
AuthorityLasts ==
  \A r \in Restores :
    /\ restore[r].pc \in Connected \ {"locked"} => role.by = r /\ role.member
    /\ restore[r].pc = "locked" /\ r \notin outlived => role.by = r /\ role.member
==============================================================================
