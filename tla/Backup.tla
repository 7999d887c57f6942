------------------------------- MODULE Backup -------------------------------
(***************************************************************************)
(* The command "db backup" (cmd/xisnove-server/backup.go, adapters/backup) *)
(* with several commands for one destination, while a server writes to the *)
(* source.  Every call may fail.  A process may be killed between any two  *)
(* calls.                                                                  *)
(*                                                                         *)
(* The file system and SQLite's online backup are external: a step copies  *)
(* pages of the source as it is when the step begins, a write by another   *)
(* process makes the next step start over, and the copy becomes the        *)
(* content of the destination when it is finished.                         *)
(***************************************************************************)
EXTENDS Integers

CONSTANTS
  Copier,       \* backup commands
  SourcePages,  \* the pages of the source, in steps of 128
  MaxWrites     \* bound on the writes to the source

ASSUME BackupAssumption ==
  /\ SourcePages \in Nat \ {0} /\ MaxWrites \in Nat
  /\ {"nobody", "operator"} \cap Copier = {}

VARIABLES
  source,       \* the version of the source
  file,         \* what is at the destination
  copying       \* what each command is doing

backupVars == <<source, file, copying>>

(* A file belongs to the command that reserved it, or to the operator.     *)
Absent == [by |-> "nobody", content |-> -1, whole |-> FALSE, synced |-> FALSE, private |-> FALSE]
Kept == [by |-> "operator", content |-> 0, whole |-> TRUE, synced |-> TRUE, private |-> FALSE]

Idle == [pc |-> "idle", reserved |-> 0, copied |-> 0, from |-> -1]

BackupInit ==
  /\ source = 0
  /\ file \in {Absent, Kept}
  /\ copying = [c \in Copier |-> Idle]
-----------------------------------------------------------------------------
Copying(c, pc) == copying[c].pc = pc
Proceed(c, pc) == copying' = [copying EXCEPT ![c].pc = pc]

\* Mutant: a file that a backup left, or is writing, is taken over.
NotTheOperators == file.by # "operator"

\* O_EXCL
Exclusive == file = Absent

\* createSQLite reserves the destination for itself alone.
Reserve(c) ==
  /\ Copying(c, "idle")
  /\ IF Exclusive
     THEN /\ file' = [Absent EXCEPT !.by = c, !.private = TRUE]
          /\ copying' = [copying EXCEPT ![c].pc = "open", ![c].reserved = source]
     ELSE Proceed(c, "exists") /\ UNCHANGED file
  /\ UNCHANGED source

\* A connection of its own, and NewBackup.
NewBackup(c) ==
  /\ Copying(c, "open")
  /\ copying' = [copying EXCEPT ![c].pc = "step", ![c].from = source]
  /\ UNCHANGED <<source, file>>

\* Step(128): what was copied of an older source is copied again.
Step(c) ==
  LET k == copying[c] IN
  /\ Copying(c, "step") /\ k.copied < SourcePages
  /\ copying' = [copying EXCEPT ![c].from = source, ![c].copied = IF k.from = source THEN k.copied + 1 ELSE 1]
  /\ UNCHANGED <<source, file>>

\* The copy becomes the content of what is at the destination.
FinishBackup(c) ==
  /\ Copying(c, "step") /\ copying[c].copied = SourcePages
  /\ file' = [file EXCEPT !.content = copying[c].from, !.whole = TRUE]
  /\ Proceed(c, "restrict")
  /\ UNCHANGED source

\* Chmod, and the file is opened again and synced.
MakePrivate(c) ==
  /\ Copying(c, "restrict")
  /\ file' = [file EXCEPT !.private = TRUE]
  /\ Proceed(c, "sync")
  /\ UNCHANGED source

Sync(c) ==
  /\ Copying(c, "sync")
  /\ file' = [file EXCEPT !.synced = TRUE]
  /\ Proceed(c, "succeeded")
  /\ UNCHANGED source

\* Any call fails: what was reserved is removed, if that does not fail too.
CreateFails(c) ==
  /\ copying[c].pc \in {"open", "step", "restrict", "sync"}
  /\ \/ file' = Absent /\ Proceed(c, "failed")
     \/ UNCHANGED file /\ Proceed(c, "not removed")
  /\ UNCHANGED source

\* Killed: nothing is removed.  SQLite undoes a copy that was not finished.
Killed(c) ==
  /\ copying[c].pc \in {"open", "step", "restrict", "sync"}
  /\ Proceed(c, "killed")
  /\ UNCHANGED <<source, file>>

\* The result is told, and the command may be run again.
Ended(c) ==
  /\ copying[c].pc \in {"exists", "failed", "not removed", "killed", "succeeded"}
  /\ copying' = [copying EXCEPT ![c] = Idle]
  /\ UNCHANGED <<source, file>>

\* The operator removes what a killed command left.
CleanUp ==
  /\ file.by \in Copier /\ \A c \in Copier : Copying(c, "idle")
  /\ file' = Absent
  /\ UNCHANGED <<source, copying>>

\* The server writes.
WriteSource ==
  /\ source < MaxWrites /\ source' = source + 1
  /\ UNCHANGED <<file, copying>>

BackupNext ==
  \/ \E c \in Copier : \/ Reserve(c) \/ NewBackup(c) \/ Step(c) \/ FinishBackup(c) \/ MakePrivate(c) \/ Sync(c)
                       \/ CreateFails(c) \/ Killed(c) \/ Ended(c)
  \/ CleanUp \/ WriteSource

BackupSpec == BackupInit /\ [][BackupNext]_backupVars
-----------------------------------------------------------------------------
(***************************************************************************)
(* Properties.                                                             *)
(***************************************************************************)
\* What a step of the command c may come to.
EndsWhole(c) ==
  LET Turns(pc) == ~ Copying(c, pc) /\ copying'[c].pc = pc IN
  /\ Turns("succeeded") => /\ file'.by = c /\ file'.whole /\ file'.synced /\ file'.private
                           /\ file'.content \in copying[c].reserved .. source
  /\ Turns("failed") => file' = Absent
  /\ file.by = c /\ file'.by # c => ~ copying'[c].pc \in {"open", "step", "restrict", "sync"}

\* A backup is reported done only when the file it reserved holds the whole
\* source as it was at one moment since, synced and private; reported failed
\* without more, only when nothing is left of it.  What it did not create it
\* never touches ("the destination must not already exist; partial output is
\* removed on failure").
WholeOrNothing ==
  [][/\ file.by = "operator" => file' = file
     /\ \A c \in Copier : EndsWhole(c)]_backupVars
=============================================================================
