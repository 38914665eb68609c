--------------------------- MODULE MCBackupManager ---------------------------
(* BackupManager with a policy that counts and keeps by interval. *)
EXTENDS BackupManager
NewestOfIntervals == {[last |-> 1, buckets |-> 2, minAge |-> 1]}
\* What is never read again: a record that is neither listed nor worked on, and,
\* without a further crash, a row that only a new statement would make the table's word.
Live == [n \in Ids |-> IF n \in backups \cup {Id(c) : c \in Callers} THEN obj[n] ELSE NoBackup]
LiveRows == [n \in Ids |-> IF crashes = MaxCrashes /\ n \in dirty THEN NoBackup ELSE rows[n]]
View == <<clock, settings, Live, backups, LiveRows, hostVars, op, crashes, ghosts>>
=============================================================================
