---------------------------- MODULE BackupManager ----------------------------
(***************************************************************************)
(* pkg/backup/backup.go and internal/datastore/backups.go: the backups of  *)
(* one instance, created, verified, restored, deleted and pruned, with the *)
(* snapshots and stream files on the host, the rows that let a restart     *)
(* find them again and a daemon that may crash between any two of these.   *)
(*                                                                         *)
(* Records are numbered in the order of their creation, 1, 2, 3 ...; sec   *)
(* gives each the second it was created in, named after its first record,  *)
(* and that second is the backup's ID and the name of its snapshot, of its *)
(* file and of its row.  Two creations may fall into one second.  bm.mu is *)
(* never held across a command or a statement: a step is one section under *)
(* it, one command or one statement.  The destination is a local directory.*)
(***************************************************************************)
EXTENDS Integers, FiniteSets, FiniteSetsExt

CONSTANTS
    Callers,        \* API calls and schedule loops in progress at the same time
    MaxBackups,     \* bound: backups ever created
    MaxCrashes,     \* bound: crashes of the daemon
    MaxShared,      \* bound: creations in the second of the one before
    Policies,       \* retention policies a configuration may have
    BucketLen,      \* length of keepByInterval's interval
    DbOutcomes      \* what a database statement may do: FALSE = error

NoPolicy == [last |-> -1, buckets |-> 0, minAge |-> 0]

ASSUME BackupBounds ==
    MaxBackups \in Nat /\ MaxCrashes \in Nat /\ MaxShared \in Nat /\ BucketLen \in Nat \ {0}
ASSUME PoliciesAreRetention == Policies \subseteq [last : Nat, buckets : Nat, minAge : Nat]
ASSUME StatementsSucceedOrFail == DbOutcomes \subseteq BOOLEAN

VARIABLES
    clock,      \* the number of the latest creation
    sec,        \* the second of each creation
    obj,        \* the BackupInfo of each creation
    backups,    \* bm.backups[instance]: the records it lists
    rows,       \* the backups table: the record of each row
    snaps,      \* backup snapshots on the dataset
    files,      \* stream files in the destination
    config,     \* the stored configuration of the instance, as its retention policy
    configured, \* whether bm.configs has it: this daemon could read it
    op,         \* each caller's operation
    crashes,
    dirty,      \* ghost: rows a statement of this daemon failed on
    strays,     \* ghost: data a crash left without a record
    partials,   \* ghost: files of failed streams that could not be removed
    unread      \* ghost: rows this daemon could not read when it started

memVars == <<obj, backups>>
hostVars == <<snaps, files>>
settings == <<sec, config, configured, unread>>
ghosts == <<dirty, strays, partials>>
vars == <<clock, settings, memVars, rows, hostVars, op, crashes, ghosts>>

Ids == 1..MaxBackups
Types == {"snapshot", "full", "incremental"}
BackupInfos == [type : Types \cup {"none"}, status : {"running", "completed", "failed"},
                base : Ids \cup {0}, located : BOOLEAN, verified : BOOLEAN]
NoBackup == [type |-> "none", status |-> "running", base |-> 0,
             located |-> FALSE, verified |-> FALSE]
PCs == {"idle", "hook", "base", "open", "send", "unsnap", "append", "save", "retain",
        "prune", "destroy", "remove", "putBack", "deleteRow", "mark"}
Operations == [pc : PCs, id : Ids \cup {0}, policy : Policies \cup {NoPolicy},
               todo : SUBSET Ids]
Idle == [pc |-> "idle", id |-> 0, policy |-> NoPolicy, todo |-> {}]

TypeOK ==
    /\ clock \in Ids \cup {0} /\ sec \in [Ids -> Ids]
    /\ obj \in [Ids -> BackupInfos] /\ rows \in [Ids -> BackupInfos]
    /\ backups \subseteq Ids /\ snaps \subseteq Ids
    /\ files \subseteq Ids
    /\ config \in Policies \cup {NoPolicy} /\ configured \in BOOLEAN
    /\ op \in [Callers -> Operations]
    /\ crashes \in 0..MaxCrashes
    /\ dirty \subseteq Ids /\ strays \subseteq Ids
    /\ partials \subseteq Ids /\ unread \subseteq Ids

Init ==
    /\ clock = 0 /\ crashes = 0 /\ sec = [n \in Ids |-> n]
    /\ obj = [n \in Ids |-> NoBackup] /\ rows = [n \in Ids |-> NoBackup]
    /\ backups = {} /\ snaps = {} /\ files = {}
    /\ config \in Policies \cup {NoPolicy} /\ configured = TRUE
    /\ op = [c \in Callers |-> Idle]
    /\ dirty = {} /\ strays = {} /\ partials = {} /\ unread = {}

-----------------------------------------------------------------------------
At(c, pc) == op[c].pc = pc
Go(c, pc) == op' = [op EXCEPT ![c].pc = pc]
Finish(c) == op' = [op EXCEPT ![c] = Idle]
Id(c) == op[c].id
\* What the snapshot, the file and the row of the caller's backup are called.
Second(c) == sec[Id(c)]

\* GetConfig.
Config == IF configured THEN config ELSE NoPolicy

HasRow(n) == rows[n].type # "none"

\* baseReferenceLocked: a listed record of another ID, even a failed one, names the
\* snapshot of n as its base.
IsBase(n) == \E k \in backups : sec[k] # sec[n] /\ obj[k].base = sec[n]

\* Mutant of Chainable: a failed backup is chained onto as well.
MutChainable == {n \in backups : obj[n].type # "snapshot"}

\* findPreviousSnapshot: the newest completed backup with a stored stream.
Chainable == {n \in backups : obj[n].status = "completed" /\ obj[n].located}
PreviousSnapshot == IF Chainable = {} THEN 0 ELSE sec[Max(Chainable)]

\* The records retention keeps: the newest ones, and the newest of each of the
\* newest intervals.  It keeps them by ID, and so the others of that second.
Newest(S, k) == {n \in S : Cardinality({x \in S : x > n}) < k}
Bucket(n) == sec[n] \div BucketLen
BucketHeads(S) == {n \in S : \A x \in S : Bucket(x) = Bucket(n) => x <= n}
Keep(p) == Newest(backups, p.last) \cup Newest(BucketHeads(backups), p.buckets)
Kept(p) == {n \in backups : \E k \in Keep(p) : sec[k] = sec[n]}
KeepsAll(p) == p.last <= 0 /\ p.buckets = 0

-----------------------------------------------------------------------------
(* CreateSnapshot and CreateBackup.  The latter needs a configuration.  The *)
(* ID is the time to the second, which may be the one of the creation before. *)
Shared(n) == \E k \in Ids \ {n} : sec[k] = sec[n]

BeginCreate(c, type) ==
    /\ At(c, "idle") /\ clock < MaxBackups
    /\ type # "snapshot" => Config # NoPolicy
    /\ clock' = clock + 1
    /\ \/ UNCHANGED sec
       \/ /\ clock > 0 /\ Cardinality({n \in Ids : sec[n] # n}) < MaxShared
          /\ sec' = [sec EXCEPT ![clock + 1] = sec[clock]]
    /\ obj' = [obj EXCEPT ![clock + 1] = [NoBackup EXCEPT !.type = type]]
    /\ op' = [op EXCEPT ![c] = [Idle EXCEPT !.pc = "hook", !.id = clock + 1,
                                            !.policy = Config]]
    /\ UNCHANGED <<config, configured, unread, backups, rows, hostVars, crashes, ghosts>>

\* The pre-backup hook and "zfs snapshot -r", either of which may fail; the latter
\* does when there is a snapshot of that name.
TakeSnapshot(c) ==
    /\ At(c, "hook")
    /\ Second(c) \notin snaps
    /\ snaps' = snaps \cup {Second(c)}
    /\ IF obj[Id(c)].type = "snapshot"
       THEN obj' = [obj EXCEPT ![Id(c)].status = "completed"] /\ Go(c, "append")
       ELSE Go(c, IF obj[Id(c)].type = "full" THEN "open" ELSE "base") /\ UNCHANGED obj
    /\ UNCHANGED <<clock, settings, backups, rows, files, crashes, ghosts>>

SnapshotFails(c) ==
    /\ At(c, "hook")
    /\ obj' = [obj EXCEPT ![Id(c)].status = "failed"]
    /\ Go(c, "append")
    /\ UNCHANGED <<clock, settings, backups, rows, hostVars, crashes, ghosts>>

\* An incremental without anything to chain onto becomes a full backup.
ChooseBase(c) ==
    /\ At(c, "base")
    /\ obj' = [obj EXCEPT ![Id(c)].base = PreviousSnapshot,
                          ![Id(c)].type = IF PreviousSnapshot = 0 THEN "full" ELSE @]
    /\ Go(c, "open")
    /\ UNCHANGED <<clock, settings, backups, rows, hostVars, crashes, ghosts>>

\* streamToFile creates the file, which must not exist ...
OpenStream(c) ==
    /\ At(c, "open")
    /\ Second(c) \notin files
    /\ files' = files \cup {Second(c)}
    /\ Go(c, "send")
    /\ UNCHANGED <<clock, settings, memVars, rows, snaps, crashes, ghosts>>

\* ... zfs send fills it, which needs the base's snapshot ...
SendStream(c) ==
    /\ At(c, "send")
    /\ Second(c) \in snaps
    /\ obj[Id(c)].base \in snaps \cup {0}
    /\ obj' = [obj EXCEPT ![Id(c)].located = TRUE, ![Id(c)].status = "completed"]
    /\ Go(c, "append")
    /\ UNCHANGED <<clock, settings, backups, rows, hostVars, crashes, ghosts>>

\* ... or the file, if it was created, is removed again.  The error of os.Remove is
\* ignored, and the failed record, which names no file, will not remove it either.
StreamFails(c) ==
    /\ op[c].pc \in {"open", "send"}
    /\ \/ At(c, "open") /\ UNCHANGED <<files, partials>>
       \/ At(c, "send") /\ files' = files \ {Second(c)} /\ UNCHANGED partials
       \/ At(c, "send") /\ partials' = partials \cup {Second(c)} /\ UNCHANGED files
    /\ obj' = [obj EXCEPT ![Id(c)].status = "failed"]
    /\ Go(c, "unsnap")
    /\ UNCHANGED <<clock, settings, backups, rows, snaps, crashes, dirty, strays>>

\* destroySnapshot after a failed stream; its own failure is only logged.
CleanSnapshot(c) ==
    /\ At(c, "unsnap")
    /\ snaps' \in {snaps, snaps \ {Second(c)}}
    /\ Go(c, "append")
    /\ UNCHANGED <<clock, settings, memVars, rows, files, crashes, ghosts>>

\* addBackup: the record is listed, then written.
AddBackup(c) ==
    /\ At(c, "append")
    /\ backups' = backups \cup {Id(c)}
    /\ Go(c, "save")
    /\ UNCHANGED <<clock, settings, obj, rows, hostVars, crashes, ghosts>>

\* Mutant of AfterSave: a failed creation prunes as well.
MutAfterSave(c) == IF KeepsAll(op[c].policy) THEN Finish(c) ELSE Go(c, "retain")

\* persistBackup, whose failure is only logged.  A completed creation goes on to
\* applyRetention, which returns at once when no rule is set.
AfterSave(c) ==
    IF obj[Id(c)].status = "completed" /\ ~KeepsAll(op[c].policy)
    THEN Go(c, "retain")
    ELSE Finish(c)

PersistBackup(c) ==
    /\ At(c, "save")
    /\ \/ /\ TRUE \in DbOutcomes
          /\ rows' = [rows EXCEPT ![Second(c)] = obj[Id(c)]]
          /\ dirty' = dirty \ {Second(c)}
       \/ /\ FALSE \in DbOutcomes
          /\ dirty' = dirty \cup {Second(c)}
          /\ UNCHANGED rows
    /\ AfterSave(c)
    /\ UNCHANGED <<clock, settings, memVars, hostVars, crashes, strays, partials>>

-----------------------------------------------------------------------------
(* applyRetention: a copy of the list is taken, and what the policy does not *)
(* keep and is old enough is deleted, newest first.                          *)
Retain(c) ==
    /\ At(c, "retain")
    /\ LET p == op[c].policy
           old == {n \in backups : clock - n >= p.minAge}
       IN  op' = [op EXCEPT ![c].pc = "prune", ![c].todo = old \ Kept(p)]
    /\ UNCHANGED <<clock, settings, memVars, rows, hostVars, crashes, ghosts>>

\* DeleteBackup's first section claims the record it finds under the ID, so that nobody
\* else removes the same data.  Of two records of one second it may be either.
Claim(c, n) ==
    /\ \E k \in backups :
          /\ sec[k] = sec[n] /\ ~IsBase(k)
          /\ backups' = backups \ {k}
          /\ op' = [op EXCEPT ![c].pc = "destroy", ![c].id = k, ![c].todo = @ \ {n}]
    /\ UNCHANGED <<clock, settings, obj, rows, hostVars, crashes, ghosts>>

PruneClaim(c) ==
    /\ At(c, "prune") /\ op[c].todo # {}
    /\ Claim(c, Max(op[c].todo))

\* A base, and a record somebody else has deleted, are left alone.
PruneSkip(c) ==
    /\ At(c, "prune") /\ op[c].todo # {}
    /\ LET n == Max(op[c].todo)
       IN  /\ (\A k \in backups : sec[k] # sec[n]) \/ IsBase(n)
           /\ op' = [op EXCEPT ![c].todo = @ \ {n}]
    /\ UNCHANGED <<clock, settings, memVars, rows, hostVars, crashes, ghosts>>

PruneDone(c) ==
    /\ At(c, "prune") /\ op[c].todo = {}
    /\ Finish(c)
    /\ UNCHANGED <<clock, settings, memVars, rows, hostVars, crashes, ghosts>>

-----------------------------------------------------------------------------
(* DeleteBackup.  Called by applyRetention, it returns there. *)
Return(c) == IF op[c].policy = NoPolicy THEN Finish(c) ELSE Go(c, "prune")

DeleteBackup(c, n) == At(c, "idle") /\ Claim(c, n)

\* removeBackupData: the snapshot first, where one that is gone is no failure ...
DestroySnapshot(c) ==
    /\ At(c, "destroy")
    /\ \/ snaps' = snaps \ {Second(c)} /\ Go(c, "remove")
       \/ Second(c) \in snaps /\ Go(c, "putBack") /\ UNCHANGED snaps
    /\ UNCHANGED <<clock, settings, memVars, rows, files, crashes, ghosts>>

\* ... then the file of a backup that has one.
RemoveFile(c) ==
    /\ At(c, "remove")
    /\ \/ /\ files' = IF obj[Id(c)].located THEN files \ {Second(c)} ELSE files
          /\ Go(c, "deleteRow")
       \/ /\ obj[Id(c)].located /\ Second(c) \in files
          /\ Go(c, "putBack")
          /\ UNCHANGED files
    /\ UNCHANGED <<clock, settings, memVars, rows, snaps, crashes, ghosts>>

\* Mutant of PutBack: the record of a failed deletion stays off the list.
MutPutBack(c) ==
    /\ At(c, "putBack")
    /\ Return(c)
    /\ UNCHANGED <<clock, settings, memVars, rows, hostVars, crashes, ghosts>>

\* What the backup left behind is still there: its record is listed again.
PutBack(c) ==
    /\ At(c, "putBack")
    /\ backups' = backups \cup {Id(c)}
    /\ Return(c)
    /\ UNCHANGED <<clock, settings, obj, rows, hostVars, crashes, ghosts>>

DeleteBackupRecord(c) ==
    /\ At(c, "deleteRow")
    /\ \/ /\ TRUE \in DbOutcomes
          /\ rows' = [rows EXCEPT ![Second(c)] = NoBackup]
          /\ dirty' = dirty \ {Second(c)}
       \/ /\ FALSE \in DbOutcomes
          /\ dirty' = dirty \cup {Second(c)}
          /\ UNCHANGED rows
    /\ Return(c)
    /\ UNCHANGED <<clock, settings, memVars, hostVars, crashes, strays, partials>>

-----------------------------------------------------------------------------
(* VerifyBackup: the checks run without the lock, on a pointer ... *)
Intact(n) ==
    IF obj[n].type = "snapshot"
    THEN sec[n] \in snaps
    ELSE obj[n].located /\ sec[n] \in files /\ (obj[n].type = "incremental" => obj[n].base \in snaps)

VerifyBackup(c, n) ==
    /\ At(c, "idle") /\ n \in backups
    /\ Intact(n)
    /\ op' = [op EXCEPT ![c] = [Idle EXCEPT !.pc = "mark", !.id = n]]
    /\ UNCHANGED <<clock, settings, memVars, rows, hostVars, crashes, ghosts>>

\* Mutant of MarkVerified: the mark is kept in memory only.
MutMarkVerified(c) ==
    /\ At(c, "mark")
    /\ obj' = [obj EXCEPT ![Id(c)].verified = TRUE]
    /\ Finish(c)
    /\ UNCHANGED <<clock, settings, backups, rows, hostVars, crashes, ghosts>>

\* ... then the record is marked, and written again.
MarkVerified(c) ==
    /\ At(c, "mark")
    /\ obj' = [obj EXCEPT ![Id(c)].verified = TRUE]
    /\ Go(c, "save")
    /\ UNCHANGED <<clock, settings, backups, rows, hostVars, crashes, ghosts>>

-----------------------------------------------------------------------------
(* Restore, in place; into another instance it changes nothing here.  A    *)
(* snapshot is rolled back to, which destroys the later ones.              *)
Rollback(c, n) ==
    /\ At(c, "idle") /\ n \in backups
    /\ obj[n].type = "snapshot" /\ sec[n] \in snaps
    /\ snaps' = {k \in snaps : k <= sec[n]}
    /\ UNCHANGED <<clock, settings, memVars, rows, files, op, crashes, ghosts>>

\* zfs receive -F of an incremental stream needs its base, and rolls back to it.
\* One of a full stream is refused by a dataset that has snapshots; over one that
\* has lost them all it is left out.
Receive(c, n) ==
    /\ At(c, "idle") /\ n \in backups
    /\ obj[n].type = "incremental" /\ obj[n].located /\ sec[n] \in files
    /\ obj[n].base \in snaps
    /\ snaps' = {k \in snaps : k <= obj[n].base} \cup {sec[n]}
    /\ UNCHANGED <<clock, settings, memVars, rows, files, op, crashes, ghosts>>

-----------------------------------------------------------------------------
\* The daemon dies, and its successor's reload lists what the rows say.  When the
\* instances cannot be read it has neither configuration nor list, when the records
\* cannot be read, which it tries next, no list: the daemon logs the error and serves on.
Crash(readsInstances, readsRecords) ==
    /\ crashes < MaxCrashes /\ crashes' = crashes + 1
    /\ readsRecords => readsInstances
    /\ configured' = readsInstances
    /\ LET stored == {n \in Ids : HasRow(n)} IN
          IF readsRecords
          THEN backups' = stored /\ unread' = {}
          ELSE backups' = {} /\ unread' = stored
    /\ obj' = rows
    /\ op' = [c \in Callers |-> Idle]
    /\ strays' = {n \in Ids : (n \in snaps \/ n \in files) /\ ~HasRow(n)}
    /\ dirty' = {}
    /\ UNCHANGED <<clock, sec, config, rows, hostVars, partials>>

CallerStep(c) ==
    \/ TakeSnapshot(c) \/ SnapshotFails(c) \/ ChooseBase(c)
    \/ OpenStream(c) \/ SendStream(c) \/ StreamFails(c) \/ CleanSnapshot(c)
    \/ AddBackup(c) \/ PersistBackup(c)
    \/ Retain(c) \/ PruneClaim(c) \/ PruneSkip(c) \/ PruneDone(c)
    \/ DestroySnapshot(c) \/ RemoveFile(c) \/ PutBack(c) \/ DeleteBackupRecord(c)
    \/ MarkVerified(c)

Next ==
    \/ \E c \in Callers :
        \/ CallerStep(c)
        \/ \E type \in Types : BeginCreate(c, type)
        \/ \E n \in backups : \/ DeleteBackup(c, n) \/ VerifyBackup(c, n)
                              \/ Rollback(c, n) \/ Receive(c, n)
    \/ \E readsInstances, readsRecords \in DbOutcomes : Crash(readsInstances, readsRecords)

Spec == Init /\ [][Next]_vars

-----------------------------------------------------------------------------
(* Properties. *)
Creating(c) == op[c].pc \in {"hook", "base", "open", "send", "unsnap", "append"}
Deleting(c) == op[c].pc \in {"destroy", "remove", "putBack", "deleteRow"}
Owns(c, n) == Id(c) = n /\ (Creating(c) \/ Deleting(c))

\* DeleteBackup's "deleting the base leaves that incremental unrestorable": the
\* stream a listed, stored incremental was sent against is stored too, however
\* deletions fail or are interrupted.
ChainsRestorable ==
    \A n \in backups :
        (obj[n].type = "incremental" /\ obj[n].status = "completed" /\ sec[n] \in files
            /\ ~Shared(n))
            => obj[n].base \in files \/ Shared(obj[n].base)

\* No snapshot and no stream file is left without somebody to remove it: a listed
\* record, for a file one that names it, or an operation under way.  Only a crash, a
\* file that os.Remove left or a start that could not read the records may leave some;
\* what two creations of one second leave is another matter.
DataIsOwned ==
    \A n \in Ids \ (strays \cup unread) :
        ~Shared(n) /\ (\A c \in Callers : ~Owns(c, n)) =>
            /\ n \in snaps => n \in backups
            /\ n \in files \ partials => n \in backups /\ obj[n].located

\* What retention prunes is not among the newest KeepLast, and a newer completed
\* backup remains: applyRetention never removes the last good one.
RetentionSparesNewest ==
    [][\A n \in backups, c \in Callers :
        (At(c, "prune") /\ op'[c].pc = "destroy" /\ n \notin backups')
            => /\ Cardinality({k \in backups : k > n}) >= op[c].policy.last
               /\ \E k \in backups' : k > n /\ obj[k].status = "completed"]_vars

\* Between operations the table holds exactly the listed records, verification
\* marks included, so that a restart changes nothing; and it still holds the records
\* that the last start could not read.  A failed statement is excepted, and a second
\* two creations share: they have one row.
RestartChangesNothing ==
    (\A c \in Callers : At(c, "idle")) =>
        \A n \in Ids \ dirty : ~Shared(n) =>
            /\ HasRow(n) <=> n \in backups \cup unread
            /\ n \in backups => rows[n] = obj[n]

-----------------------------------------------------------------------------
(* The inductive invariant of DataIsOwned, for any number of callers and   *)
(* creations that fall into seconds of their own: who creates or deletes a *)
(* backup is alone with it, and it is not listed.                          *)
DistinctSeconds == sec = [n \in Ids |-> n]

OpFits(c) ==
    /\ At(c, "idle") => op[c] = Idle
    /\ ~At(c, "idle") => /\ Id(c) \in 1..clock /\ Id(c) \notin strays \cup unread
                          /\ obj[Id(c)].type # "none"
    /\ op[c].todo \subseteq 1..clock
    /\ Creating(c) => ~HasRow(Id(c)) /\ \A d \in Callers \ {c} : Id(d) # Id(c)
    /\ Creating(c) \/ Deleting(c) =>
          Id(c) \notin backups /\ \A d \in Callers \ {c} : ~Owns(d, Id(c))
    /\ Creating(c) /\ ~At(c, "append") => ~obj[Id(c)].located
    /\ At(c, "send") => Id(c) \in files
    /\ op[c].pc \in {"hook", "base", "open", "send"} => Id(c) \notin partials
    /\ op[c].pc \in {"remove", "deleteRow"} => Id(c) \notin snaps
    /\ At(c, "deleteRow") => Id(c) \notin files \ partials

OpsFit == \A c \in Callers : OpFits(c)

RecordsFit ==
    /\ \A n \in backups \cup snaps \cup files \cup strays \cup partials : n <= clock
    /\ \A n \in Ids : HasRow(n) =>
          /\ n <= clock
          /\ rows[n].type = obj[n].type /\ rows[n].status = obj[n].status
          /\ rows[n].base = obj[n].base /\ rows[n].located = obj[n].located
    /\ \A n \in backups : obj[n].type # "none"
    /\ \A n \in Ids : HasRow(n) \/ rows[n] = NoBackup
    /\ \A n \in strays : n \notin backups /\ ~HasRow(n) /\ obj[n] = NoBackup
    /\ \A n \in unread : n \notin backups /\ HasRow(n)

FilesFit ==
    \A n \in files : \/ obj[n].located \/ n \in strays \cup partials
                     \/ \E c \in Callers : Id(c) = n /\ At(c, "send")

OwnedByWhom ==
    \A n \in snaps \cup (files \ partials) :
        n \in backups \cup strays \cup unread \/ \E c \in Callers : Owns(c, n)

OwnershipInv == TypeOK /\ DistinctSeconds /\ OpsFit /\ RecordsFit /\ FilesFit /\ OwnedByWhom

(* The other properties need operations that do not overlap: of two that   *)
(* do, one deletes the base the other is about to chain onto.  An in-place *)
(* restore, a single step here, may come between the steps of another.     *)
OneAtATime ==
    \A c, d \in Callers : ~At(c, "idle") /\ ~At(d, "idle") => c = d

\* A record names a base before it, and a stored stream whose snapshot is there
\* is there itself.  Nobody is a base while it is created or its data deleted,
\* and the base of a stream being sent has been stored.
BaseFits(n) ==
    /\ obj[n].base <= clock /\ obj[n].base # n
    /\ obj[n].located /\ n \in snaps => n \in files
    /\ n \in partials => obj[n].status # "completed"

\* What the last start could not read was chained onto what nobody lists.
UnreadFits(n) ==
    obj[n].base \notin backups /\ \A c \in Callers : Deleting(c) => Id(c) # obj[n].base

StreamFits(c) ==
    /\ Creating(c) => \A n \in Ids : obj[n].base # Id(c)
    /\ op[c].pc \in {"hook", "base", "open", "send"} => obj[Id(c)].status = "running"
    /\ op[c].pc \in {"open", "send"} /\ obj[Id(c)].type = "incremental"
          => obj[Id(c)].base # 0 /\ obj[obj[Id(c)].base].located
    /\ op[c].pc \in {"destroy", "remove"} => ~IsBase(Id(c))

BasesFit ==
    /\ \A n \in Ids : BaseFits(n)
    /\ \A n \in unread : UnreadFits(n)
    /\ \A c \in Callers : StreamFits(c)

ChainInv ==
    \A n \in files : obj[n].type = "incremental" /\ obj[n].status = "completed"
        => obj[n].base \in files

\* The row of a record nobody is working on says what the record says.
AtRest(n) == (HasRow(n) <=> n \in backups \cup unread) /\ (n \in backups => rows[n] = obj[n])
WorksOn(c, n) == Id(c) = n /\ op[c].pc \notin {"idle", "retain", "prune"}

RowFits(c) ==
    /\ op[c].pc \in {"save", "mark"} => Id(c) \in backups
    /\ op[c].pc \in {"destroy", "remove", "putBack"} /\ Id(c) \notin dirty =>
          HasRow(Id(c)) /\ rows[Id(c)] = obj[Id(c)]

RowsInv ==
    /\ \A n \in Ids \ dirty : AtRest(n) \/ \E c \in Callers : WorksOn(c, n)
    /\ \A c \in Callers : RowFits(c)

\* Retention starts from a completed backup that is the newest, and what it is
\* still to delete has enough newer ones that it is not to delete.
Pruning(c) == At(c, "prune") \/ (Deleting(c) /\ op[c].policy # NoPolicy)

RetentionFits(c) ==
    /\ Creating(c) => Id(c) = clock
    /\ At(c, "save") /\ op[c].policy # NoPolicy => Id(c) = clock
    /\ At(c, "mark") => op[c].policy = NoPolicy
    /\ At(c, "retain") => Id(c) = clock /\ ~KeepsAll(op[c].policy)
    /\ At(c, "retain") \/ Pruning(c) =>
          clock \in backups /\ obj[clock].status = "completed" /\ op[c].policy # NoPolicy
    /\ Pruning(c) =>
          /\ clock \notin op[c].todo
          /\ \A n \in op[c].todo :
                Cardinality({k \in backups \ op[c].todo : k > n}) >= op[c].policy.last

RetentionInv == \A c \in Callers : RetentionFits(c)

SerialInv == BasesFit /\ ChainInv /\ RowsInv /\ RetentionInv
=============================================================================
