----------------------------- MODULE JobService ------------------------------
(***************************************************************************)
(* The job manager behind the API: internal/api/job_handlers.go and the    *)
(* jobs table of internal/datastore/jobs.go.                               *)
(*                                                                         *)
(* A job lives in the manager's memory; its row is written by submitJob    *)
(* (INSERT), by the manager's update hook and by handleCancelJob (UPDATE), *)
(* removed by handleDeleteJob and settled by reconcileJobs when the daemon *)
(* starts.  Every write reads a Snapshot of the live job first and reaches *)
(* the database later: the two are separate steps.                         *)
(***************************************************************************)
EXTENDS JobManager

CONSTANTS
    DbOutcomes,   \* {TRUE}, or {TRUE, FALSE} when a statement may fail
    MaxRestarts   \* bound on daemon restarts

ASSUME DbOutcomesBoolean == DbOutcomes \subseteq BOOLEAN
ASSUME MaxRestartsNat == MaxRestarts \in Nat

VARIABLES
    row,        \* jobs.status by id; "absent" without a row
    rowEnded,   \* jobs.completed_at is not NULL
    sub,        \* submitJob: "none", "submitted", "snapped", "returned"
    subSnap,    \* the status CreateJob read
    wsnap,      \* the status UpdateJob read in a worker's hook, or "none"
    csnap,      \* the same in a canceler: in its hook, then in its handler
    hpc, hjob,  \* handleCancelJob after CancelJob returned: its own UpdateJob
    del,        \* handleDeleteJob: "none", "row" between its two deletes, "done"
    past,       \* jobs of earlier daemon lives
    outcome,    \* what became of a past job in memory
    early,      \* history: the INSERT ran while the job was active
    recovered,  \* history: the job panicked after it was canceled
    lost,       \* history: a statement for the job failed
    swept,      \* history: this daemon's FailInterruptedJobs succeeded
    restarts

rowVars == <<row, rowEnded>>
handlerVars == <<sub, subSnap, wsnap, csnap, hpc, hjob, del>>
historyVars == <<past, outcome, early, recovered, lost, swept, restarts>>
serviceVars == <<rowVars, handlerVars, historyVars>>
allVars == <<vars, serviceVars>>

RowStatus == {"absent"} \cup Active \cup Terminal
Snap == {"none"} \cup Active \cup Terminal

ServiceTypeOK ==
    /\ TypeOK
    /\ row \in [Jobs -> RowStatus] /\ rowEnded \in [Jobs -> BOOLEAN]
    /\ sub \in [Jobs -> {"none", "submitted", "snapped", "returned"}]
    /\ subSnap \in [Jobs -> Snap]
    /\ wsnap \in [Workers -> Snap] /\ csnap \in [Cancelers -> Snap]
    /\ hpc \in [Cancelers -> {"idle", "persist"}]
    /\ hjob \in [Cancelers -> Jobs \cup {NoJob}]
    /\ del \in [Jobs -> {"none", "row", "done"}]
    /\ past \in SUBSET Jobs /\ outcome \in [Jobs -> Snap]
    /\ early \in [Jobs -> BOOLEAN] /\ recovered \in [Jobs -> BOOLEAN]
    /\ lost \in [Jobs -> BOOLEAN] /\ swept \in BOOLEAN /\ restarts \in 0..MaxRestarts

ServiceInit ==
    /\ Init
    /\ row = [j \in Jobs |-> "absent"] /\ rowEnded = [j \in Jobs |-> FALSE]
    /\ sub = [j \in Jobs |-> "none"] /\ subSnap = [j \in Jobs |-> "none"]
    /\ wsnap = [w \in Workers |-> "none"] /\ csnap = [c \in Cancelers |-> "none"]
    /\ hpc = [c \in Cancelers |-> "idle"] /\ hjob = [c \in Cancelers |-> NoJob]
    /\ del = [j \in Jobs |-> "none"]
    /\ past = {} /\ outcome = [j \in Jobs |-> "none"]
    /\ early = [j \in Jobs |-> FALSE] /\ recovered = [j \in Jobs |-> FALSE]
    /\ lost = [j \in Jobs |-> FALSE] /\ swept = TRUE /\ restarts = 0

-----------------------------------------------------------------------------
(* submitJob: Submit, then CreateJob's Snapshot, then its INSERT, which    *)
(* leaves completed_at NULL.                                               *)
SubmitJob(j) ==
    /\ j \notin past
    /\ Submit(j)
    /\ sub' = [sub EXCEPT ![j] = "submitted"]
    /\ UNCHANGED <<rowVars, subSnap, wsnap, csnap, hpc, hjob, del, historyVars>>

CreateJobSnapshot(j) ==
    /\ sub[j] = "submitted"
    /\ sub' = [sub EXCEPT ![j] = "snapped"]
    /\ subSnap' = [subSnap EXCEPT ![j] = status[j]]
    /\ UNCHANGED <<vars, rowVars, wsnap, csnap, hpc, hjob, del, historyVars>>

CreateJobInsert(j, ok) ==
    /\ sub[j] = "snapped"
    /\ sub' = [sub EXCEPT ![j] = "returned"]
    /\ row' = IF ok THEN [row EXCEPT ![j] = subSnap[j]] ELSE row
    /\ early' = [early EXCEPT ![j] = ok /\ status[j] \in Active]
    /\ lost' = [lost EXCEPT ![j] = @ \/ ~ok]
    /\ UNCHANGED <<vars, rowEnded, subSnap, wsnap, csnap, hpc, hjob, del, past,
                   outcome, recovered, swept, restarts>>

-----------------------------------------------------------------------------
\* UpdateJob's statement: without a row it changes nothing and reports an
\* error the callers only log.
UpdateJob(j, snap, ok) ==
    LET hit == ok /\ row[j] # "absent" IN
    /\ row' = IF hit THEN [row EXCEPT ![j] = snap] ELSE row
    /\ rowEnded' = IF hit THEN [rowEnded EXCEPT ![j] = TRUE] ELSE rowEnded
    /\ lost' = [lost EXCEPT ![j] = @ \/ ~ok]

\* The update hook on a worker: Snapshot, then UPDATE, then back to executeJob.
WorkerHookSnapshot(w) ==
    /\ wpc[w] = "hook"
    /\ wsnap[w] = "none"
    /\ wsnap' = [wsnap EXCEPT ![w] = status[wjob[w]]]
    /\ UNCHANGED <<vars, rowVars, sub, subSnap, csnap, hpc, hjob, del, historyVars>>

WorkerHookWrite(w, ok) ==
    /\ wsnap[w] # "none"
    /\ WorkerHook(w)
    /\ UpdateJob(wjob[w], wsnap[w], ok)
    /\ wsnap' = [wsnap EXCEPT ![w] = "none"]
    /\ UNCHANGED <<sub, subSnap, csnap, hpc, hjob, del, past, outcome, early,
                   recovered, swept, restarts>>

\* The same hook in CancelJob; the handler then updates the row once more.
CancelHookSnapshot(c) ==
    /\ cpc[c] = "hook"
    /\ csnap[c] = "none"
    /\ csnap' = [csnap EXCEPT ![c] = status[cjob[c]]]
    /\ UNCHANGED <<vars, rowVars, sub, subSnap, wsnap, hpc, hjob, del, historyVars>>

CancelHookWrite(c, ok) ==
    /\ csnap[c] # "none"
    /\ CancelHook(c)
    /\ UpdateJob(cjob[c], csnap[c], ok)
    /\ csnap' = [csnap EXCEPT ![c] = "none"]
    /\ hpc' = [hpc EXCEPT ![c] = "persist"]
    /\ hjob' = [hjob EXCEPT ![c] = cjob[c]]
    /\ UNCHANGED <<sub, subSnap, wsnap, del, past, outcome, early, recovered, swept,
                   restarts>>

HandlerSnapshot(c) ==
    /\ hpc[c] = "persist"
    /\ csnap[c] = "none"
    /\ csnap' = [csnap EXCEPT ![c] = status[hjob[c]]]
    /\ UNCHANGED <<vars, rowVars, sub, subSnap, wsnap, hpc, hjob, del, historyVars>>

HandlerWrite(c, ok) ==
    /\ hpc[c] = "persist"
    /\ csnap[c] # "none"
    /\ UpdateJob(hjob[c], csnap[c], ok)
    /\ csnap' = [csnap EXCEPT ![c] = "none"]
    /\ hpc' = [hpc EXCEPT ![c] = "idle"]
    /\ hjob' = [hjob EXCEPT ![c] = NoJob]
    /\ UNCHANGED <<vars, sub, subSnap, wsnap, del, past, outcome, early, recovered,
                   swept, restarts>>

\* handleCancelJob on a job the manager has; without one it only answers.
HandleCancelJob(c, j) ==
    /\ hpc[c] = "idle"
    /\ CancelLookup(c, j)
    /\ UNCHANGED serviceVars

-----------------------------------------------------------------------------
\* handleDeleteJob: the manager first; an active job is refused there.
HandleDeleteJob(j) ==
    /\ DeleteJob(j)
    /\ del' = [del EXCEPT ![j] = "row"]
    /\ UNCHANGED <<rowVars, sub, subSnap, wsnap, csnap, hpc, hjob, historyVars>>

\* Its row next; a failed statement leaves the row and answers 500.
DeleteJobRow(j, ok) ==
    /\ del[j] = "row"
    /\ del' = [del EXCEPT ![j] = "done"]
    /\ row' = IF ok THEN [row EXCEPT ![j] = "absent"] ELSE row
    /\ rowEnded' = IF ok THEN [rowEnded EXCEPT ![j] = FALSE] ELSE rowEnded
    /\ lost' = [lost EXCEPT ![j] = @ \/ ~ok]
    /\ UNCHANGED <<vars, sub, subSnap, wsnap, csnap, hpc, hjob, past, outcome, early,
                   recovered, swept, restarts>>

\* A job the manager does not know: its row is all there is to delete.
DeleteStoredJob(j) ==
    /\ j \notin inMap
    /\ row[j] # "absent"
    /\ row' = [row EXCEPT ![j] = "absent"]
    /\ rowEnded' = [rowEnded EXCEPT ![j] = FALSE]
    /\ del' = [del EXCEPT ![j] = "done"]
    /\ UNCHANGED <<vars, sub, subSnap, wsnap, csnap, hpc, hjob, historyVars>>

-----------------------------------------------------------------------------
\* Mutant of Interrupted: only the rows that were running are closed out.
MutInterrupted(j) == row[j] = "running"

\* The rows FailInterruptedJobs closes out.
Interrupted(j) == row[j] \in Active

(* The daemon stops, cleanly or not: the manager and every goroutine are   *)
(* gone.  The next one runs reconcileJobs before it serves: interrupted    *)
(* rows fail, unless the statement itself does (not ok), which is logged   *)
(* and nothing more; finished rows old enough (S) are pruned either way.   *)
Restart(S, ok) ==
    /\ restarts < MaxRestarts
    /\ \A j \in S : row[j] \in Terminal /\ rowEnded[j]
    /\ row' = [j \in Jobs |-> IF j \in S THEN "absent"
                              ELSE IF ok /\ Interrupted(j) THEN "failed" ELSE row[j]]
    /\ rowEnded' = [j \in Jobs |-> j \notin S /\ (rowEnded[j] \/ (ok /\ Interrupted(j)))]
    /\ swept' = ok
    /\ past' = past \cup {j \in Jobs : status[j] # "none"}
    /\ outcome' = [j \in Jobs |-> IF status[j] # "none" THEN status[j] ELSE outcome[j]]
    /\ restarts' = restarts + 1
    /\ inMap' = {} /\ queue' = <<>>
    /\ shuttingDown' = FALSE /\ allCanceled' = FALSE
    /\ status' = [j \in Jobs |-> "none"]
    /\ completedAt' = [j \in Jobs |-> FALSE]
    /\ cancelSet' = [j \in Jobs |-> FALSE]
    /\ ctxCanceled' = [j \in Jobs |-> FALSE]
    /\ doneCloses' = [j \in Jobs |-> 0]
    /\ wpc' = [w \in Workers |-> "recv"] /\ wjob' = [w \in Workers |-> NoJob]
    /\ cpc' = [c \in Cancelers |-> "idle"] /\ cjob' = [c \in Cancelers |-> NoJob]
    /\ spc' = "none"
    /\ sub' = [j \in Jobs |-> IF sub[j] = "none" THEN "none" ELSE "returned"]
    /\ wsnap' = [w \in Workers |-> "none"] /\ csnap' = [c \in Cancelers |-> "none"]
    /\ hpc' = [c \in Cancelers |-> "idle"] /\ hjob' = [c \in Cancelers |-> NoJob]
    /\ del' = [j \in Jobs |-> IF del[j] = "row" THEN "done" ELSE del[j]]
    /\ UNCHANGED <<subSnap, early, recovered, lost>>

-----------------------------------------------------------------------------
\* Steps of the manager that touch no row.
ManagerWorkerStep(w) ==
    /\ \/ Receive(w) \/ Stop(w) \/ Exit(w) \/ SkipCanceled(w) \/ Start(w) \/ CloseDone(w)
    /\ UNCHANGED serviceVars

FinishJob(w, result) ==
    /\ Finish(w, result)
    /\ recovered' = [recovered EXCEPT ![wjob[w]] =
                        result = "panic" /\ status[wjob[w]] = "canceled"]
    /\ UNCHANGED <<rowVars, handlerVars, past, outcome, early, lost, swept, restarts>>

ManagerOtherStep ==
    /\ \/ \E c \in Cancelers : CancelMark(c) \/ CancelRefused(c) \/ CancelContext(c)
       \/ \E S \in SUBSET Jobs : CleanupOldJobs(S)
       \/ ShutdownStep
    /\ UNCHANGED serviceVars

ServiceNext ==
    \/ \E j \in Jobs :
          \/ SubmitJob(j) \/ CreateJobSnapshot(j) \/ HandleDeleteJob(j)
          \/ DeleteStoredJob(j)
          \/ \E ok \in DbOutcomes : CreateJobInsert(j, ok) \/ DeleteJobRow(j, ok)
    \/ \E w \in Workers :
          \/ ManagerWorkerStep(w)
          \/ \E result \in Results : FinishJob(w, result)
          \/ WorkerHookSnapshot(w)
          \/ \E ok \in DbOutcomes : WorkerHookWrite(w, ok)
    \/ \E c \in Cancelers :
          \/ \E j \in Jobs : HandleCancelJob(c, j)
          \/ CancelHookSnapshot(c) \/ HandlerSnapshot(c)
          \/ \E ok \in DbOutcomes : CancelHookWrite(c, ok) \/ HandlerWrite(c, ok)
    \/ ManagerOtherStep
    \/ \E S \in SUBSET Jobs, ok \in DbOutcomes : Restart(S, ok)

ServiceSpec == ServiceInit /\ [][ServiceNext]_allVars

-----------------------------------------------------------------------------
(* Every goroutine that may still write the job's row is through with it. *)
Settled(j) ==
    /\ status[j] \in Terminal /\ sub[j] = "returned" /\ doneCloses[j] = 1
    /\ \A c \in Cancelers : cjob[c] # j /\ hjob[c] # j
    /\ del[j] = "none" /\ j \notin past /\ ~lost[j]

(* When the row was there before the job ended, and the job did not panic  *)
(* after a cancellation, the row of a settled job shows how it ended: the  *)
(* update hook misses no terminal state (server.go, SetUpdateHook).        *)
EndPersisted ==
    \A j \in Jobs : Settled(j) /\ early[j] /\ ~recovered[j] => row[j] = status[j]

\* Someone is still to write the end of job j.
WriterOf(j) ==
    \/ \E w \in Workers : wjob[w] = j /\ wpc[w] = "hook"
    \/ \E c \in Cancelers : cjob[c] = j /\ cpc[c] \in {"cancel", "hook"}
    \/ \E c \in Cancelers : hjob[c] = j

(* A row that says pending or running is true, or somebody is about to     *)
(* correct it.  The exceptions are the ones the code logs or cannot see: a *)
(* job of an earlier daemon when this one's FailInterruptedJobs failed     *)
(* (server.go, reconcileJobs), a job with a failed statement of its own,   *)
(* and a job that ended before its row was there.                          *)
NoZombieRows ==
    \A j \in Jobs :
        row[j] \in Active =>
            IF j \in past THEN ~swept
            ELSE status[j] \in Active \/ WriterOf(j) \/ lost[j] \/ ~early[j]

(* A row says completed only of a job that completed, in this daemon's     *)
(* life or in an earlier one: no late write of a hook or a handler, no     *)
(* restart and no cancellation makes one up.                               *)
CompletedRowsAreTrue ==
    \A j \in Jobs : row[j] = "completed" => "completed" \in {status[j], outcome[j]}

(* The inductive strengthening.  A job is submitted once, and a job of an  *)
(* earlier life is with nobody; its row appears with CreateJob's INSERT.   *)
SubmittedOnce ==
    \A j \in Jobs :
        /\ sub[j] = "none" <=> status[j] = "none" /\ j \notin past
        /\ j \in past => status[j] = "none" /\ sub[j] = "returned"
        /\ sub[j] # "returned" => row[j] = "absent" /\ ~early[j]
        /\ sub[j] = "snapped" =>
              subSnap[j] # "none" /\ (subSnap[j] = "completed" => status[j] = "completed")
        /\ outcome[j] # "none" => j \in past
        /\ recovered[j] => status[j] = "failed" \/ j \in past
        /\ early[j] /\ del[j] = "none" /\ j \notin past => row[j] # "absent"

\* Whoever persists a cancellation persists the end of a live job.
CancelersFit ==
    \A c \in Cancelers :
        /\ hpc[c] = "idle" <=> hjob[c] = NoJob
        /\ hpc[c] = "persist" => cpc[c] = "idle" /\ status[hjob[c]] \in Terminal
        /\ cpc[c] \in {"cancel", "hook"} => status[cjob[c]] \in Terminal

\* What a canceler's snapshot is of.
SnappedBy(c) == IF hpc[c] = "persist" THEN hjob[c] ELSE cjob[c]

\* A snapshot is stale only when a canceled job panicked after it was read.
SnapshotsFit ==
    /\ \A w \in Workers :
          wsnap[w] # "none" => wpc[w] = "hook" /\ wsnap[w] = status[wjob[w]]
    /\ \A c \in Cancelers :
          csnap[c] # "none" =>
              /\ cpc[c] = "hook" \/ hpc[c] = "persist"
              /\ \/ csnap[c] = status[SnappedBy(c)]
                 \/ csnap[c] = "canceled" /\ recovered[SnappedBy(c)]

EndOnItsWay ==
    \A j \in Jobs :
        /\ early[j] /\ ~recovered[j] /\ ~lost[j] /\ del[j] = "none" /\ j \notin past
        /\ status[j] \in Terminal
        => row[j] = status[j] \/ WriterOf(j)

ServiceInv ==
    /\ JobInv
    /\ ServiceTypeOK
    /\ SubmittedOnce
    /\ CancelersFit
    /\ SnapshotsFit
    /\ NoZombieRows
    /\ CompletedRowsAreTrue
    /\ EndOnItsWay

=============================================================================
