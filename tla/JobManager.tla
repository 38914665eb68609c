----------------------------- MODULE JobManager ------------------------------
(***************************************************************************)
(* pkg/job/job.go: background jobs, their queue, the worker goroutines,    *)
(* cancellation, deletion, cleanup and shutdown.                           *)
(*                                                                         *)
(* jm.mu guards the map, the queue's sends and its close; each job has its *)
(* own mutex, and CancelJob releases jm.mu before it takes the job's.  A   *)
(* step of the model is one critical section or one channel operation.     *)
(* What a job function does is left open: it may return nil, return an     *)
(* error or panic, at any time, whether or not its context has ended.      *)
(***************************************************************************)
EXTENDS Integers, Sequences, FiniteSets

CONSTANTS
    Jobs,       \* the jobs clients may submit, each with its own random ID
    Workers,    \* worker goroutines
    Cancelers,  \* goroutines that call CancelJob
    QueueSize,  \* capacity of jm.queue
    NoJob

ASSUME WorkersExist == Workers # {}
ASSUME QueueSizePositive == QueueSize \in Nat \ {0}
ASSUME NoJobFresh == NoJob \notin Jobs

VARIABLES
    inMap,         \* keys of jm.jobs
    queue,         \* jm.queue
    shuttingDown,  \* jm.shuttingDown; stopCh and queue are closed with it
    allCanceled,   \* jm.ctx has ended
    status,        \* job.Status; "none" before Submit
    completedAt,   \* job.CompletedAt is set
    cancelSet,     \* job.cancel is set
    ctxCanceled,   \* job.cancel has been called
    doneCloses,    \* how often job.done has been closed
    wpc, wjob,     \* each worker's place and job
    cpc, cjob,     \* each canceler's place and job
    spc            \* Shutdown's progress

jobVars == <<status, completedAt, cancelSet, ctxCanceled, doneCloses>>
vars == <<inMap, queue, shuttingDown, allCanceled, jobVars, wpc, wjob, cpc, cjob, spc>>

Active == {"pending", "running"}
Terminal == {"completed", "failed", "canceled"}

(* A worker: "recv" at the outer select, "drain" at the inner one, "take"  *)
(* in executeJob before the job's lock, "run" in the job function, "hook"  *)
(* before notifyUpdate, "close" before close(job.done).                    *)
WorkerPCs == {"recv", "drain", "take", "run", "hook", "close", "exited"}
CancelerPCs == {"idle", "found", "cancel", "hook"}
ShutdownPCs == {"none", "waiting", "clean", "timedout"}

QueuedJobs == {queue[i] : i \in 1..Len(queue)}

TypeOK ==
    /\ inMap \in SUBSET Jobs
    /\ queue \in Seq(Jobs) /\ Len(queue) <= QueueSize
    /\ shuttingDown \in BOOLEAN /\ allCanceled \in BOOLEAN
    /\ status \in [Jobs -> {"none"} \cup Active \cup Terminal]
    /\ completedAt \in [Jobs -> BOOLEAN]
    /\ cancelSet \in [Jobs -> BOOLEAN]
    /\ ctxCanceled \in [Jobs -> BOOLEAN]
    /\ doneCloses \in [Jobs -> 0..1]
    /\ wpc \in [Workers -> WorkerPCs] /\ wjob \in [Workers -> Jobs \cup {NoJob}]
    /\ cpc \in [Cancelers -> CancelerPCs] /\ cjob \in [Cancelers -> Jobs \cup {NoJob}]
    /\ spc \in ShutdownPCs

Init ==
    /\ inMap = {}
    /\ queue = <<>>
    /\ shuttingDown = FALSE /\ allCanceled = FALSE
    /\ status = [j \in Jobs |-> "none"]
    /\ completedAt = [j \in Jobs |-> FALSE]
    /\ cancelSet = [j \in Jobs |-> FALSE]
    /\ ctxCanceled = [j \in Jobs |-> FALSE]
    /\ doneCloses = [j \in Jobs |-> 0]
    /\ wpc = [w \in Workers |-> "recv"] /\ wjob = [w \in Workers |-> NoJob]
    /\ cpc = [c \in Cancelers |-> "idle"] /\ cjob = [c \in Cancelers |-> NoJob]
    /\ spc = "none"

-----------------------------------------------------------------------------
(* Submit: one critical section over the shutdown check, the insert and    *)
(* the non-blocking send.  A refused job (shutting down, queue full) is    *)
(* dropped without a trace, which is a stuttering step.                    *)
Submit(j) ==
    /\ status[j] = "none"  \* a new ID
    /\ ~shuttingDown
    /\ Len(queue) < QueueSize
    /\ inMap' = inMap \cup {j}
    /\ queue' = Append(queue, j)
    /\ status' = [status EXCEPT ![j] = "pending"]
    /\ UNCHANGED <<shuttingDown, allCanceled, completedAt, cancelSet, ctxCanceled,
                   doneCloses, wpc, wjob, cpc, cjob, spc>>

-----------------------------------------------------------------------------
(* worker: a task from the queue, in the outer select or in the drain. *)
Receive(w) ==
    /\ wpc[w] \in {"recv", "drain"}
    /\ queue # <<>>
    /\ wjob' = [wjob EXCEPT ![w] = Head(queue)]
    /\ queue' = Tail(queue)
    /\ wpc' = [wpc EXCEPT ![w] = "take"]
    /\ UNCHANGED <<inMap, shuttingDown, allCanceled, jobVars, cpc, cjob, spc>>

\* Mutant of Stop: return on stopCh, whatever is left in the queue.
MutStopWithoutDrain(w) ==
    /\ wpc[w] = "recv"
    /\ shuttingDown
    /\ wpc' = [wpc EXCEPT ![w] = "exited"]
    /\ UNCHANGED <<inMap, queue, shuttingDown, allCanceled, jobVars, wjob, cpc, cjob, spc>>

\* The select may see stopCh closed although tasks are left: drain them.
Stop(w) ==
    /\ wpc[w] = "recv"
    /\ shuttingDown
    /\ wpc' = [wpc EXCEPT ![w] = "drain"]
    /\ UNCHANGED <<inMap, queue, shuttingDown, allCanceled, jobVars, wjob, cpc, cjob, spc>>

\* The queue is closed and empty: the worker returns.
Exit(w) ==
    /\ wpc[w] \in {"recv", "drain"}
    /\ shuttingDown
    /\ queue = <<>>
    /\ wpc' = [wpc EXCEPT ![w] = "exited"]
    /\ UNCHANGED <<inMap, queue, shuttingDown, allCanceled, jobVars, wjob, cpc, cjob, spc>>

\* Mutant of SkipCanceled: done is closed here and again on the way out.
MutSkipClosesTwice(w) ==
    /\ wpc[w] = "take"
    /\ status[wjob[w]] = "canceled"
    /\ doneCloses' = [doneCloses EXCEPT ![wjob[w]] = @ + 1]
    /\ wpc' = [wpc EXCEPT ![w] = "close"]
    /\ UNCHANGED <<inMap, queue, shuttingDown, allCanceled, status, completedAt,
                   cancelSet, ctxCanceled, wjob, cpc, cjob, spc>>

\* Mutant of SkipCanceled: the early return forgets close(job.done).
MutSkipForgetsDone(w) ==
    /\ wpc[w] = "take"
    /\ status[wjob[w]] = "canceled"
    /\ wpc' = [wpc EXCEPT ![w] = "recv"]
    /\ wjob' = [wjob EXCEPT ![w] = NoJob]
    /\ UNCHANGED <<inMap, queue, shuttingDown, allCanceled, jobVars, cpc, cjob, spc>>

\* executeJob, first critical section, for a job canceled while it waited.
SkipCanceled(w) ==
    /\ wpc[w] = "take"
    /\ status[wjob[w]] = "canceled"
    /\ wpc' = [wpc EXCEPT ![w] = "close"]
    /\ UNCHANGED <<inMap, queue, shuttingDown, allCanceled, jobVars, wjob, cpc, cjob, spc>>

\* Mutant of Start: job.cancel is not stored in the same critical section.
MutStartForgetsCancel(w) ==
    LET j == wjob[w] IN
    /\ wpc[w] = "take"
    /\ status[j] # "canceled"
    /\ status' = [status EXCEPT ![j] = "running"]
    /\ wpc' = [wpc EXCEPT ![w] = "run"]
    /\ UNCHANGED <<inMap, queue, shuttingDown, allCanceled, completedAt, cancelSet,
                   ctxCanceled, doneCloses, wjob, cpc, cjob, spc>>

\* The same section for any other job: it runs, with a context of its own.
Start(w) ==
    LET j == wjob[w] IN
    /\ wpc[w] = "take"
    /\ status[j] # "canceled"
    /\ status' = [status EXCEPT ![j] = "running"]
    /\ cancelSet' = [cancelSet EXCEPT ![j] = TRUE]
    /\ wpc' = [wpc EXCEPT ![w] = "run"]
    /\ UNCHANGED <<inMap, queue, shuttingDown, allCanceled, completedAt, ctxCanceled,
                   doneCloses, wjob, cpc, cjob, spc>>

\* ctx.Err() == context.Canceled, as the job sees it.
ContextOver(j) == ctxCanceled[j] \/ allCanceled

\* Mutant of Outcome: the function's result decides, whatever CancelJob did.
MutOutcome(j, result) ==
    CASE result = "nil" -> "completed"
      [] result = "error" /\ ContextOver(j) -> "canceled"
      [] OTHER -> "failed"

\* The status executeJob records for what the function did: a canceled job
\* stays canceled unless it panics.
Outcome(j, result) ==
    CASE result = "panic" -> "failed"
      [] result # "panic" /\ status[j] = "canceled" -> "canceled"
      [] result = "nil" /\ status[j] # "canceled" -> "completed"
      [] result = "error" /\ status[j] # "canceled" ->
            IF ContextOver(j) THEN "canceled" ELSE "failed"

\* Mutant of Finish: the worker forgets notifyUpdate.
MutFinishSilently(w, result) ==
    LET j == wjob[w] IN
    /\ wpc[w] = "run"
    /\ status' = [status EXCEPT ![j] = Outcome(j, result)]
    /\ completedAt' = [completedAt EXCEPT ![j] = TRUE]
    /\ wpc' = [wpc EXCEPT ![w] = "close"]
    /\ UNCHANGED <<inMap, queue, shuttingDown, allCanceled, cancelSet, ctxCanceled,
                   doneCloses, wjob, cpc, cjob, spc>>

\* The function is over: executeJob's last critical section, or the one in
\* its recover.  CancelJob has fired the hook for a job found canceled.
Finish(w, result) ==
    LET j == wjob[w] IN
    /\ wpc[w] = "run"
    /\ status' = [status EXCEPT ![j] = Outcome(j, result)]
    /\ completedAt' = [completedAt EXCEPT ![j] = TRUE]
    /\ wpc' = [wpc EXCEPT ![w] = IF result # "panic" /\ status[j] = "canceled"
                                 THEN "close" ELSE "hook"]
    /\ UNCHANGED <<inMap, queue, shuttingDown, allCanceled, cancelSet, ctxCanceled,
                   doneCloses, wjob, cpc, cjob, spc>>

\* notifyUpdate returns in the worker.
WorkerHook(w) ==
    /\ wpc[w] = "hook"
    /\ wpc' = [wpc EXCEPT ![w] = "close"]
    /\ UNCHANGED <<inMap, queue, shuttingDown, allCanceled, jobVars, wjob, cpc, cjob, spc>>

\* The deferred close(job.done) and cancel(), and back to the loop.  A worker
\* that was draining is back at the outer select, where stopCh is closed and
\* which offers it the same steps.
CloseDone(w) ==
    LET j == wjob[w] IN
    /\ wpc[w] = "close"
    /\ doneCloses' = [doneCloses EXCEPT ![j] = @ + 1]
    /\ ctxCanceled' = [ctxCanceled EXCEPT ![j] = @ \/ cancelSet[j]]
    /\ wjob' = [wjob EXCEPT ![w] = NoJob]
    /\ wpc' = [wpc EXCEPT ![w] = "recv"]
    /\ UNCHANGED <<inMap, queue, shuttingDown, allCanceled, status, completedAt,
                   cancelSet, cpc, cjob, spc>>

-----------------------------------------------------------------------------
(* CancelJob: look the job up, release jm.mu ... *)
CancelLookup(c, j) ==
    /\ cpc[c] = "idle"
    /\ j \in inMap
    /\ cpc' = [cpc EXCEPT ![c] = "found"]
    /\ cjob' = [cjob EXCEPT ![c] = j]
    /\ UNCHANGED <<inMap, queue, shuttingDown, allCanceled, jobVars, wpc, wjob, spc>>

\* Mutant of CancelMark: the status read at look-up time is trusted.
MutCancelAny(c) ==
    LET j == cjob[c] IN
    /\ cpc[c] = "found"
    /\ status' = [status EXCEPT ![j] = "canceled"]
    /\ completedAt' = [completedAt EXCEPT ![j] = TRUE]
    /\ cpc' = [cpc EXCEPT ![c] = IF cancelSet[j] THEN "cancel" ELSE "hook"]
    /\ UNCHANGED <<inMap, queue, shuttingDown, allCanceled, cancelSet, ctxCanceled,
                   doneCloses, wpc, wjob, cjob, spc>>

\* ... then the job's own critical section ...
CancelMark(c) ==
    LET j == cjob[c] IN
    /\ cpc[c] = "found"
    /\ status[j] \in Active
    /\ status' = [status EXCEPT ![j] = "canceled"]
    /\ completedAt' = [completedAt EXCEPT ![j] = TRUE]
    /\ cpc' = [cpc EXCEPT ![c] = IF cancelSet[j] THEN "cancel" ELSE "hook"]
    /\ UNCHANGED <<inMap, queue, shuttingDown, allCanceled, cancelSet, ctxCanceled,
                   doneCloses, wpc, wjob, cjob, spc>>

\* ... ErrJobNotCancellable ...
CancelRefused(c) ==
    /\ cpc[c] = "found"
    /\ status[cjob[c]] \notin Active
    /\ cpc' = [cpc EXCEPT ![c] = "idle"]
    /\ cjob' = [cjob EXCEPT ![c] = NoJob]
    /\ UNCHANGED <<inMap, queue, shuttingDown, allCanceled, jobVars, wpc, wjob, spc>>

\* ... cancelFn() outside the lock ...
CancelContext(c) ==
    /\ cpc[c] = "cancel"
    /\ ctxCanceled' = [ctxCanceled EXCEPT ![cjob[c]] = TRUE]
    /\ cpc' = [cpc EXCEPT ![c] = "hook"]
    /\ UNCHANGED <<inMap, queue, shuttingDown, allCanceled, status, completedAt,
                   cancelSet, doneCloses, wpc, wjob, cjob, spc>>

\* ... and notifyUpdate returns.
CancelHook(c) ==
    /\ cpc[c] = "hook"
    /\ cpc' = [cpc EXCEPT ![c] = "idle"]
    /\ cjob' = [cjob EXCEPT ![c] = NoJob]
    /\ UNCHANGED <<inMap, queue, shuttingDown, allCanceled, jobVars, wpc, wjob, spc>>

-----------------------------------------------------------------------------
\* Mutant of DeleteJob: an active job may be deleted.
MutDeleteActive(j) ==
    /\ j \in inMap
    /\ inMap' = inMap \ {j}
    /\ UNCHANGED <<queue, shuttingDown, allCanceled, jobVars, wpc, wjob, cpc, cjob, spc>>

\* DeleteJob, one critical section of jm.mu.
DeleteJob(j) ==
    /\ j \in inMap
    /\ status[j] \notin Active
    /\ inMap' = inMap \ {j}
    /\ UNCHANGED <<queue, shuttingDown, allCanceled, jobVars, wpc, wjob, cpc, cjob, spc>>

\* cleanupOldJobs on a tick: the finished jobs old enough go.  Any nonempty
\* set of them may be old enough; the loop ends when stopCh closes.
CleanupOldJobs(S) ==
    /\ ~shuttingDown
    /\ S # {}
    /\ S \subseteq inMap
    /\ \A j \in S : status[j] \in Terminal /\ completedAt[j]
    /\ inMap' = inMap \ S
    /\ UNCHANGED <<queue, shuttingDown, allCanceled, jobVars, wpc, wjob, cpc, cjob, spc>>

-----------------------------------------------------------------------------
(* Shutdown: close stopCh and the queue, wait for the workers or for the   *)
(* timeout, and only then end every job's context.  A second call finds    *)
(* everything closed and waits like the first.                             *)
ShutdownBegin ==
    /\ spc = "none"
    /\ shuttingDown' = TRUE
    /\ spc' = "waiting"
    /\ UNCHANGED <<inMap, queue, allCanceled, jobVars, wpc, wjob, cpc, cjob>>

AllExited == \A w \in Workers : wpc[w] = "exited"

ShutdownClean ==
    /\ spc = "waiting"
    /\ AllExited
    /\ spc' = "clean"
    /\ allCanceled' = TRUE
    /\ UNCHANGED <<inMap, queue, shuttingDown, jobVars, wpc, wjob, cpc, cjob>>

ShutdownTimeout ==
    /\ spc = "waiting"
    /\ spc' = "timedout"
    /\ allCanceled' = TRUE
    /\ UNCHANGED <<inMap, queue, shuttingDown, jobVars, wpc, wjob, cpc, cjob>>

-----------------------------------------------------------------------------
Results == {"nil", "error", "panic"}

WorkerStep(w) ==
    \/ Receive(w) \/ Stop(w) \/ Exit(w) \/ SkipCanceled(w) \/ Start(w)
    \/ \E result \in Results : Finish(w, result)
    \/ WorkerHook(w) \/ CloseDone(w)

CancelStep(c) == CancelMark(c) \/ CancelRefused(c) \/ CancelContext(c) \/ CancelHook(c)

ShutdownStep == ShutdownBegin \/ ShutdownClean \/ ShutdownTimeout

Next ==
    \/ \E j \in Jobs : Submit(j) \/ DeleteJob(j)
    \/ \E S \in SUBSET Jobs : CleanupOldJobs(S)
    \/ \E w \in Workers : WorkerStep(w)
    \/ \E c \in Cancelers : CancelStep(c) \/ \E j \in Jobs : CancelLookup(c, j)
    \/ ShutdownStep

Spec == Init /\ [][Next]_vars

\* Workers are goroutines and job functions return; a caller inside
\* CancelJob gets to its end.  Nothing forces anyone to submit, cancel,
\* delete or shut down.
Fairness ==
    /\ \A w \in Workers : WF_vars(WorkerStep(w))
    /\ \A c \in Cancelers : WF_vars(CancelStep(c))

FairSpec == Spec /\ Fairness

-----------------------------------------------------------------------------
(* A job canceled by CancelJob is never reported as completed, even when   *)
(* its function ignored the cancellation and returned nil (the comment in  *)
(* executeJob).                                                            *)
CanceledNeverCompletes ==
    [][\A j \in Jobs : status[j] = "canceled" => status'[j] # "completed"]_vars

Lifecycle ==
    INSTANCE JobLifecycle WITH st <- status,
                               done <- {j \in Jobs : doneCloses[j] = 1}

(* Whatever workers, cancelers and Shutdown do, a job goes through the     *)
(* life JobLifecycle describes: one way through its statuses, and none of  *)
(* it changes once done is closed.                                         *)
ImplementsLifecycle == Lifecycle!Spec

(* A job is in the queue at most once or with at most one worker, never    *)
(* both, and its done channel is closed only after it left both: a second  *)
(* close would panic in the worker.                                        *)
Places(j) == {i \in 1..Len(queue) : queue[i] = j}
WorkersOn(j) == {w \in Workers : wjob[w] = j}

RunOnce ==
    \A j \in Jobs :
        /\ \A i, k \in Places(j) : i = k
        /\ \A v, w \in WorkersOn(j) : v = w
        /\ Places(j) = {} \/ WorkersOn(j) = {}
        /\ doneCloses[j] = 1 => Places(j) = {} /\ WorkersOn(j) = {}

(* A pending or running job is always in the map, where GetJob and         *)
(* CancelJob can reach it (DeleteJob and cleanupOldJobs racing the rest).  *)
ActiveReachable == \A j \in Jobs : status[j] \in Active => j \in inMap

(* Once CancelJob has returned for a job whose function is still running,  *)
(* that function's context has ended: the cancel function stored by        *)
(* executeJob was not missed.                                              *)
CancelReachesRun ==
    \A j \in Jobs :
        /\ status[j] = "canceled"
        /\ \E w \in Workers : wjob[w] = j /\ wpc[w] = "run"
        /\ \A c \in Cancelers : cjob[c] # j
        => ctxCanceled[j]

(* A shutdown that reports itself clean has left no job unfinished: the    *)
(* workers drained the queue although stopCh was already closed.           *)
CleanShutdownFinishesAll ==
    spc = "clean" => \A j \in Jobs : status[j] \notin Active

(* Until Shutdown's timeout has passed, no job's context ends because of   *)
(* the shutdown: jobs still running or drained may finish (the comment     *)
(* before cancelAll).                                                      *)
ShutdownLetsJobsFinish ==
    allCanceled /\ spc # "timedout" => AllExited

(* The inductive strengthening: where a job is decides what its status can *)
(* be, an active job is somewhere, a worker leaves only a closed and empty *)
(* queue, and a running job that was canceled has a canceler on its way to *)
(* the cancel function.                                                    *)
ActorsHaveJobs ==
    /\ \A w \in Workers : wjob[w] = NoJob <=> wpc[w] \in {"recv", "drain", "exited"}
    /\ \A c \in Cancelers : cjob[c] = NoJob <=> cpc[c] = "idle"

StatusFitsPlace ==
    /\ \A i \in 1..Len(queue) : status[queue[i]] \in {"pending", "canceled"}
    /\ \A w \in Workers :
          /\ wpc[w] = "take" => status[wjob[w]] \in {"pending", "canceled"}
          /\ wpc[w] = "run" => status[wjob[w]] \in {"running", "canceled"}
          /\ wpc[w] \in {"hook", "close"} => status[wjob[w]] \in Terminal
    /\ \A c \in Cancelers : cpc[c] # "idle" => status[cjob[c]] # "none"
    /\ \A j \in inMap : status[j] # "none"
    /\ \A j \in Jobs : doneCloses[j] = 1 => status[j] \in Terminal

ActiveSomewhere ==
    \A j \in Jobs :
        /\ status[j] = "pending" =>
              Places(j) # {} \/ \E w \in Workers : wjob[w] = j /\ wpc[w] = "take"
        /\ status[j] = "running" => \E w \in Workers : wjob[w] = j /\ wpc[w] = "run"

ShutdownInv ==
    /\ shuttingDown <=> spc # "none"
    /\ allCanceled => spc \in {"clean", "timedout"}
    /\ spc = "clean" => AllExited
    /\ \A w \in Workers : wpc[w] = "exited" => shuttingDown /\ queue = <<>>

CancelOnItsWay ==
    \A w \in Workers :
        wpc[w] = "run" =>
            /\ cancelSet[wjob[w]]
            /\ status[wjob[w]] = "canceled" =>
                  \/ ctxCanceled[wjob[w]]
                  \/ \E c \in Cancelers : cjob[c] = wjob[w] /\ cpc[c] = "cancel"

JobInv ==
    /\ TypeOK
    /\ ActorsHaveJobs
    /\ RunOnce
    /\ StatusFitsPlace
    /\ ActiveSomewhere
    /\ ActiveReachable
    /\ ShutdownInv
    /\ CancelOnItsWay

(* Every job accepted by Submit finishes and closes its done channel,      *)
(* whether it is canceled, deleted or caught by a shutdown on the way.     *)
SubmittedGetsDone ==
    \A j \in Jobs : status[j] = "pending" ~> doneCloses[j] = 1

=============================================================================
