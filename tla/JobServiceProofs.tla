-------------------------- MODULE JobServiceProofs ---------------------------
(***************************************************************************)
(* Proofs about JobManager and JobService for any sets of jobs, workers    *)
(* and cancelers and any queue size; about JobService for any number of    *)
(* restarts and statements that may fail.                                  *)
(***************************************************************************)
EXTENDS JobService, TLAPS

-----------------------------------------------------------------------------
(* The job manager. *)

(* What sending to and receiving from the queue do to its positions. *)
LEMMA AppendFacts ==
    ASSUME NEW q \in Seq(Jobs), NEW j \in Jobs
    PROVE  /\ Append(q, j) \in Seq(Jobs) /\ Len(Append(q, j)) = Len(q) + 1
           /\ \A i \in 1..Len(q) : Append(q, j)[i] = q[i]
           /\ Append(q, j)[Len(q) + 1] = j
  OBVIOUS

LEMMA TailFacts ==
    ASSUME NEW q \in Seq(Jobs), q # <<>>
    PROVE  /\ Len(q) \in Nat /\ Len(q) >= 1
           /\ Head(q) \in Jobs /\ Head(q) = q[1]
           /\ Tail(q) \in Seq(Jobs) /\ Len(Tail(q)) = Len(q) - 1
           /\ \A i \in 1..Len(Tail(q)) : Tail(q)[i] = q[i + 1]
  OBVIOUS

(* RunOnce is about the queue, the workers' jobs and the done channels. *)
LEMMA RunOnceFrame ==
    ASSUME RunOnce, UNCHANGED <<queue, wjob, doneCloses>>
    PROVE  RunOnce'
  BY DEF RunOnce, Places, WorkersOn

(* A worker inside executeJob has a job. *)
LEMMA BusyWorkerHasJob ==
    ASSUME TypeOK, ActorsHaveJobs, NEW w \in Workers,
           wpc[w] \in {"take", "run", "hook", "close"}
    PROVE  wjob[w] \in Jobs
  BY DEF TypeOK, ActorsHaveJobs

(* The initial state satisfies the invariant. *)
LEMMA InitJobInv == Init => JobInv
<1> SUFFICES ASSUME Init PROVE JobInv
  OBVIOUS
<1> USE DEF Init
<1>1. TypeOK
  <2>1. queue \in Seq(Jobs) /\ Len(queue) <= QueueSize
    BY QueueSizePositive
  <2>2. status \in [Jobs -> {"none"} \cup Active \cup Terminal]
    BY DEF Active, Terminal
  <2>3. /\ completedAt \in [Jobs -> BOOLEAN] /\ cancelSet \in [Jobs -> BOOLEAN]
        /\ ctxCanceled \in [Jobs -> BOOLEAN]
    OBVIOUS
  <2>4. doneCloses \in [Jobs -> 0..1]
    OBVIOUS
  <2>5. wpc \in [Workers -> WorkerPCs] /\ wjob \in [Workers -> Jobs \cup {NoJob}]
    BY DEF WorkerPCs
  <2>6. cpc \in [Cancelers -> CancelerPCs] /\ cjob \in [Cancelers -> Jobs \cup {NoJob}]
    BY DEF CancelerPCs
  <2>7. /\ inMap \in SUBSET Jobs /\ spc \in ShutdownPCs
        /\ shuttingDown \in BOOLEAN /\ allCanceled \in BOOLEAN
    BY DEF ShutdownPCs
  <2> HIDE DEF Init
  <2> QED
    BY <2>1, <2>2, <2>3, <2>4, <2>5, <2>6, <2>7 DEF TypeOK
<1>2. ActorsHaveJobs /\ RunOnce
  BY NoJobFresh DEF ActorsHaveJobs, RunOnce, Places, WorkersOn
<1>3. StatusFitsPlace /\ ActiveSomewhere /\ ActiveReachable
  BY DEF StatusFitsPlace, ActiveSomewhere, ActiveReachable, Active, Terminal
<1>4. ShutdownInv /\ CancelOnItsWay
  BY DEF ShutdownInv, CancelOnItsWay
<1> QED
  BY <1>1, <1>2, <1>3, <1>4 DEF JobInv

(* No step leaves the types: a worker's and a canceler's job are jobs, the  *)
(* queue keeps its bound, and done is closed once because a job with a      *)
(* worker has not been closed (RunOnce).                                    *)
LEMMA TypeStep == JobInv /\ [Next]_vars => TypeOK'
<1> SUFFICES ASSUME JobInv, [Next]_vars PROVE TypeOK'
  OBVIOUS
<1> USE DEF JobInv, TypeOK, WorkerPCs, CancelerPCs, ShutdownPCs, Active, Terminal, Results
<1>0. CASE UNCHANGED vars
  BY <1>0 DEF vars, jobVars
<1>1. ASSUME NEW j \in Jobs, Submit(j) PROVE TypeOK'
  <2>1. queue' \in Seq(Jobs) /\ Len(queue') <= QueueSize
    BY <1>1, AppendFacts, QueueSizePositive DEF Submit
  <2> QED
    BY <1>1, <2>1 DEF Submit
<1>2. ASSUME NEW j \in Jobs, DeleteJob(j) PROVE TypeOK'
  BY <1>2 DEF DeleteJob, jobVars, ActorsHaveJobs, RunOnce, StatusFitsPlace, WorkersOn, Outcome
<1>3. ASSUME NEW S \in SUBSET Jobs, CleanupOldJobs(S) PROVE TypeOK'
  BY <1>3 DEF CleanupOldJobs, jobVars, ActorsHaveJobs, RunOnce, StatusFitsPlace, WorkersOn, Outcome
<1>4. ASSUME NEW w \in Workers, Receive(w) PROVE TypeOK'
  <2>1. queue' \in Seq(Jobs) /\ Len(queue') <= QueueSize /\ Head(queue) \in Jobs
    BY <1>4, TailFacts, QueueSizePositive DEF Receive
  <2> QED
    BY <1>4, <2>1 DEF Receive, jobVars
<1>5. ASSUME NEW w \in Workers, Stop(w) PROVE TypeOK'
  BY <1>5 DEF Stop, jobVars, ActorsHaveJobs, RunOnce, StatusFitsPlace, WorkersOn, Outcome
<1>6. ASSUME NEW w \in Workers, Exit(w) PROVE TypeOK'
  BY <1>6 DEF Exit, jobVars, ActorsHaveJobs, RunOnce, StatusFitsPlace, WorkersOn, Outcome
<1>7. ASSUME NEW w \in Workers, SkipCanceled(w) PROVE TypeOK'
  BY <1>7 DEF SkipCanceled, jobVars, ActorsHaveJobs, RunOnce, StatusFitsPlace, WorkersOn, Outcome
<1>8. ASSUME NEW w \in Workers, Start(w) PROVE TypeOK'
  BY <1>8 DEF Start, jobVars, ActorsHaveJobs, RunOnce, StatusFitsPlace, WorkersOn, Outcome
<1>9. ASSUME NEW w \in Workers, NEW result \in Results, Finish(w, result) PROVE TypeOK'
  BY <1>9 DEF Finish, jobVars, ActorsHaveJobs, RunOnce, StatusFitsPlace, WorkersOn, Outcome
<1>10. ASSUME NEW w \in Workers, WorkerHook(w) PROVE TypeOK'
  BY <1>10 DEF WorkerHook, jobVars, ActorsHaveJobs, RunOnce, StatusFitsPlace, WorkersOn, Outcome
<1>11. ASSUME NEW w \in Workers, CloseDone(w) PROVE TypeOK'
  BY <1>11 DEF CloseDone, jobVars, ActorsHaveJobs, RunOnce, StatusFitsPlace, WorkersOn, Outcome
<1>12. ASSUME NEW c \in Cancelers, NEW j \in Jobs, CancelLookup(c, j) PROVE TypeOK'
  BY <1>12 DEF CancelLookup, jobVars, ActorsHaveJobs, RunOnce, StatusFitsPlace, WorkersOn, Outcome
<1>13. ASSUME NEW c \in Cancelers, CancelMark(c) PROVE TypeOK'
  BY <1>13 DEF CancelMark, jobVars, ActorsHaveJobs, RunOnce, StatusFitsPlace, WorkersOn, Outcome
<1>14. ASSUME NEW c \in Cancelers, CancelRefused(c) PROVE TypeOK'
  BY <1>14 DEF CancelRefused, jobVars, ActorsHaveJobs, RunOnce, StatusFitsPlace, WorkersOn, Outcome
<1>15. ASSUME NEW c \in Cancelers, CancelContext(c) PROVE TypeOK'
  BY <1>15 DEF CancelContext, jobVars, ActorsHaveJobs, RunOnce, StatusFitsPlace, WorkersOn, Outcome
<1>16. ASSUME NEW c \in Cancelers, CancelHook(c) PROVE TypeOK'
  BY <1>16 DEF CancelHook, jobVars, ActorsHaveJobs, RunOnce, StatusFitsPlace, WorkersOn, Outcome
<1>17. ASSUME ShutdownBegin PROVE TypeOK'
  BY <1>17 DEF ShutdownBegin, jobVars, ActorsHaveJobs, RunOnce, StatusFitsPlace, WorkersOn, Outcome
<1>18. ASSUME ShutdownClean PROVE TypeOK'
  BY <1>18 DEF ShutdownClean, jobVars, ActorsHaveJobs, RunOnce, StatusFitsPlace, WorkersOn, Outcome
<1>19. ASSUME ShutdownTimeout PROVE TypeOK'
  BY <1>19 DEF ShutdownTimeout, jobVars, ActorsHaveJobs, RunOnce, StatusFitsPlace, WorkersOn, Outcome
<1> QED
  BY <1>0, <1>1, <1>2, <1>3, <1>4, <1>5, <1>6, <1>7, <1>8, <1>9, <1>10,
     <1>11, <1>12, <1>13, <1>14, <1>15, <1>16, <1>17, <1>18, <1>19
     DEF Next, WorkerStep, CancelStep, ShutdownStep

(* Exactly the workers inside executeJob and the cancelers inside CancelJob *)
(* hold a job.                                                              *)
LEMMA ActorsStep == JobInv /\ [Next]_vars => ActorsHaveJobs'
<1> SUFFICES ASSUME JobInv, [Next]_vars PROVE ActorsHaveJobs'
  OBVIOUS
<1> USE NoJobFresh DEF JobInv, TypeOK, ActorsHaveJobs
<1>0. CASE UNCHANGED vars
  BY <1>0 DEF vars, jobVars
<1>1. ASSUME NEW j \in Jobs, Submit(j) PROVE ActorsHaveJobs'
  BY <1>1 DEF Submit, jobVars
<1>2. ASSUME NEW j \in Jobs, DeleteJob(j) PROVE ActorsHaveJobs'
  BY <1>2 DEF DeleteJob, jobVars
<1>3. ASSUME NEW S \in SUBSET Jobs, CleanupOldJobs(S) PROVE ActorsHaveJobs'
  BY <1>3 DEF CleanupOldJobs, jobVars
<1>4. ASSUME NEW w \in Workers, Receive(w) PROVE ActorsHaveJobs'
  BY <1>4 DEF Receive, jobVars
<1>5. ASSUME NEW w \in Workers, Stop(w) PROVE ActorsHaveJobs'
  BY <1>5 DEF Stop, jobVars
<1>6. ASSUME NEW w \in Workers, Exit(w) PROVE ActorsHaveJobs'
  BY <1>6 DEF Exit, jobVars
<1>7. ASSUME NEW w \in Workers, SkipCanceled(w) PROVE ActorsHaveJobs'
  BY <1>7 DEF SkipCanceled, jobVars
<1>8. ASSUME NEW w \in Workers, Start(w) PROVE ActorsHaveJobs'
  BY <1>8 DEF Start, jobVars
<1>9. ASSUME NEW w \in Workers, NEW result \in Results, Finish(w, result) PROVE ActorsHaveJobs'
  BY <1>9 DEF Finish, jobVars
<1>10. ASSUME NEW w \in Workers, WorkerHook(w) PROVE ActorsHaveJobs'
  BY <1>10 DEF WorkerHook, jobVars
<1>11. ASSUME NEW w \in Workers, CloseDone(w) PROVE ActorsHaveJobs'
  BY <1>11 DEF CloseDone, jobVars
<1>12. ASSUME NEW c \in Cancelers, NEW j \in Jobs, CancelLookup(c, j) PROVE ActorsHaveJobs'
  BY <1>12 DEF CancelLookup, jobVars
<1>13. ASSUME NEW c \in Cancelers, CancelMark(c) PROVE ActorsHaveJobs'
  BY <1>13 DEF CancelMark, jobVars
<1>14. ASSUME NEW c \in Cancelers, CancelRefused(c) PROVE ActorsHaveJobs'
  BY <1>14 DEF CancelRefused, jobVars
<1>15. ASSUME NEW c \in Cancelers, CancelContext(c) PROVE ActorsHaveJobs'
  BY <1>15 DEF CancelContext, jobVars
<1>16. ASSUME NEW c \in Cancelers, CancelHook(c) PROVE ActorsHaveJobs'
  BY <1>16 DEF CancelHook, jobVars
<1>17. ASSUME ShutdownBegin PROVE ActorsHaveJobs'
  BY <1>17 DEF ShutdownBegin, jobVars
<1>18. ASSUME ShutdownClean PROVE ActorsHaveJobs'
  BY <1>18 DEF ShutdownClean, jobVars
<1>19. ASSUME ShutdownTimeout PROVE ActorsHaveJobs'
  BY <1>19 DEF ShutdownTimeout, jobVars
<1> QED
  BY <1>0, <1>1, <1>2, <1>3, <1>4, <1>5, <1>6, <1>7, <1>8, <1>9, <1>10,
     <1>11, <1>12, <1>13, <1>14, <1>15, <1>16, <1>17, <1>18, <1>19
     DEF Next, WorkerStep, CancelStep, ShutdownStep

(* Shutdown's flags move together, and a worker exits only when the queue   *)
(* is closed and empty, which it then stays.                                *)
LEMMA ShutdownStepInv == JobInv /\ [Next]_vars => ShutdownInv'
<1> SUFFICES ASSUME JobInv, [Next]_vars PROVE ShutdownInv'
  OBVIOUS
<1> USE WorkersExist DEF JobInv, TypeOK, ShutdownInv, AllExited
<1>0. CASE UNCHANGED vars
  BY <1>0 DEF vars, jobVars
<1>1. ASSUME NEW j \in Jobs, Submit(j) PROVE ShutdownInv'
  BY <1>1 DEF Submit, jobVars
<1>2. ASSUME NEW j \in Jobs, DeleteJob(j) PROVE ShutdownInv'
  BY <1>2 DEF DeleteJob, jobVars
<1>3. ASSUME NEW S \in SUBSET Jobs, CleanupOldJobs(S) PROVE ShutdownInv'
  BY <1>3 DEF CleanupOldJobs, jobVars
<1>4. ASSUME NEW w \in Workers, Receive(w) PROVE ShutdownInv'
  BY <1>4 DEF Receive, jobVars
<1>5. ASSUME NEW w \in Workers, Stop(w) PROVE ShutdownInv'
  BY <1>5 DEF Stop, jobVars
<1>6. ASSUME NEW w \in Workers, Exit(w) PROVE ShutdownInv'
  BY <1>6 DEF Exit, jobVars
<1>7. ASSUME NEW w \in Workers, SkipCanceled(w) PROVE ShutdownInv'
  BY <1>7 DEF SkipCanceled, jobVars
<1>8. ASSUME NEW w \in Workers, Start(w) PROVE ShutdownInv'
  BY <1>8 DEF Start, jobVars
<1>9. ASSUME NEW w \in Workers, NEW result \in Results, Finish(w, result) PROVE ShutdownInv'
  BY <1>9 DEF Finish, jobVars
<1>10. ASSUME NEW w \in Workers, WorkerHook(w) PROVE ShutdownInv'
  BY <1>10 DEF WorkerHook, jobVars
<1>11. ASSUME NEW w \in Workers, CloseDone(w) PROVE ShutdownInv'
  BY <1>11 DEF CloseDone, jobVars
<1>12. ASSUME NEW c \in Cancelers, NEW j \in Jobs, CancelLookup(c, j) PROVE ShutdownInv'
  BY <1>12 DEF CancelLookup, jobVars
<1>13. ASSUME NEW c \in Cancelers, CancelMark(c) PROVE ShutdownInv'
  BY <1>13 DEF CancelMark, jobVars
<1>14. ASSUME NEW c \in Cancelers, CancelRefused(c) PROVE ShutdownInv'
  BY <1>14 DEF CancelRefused, jobVars
<1>15. ASSUME NEW c \in Cancelers, CancelContext(c) PROVE ShutdownInv'
  BY <1>15 DEF CancelContext, jobVars
<1>16. ASSUME NEW c \in Cancelers, CancelHook(c) PROVE ShutdownInv'
  BY <1>16 DEF CancelHook, jobVars
<1>17. ASSUME ShutdownBegin PROVE ShutdownInv'
  BY <1>17 DEF ShutdownBegin, jobVars
<1>18. ASSUME ShutdownClean PROVE ShutdownInv'
  BY <1>18 DEF ShutdownClean, jobVars
<1>19. ASSUME ShutdownTimeout PROVE ShutdownInv'
  BY <1>19 DEF ShutdownTimeout, jobVars
<1> QED
  BY <1>0, <1>1, <1>2, <1>3, <1>4, <1>5, <1>6, <1>7, <1>8, <1>9, <1>10,
     <1>11, <1>12, <1>13, <1>14, <1>15, <1>16, <1>17, <1>18, <1>19
     DEF Next, WorkerStep, CancelStep, ShutdownStep

(* Only jobs that are over leave the map, and a job becomes active only when *)
(* Submit puts it there.                                                    *)
LEMMA ReachableStep == JobInv /\ [Next]_vars => ActiveReachable'
<1> SUFFICES ASSUME JobInv, [Next]_vars PROVE ActiveReachable'
  OBVIOUS
<1> USE DEF JobInv, TypeOK, ActiveReachable, Active, Terminal, Results
<1>0. CASE UNCHANGED vars
  BY <1>0 DEF vars, jobVars
<1>1. ASSUME NEW j \in Jobs, Submit(j) PROVE ActiveReachable'
  BY <1>1 DEF Submit, jobVars, StatusFitsPlace, ActorsHaveJobs, Outcome
<1>2. ASSUME NEW j \in Jobs, DeleteJob(j) PROVE ActiveReachable'
  BY <1>2 DEF DeleteJob, jobVars, StatusFitsPlace, ActorsHaveJobs, Outcome
<1>3. ASSUME NEW S \in SUBSET Jobs, CleanupOldJobs(S) PROVE ActiveReachable'
  BY <1>3 DEF CleanupOldJobs, jobVars, StatusFitsPlace, ActorsHaveJobs, Outcome
<1>4. ASSUME NEW w \in Workers, Receive(w) PROVE ActiveReachable'
  BY <1>4 DEF Receive, jobVars, StatusFitsPlace, ActorsHaveJobs, Outcome
<1>5. ASSUME NEW w \in Workers, Stop(w) PROVE ActiveReachable'
  BY <1>5 DEF Stop, jobVars, StatusFitsPlace, ActorsHaveJobs, Outcome
<1>6. ASSUME NEW w \in Workers, Exit(w) PROVE ActiveReachable'
  BY <1>6 DEF Exit, jobVars, StatusFitsPlace, ActorsHaveJobs, Outcome
<1>7. ASSUME NEW w \in Workers, SkipCanceled(w) PROVE ActiveReachable'
  BY <1>7 DEF SkipCanceled, jobVars, StatusFitsPlace, ActorsHaveJobs, Outcome
<1>8. ASSUME NEW w \in Workers, Start(w) PROVE ActiveReachable'
  BY <1>8 DEF Start, jobVars, StatusFitsPlace, ActorsHaveJobs, Outcome
<1>9. ASSUME NEW w \in Workers, NEW result \in Results, Finish(w, result) PROVE ActiveReachable'
  BY <1>9 DEF Finish, jobVars, StatusFitsPlace, ActorsHaveJobs, Outcome
<1>10. ASSUME NEW w \in Workers, WorkerHook(w) PROVE ActiveReachable'
  BY <1>10 DEF WorkerHook, jobVars, StatusFitsPlace, ActorsHaveJobs, Outcome
<1>11. ASSUME NEW w \in Workers, CloseDone(w) PROVE ActiveReachable'
  BY <1>11 DEF CloseDone, jobVars, StatusFitsPlace, ActorsHaveJobs, Outcome
<1>12. ASSUME NEW c \in Cancelers, NEW j \in Jobs, CancelLookup(c, j) PROVE ActiveReachable'
  BY <1>12 DEF CancelLookup, jobVars, StatusFitsPlace, ActorsHaveJobs, Outcome
<1>13. ASSUME NEW c \in Cancelers, CancelMark(c) PROVE ActiveReachable'
  BY <1>13 DEF CancelMark, jobVars, StatusFitsPlace, ActorsHaveJobs, Outcome
<1>14. ASSUME NEW c \in Cancelers, CancelRefused(c) PROVE ActiveReachable'
  BY <1>14 DEF CancelRefused, jobVars, StatusFitsPlace, ActorsHaveJobs, Outcome
<1>15. ASSUME NEW c \in Cancelers, CancelContext(c) PROVE ActiveReachable'
  BY <1>15 DEF CancelContext, jobVars, StatusFitsPlace, ActorsHaveJobs, Outcome
<1>16. ASSUME NEW c \in Cancelers, CancelHook(c) PROVE ActiveReachable'
  BY <1>16 DEF CancelHook, jobVars, StatusFitsPlace, ActorsHaveJobs, Outcome
<1>17. ASSUME ShutdownBegin PROVE ActiveReachable'
  BY <1>17 DEF ShutdownBegin, jobVars, StatusFitsPlace, ActorsHaveJobs, Outcome
<1>18. ASSUME ShutdownClean PROVE ActiveReachable'
  BY <1>18 DEF ShutdownClean, jobVars, StatusFitsPlace, ActorsHaveJobs, Outcome
<1>19. ASSUME ShutdownTimeout PROVE ActiveReachable'
  BY <1>19 DEF ShutdownTimeout, jobVars, StatusFitsPlace, ActorsHaveJobs, Outcome
<1> QED
  BY <1>0, <1>1, <1>2, <1>3, <1>4, <1>5, <1>6, <1>7, <1>8, <1>9, <1>10,
     <1>11, <1>12, <1>13, <1>14, <1>15, <1>16, <1>17, <1>18, <1>19
     DEF Next, WorkerStep, CancelStep, ShutdownStep

(* A status that fits where the job is keeps fitting: the job a step moves  *)
(* is in one place only (RunOnce).                                          *)
LEMMA FitsStep == JobInv /\ [Next]_vars => StatusFitsPlace'
<1> SUFFICES ASSUME JobInv, [Next]_vars PROVE StatusFitsPlace'
  OBVIOUS
<1> USE NoJobFresh DEF JobInv, TypeOK, StatusFitsPlace, Active, Terminal, Results
<1>0. CASE UNCHANGED vars
  BY <1>0 DEF vars, jobVars
<1>1. ASSUME NEW j \in Jobs, Submit(j) PROVE StatusFitsPlace'
  BY <1>1 DEF Submit, jobVars, ActorsHaveJobs, RunOnce, Places, WorkersOn, Outcome, ActiveReachable
<1>2. ASSUME NEW j \in Jobs, DeleteJob(j) PROVE StatusFitsPlace'
  BY <1>2 DEF DeleteJob, jobVars, ActorsHaveJobs, RunOnce, Places, WorkersOn, Outcome, ActiveReachable
<1>3. ASSUME NEW S \in SUBSET Jobs, CleanupOldJobs(S) PROVE StatusFitsPlace'
  BY <1>3 DEF CleanupOldJobs, jobVars, ActorsHaveJobs, RunOnce, Places, WorkersOn, Outcome, ActiveReachable
<1>4. ASSUME NEW w \in Workers, Receive(w) PROVE StatusFitsPlace'
  BY <1>4 DEF Receive, jobVars, ActorsHaveJobs, RunOnce, Places, WorkersOn, Outcome, ActiveReachable
<1>5. ASSUME NEW w \in Workers, Stop(w) PROVE StatusFitsPlace'
  BY <1>5 DEF Stop, jobVars, ActorsHaveJobs, RunOnce, Places, WorkersOn, Outcome, ActiveReachable
<1>6. ASSUME NEW w \in Workers, Exit(w) PROVE StatusFitsPlace'
  BY <1>6 DEF Exit, jobVars, ActorsHaveJobs, RunOnce, Places, WorkersOn, Outcome, ActiveReachable
<1>7. ASSUME NEW w \in Workers, SkipCanceled(w) PROVE StatusFitsPlace'
  BY <1>7 DEF SkipCanceled, jobVars, ActorsHaveJobs, RunOnce, Places, WorkersOn, Outcome, ActiveReachable
<1>8. ASSUME NEW w \in Workers, Start(w) PROVE StatusFitsPlace'
  <2>0. wjob[w] \in Jobs
    <3> HIDE DEF TypeOK, StatusFitsPlace
    <3> QED
      BY <1>8, BusyWorkerHasJob DEF Start
  <2>1. PICK g \in Jobs : g = wjob[w]
    BY <2>0
  <2>2. \A i \in 1..Len(queue) : queue[i] # g
    BY <2>1 DEF RunOnce, Places, WorkersOn
  <2>3. \A v \in Workers \ {w} : wjob[v] # g
    BY <2>1 DEF RunOnce, WorkersOn
  <2>4. doneCloses[g] # 1
    BY <2>1 DEF RunOnce, WorkersOn
  <2>5. /\ status' = [status EXCEPT ![g] = "running"] /\ wpc' = [wpc EXCEPT ![w] = "run"]
        /\ UNCHANGED <<queue, wjob, inMap, cpc, cjob, doneCloses>>
    BY <1>8, <2>1 DEF Start
  <2>6. \A i \in 1..Len(queue) : queue[i] \in Jobs
    OBVIOUS
  <2> QED
    BY <2>1, <2>2, <2>3, <2>4, <2>5, <2>6 DEF ActorsHaveJobs
<1>9. ASSUME NEW w \in Workers, NEW result \in Results, Finish(w, result) PROVE StatusFitsPlace'
  BY <1>9 DEF Finish, jobVars, ActorsHaveJobs, RunOnce, Places, WorkersOn, Outcome, ActiveReachable
<1>10. ASSUME NEW w \in Workers, WorkerHook(w) PROVE StatusFitsPlace'
  BY <1>10 DEF WorkerHook, jobVars, ActorsHaveJobs, RunOnce, Places, WorkersOn, Outcome, ActiveReachable
<1>11. ASSUME NEW w \in Workers, CloseDone(w) PROVE StatusFitsPlace'
  BY <1>11 DEF CloseDone, jobVars, ActorsHaveJobs, RunOnce, Places, WorkersOn, Outcome, ActiveReachable
<1>12. ASSUME NEW c \in Cancelers, NEW j \in Jobs, CancelLookup(c, j) PROVE StatusFitsPlace'
  BY <1>12 DEF CancelLookup, jobVars, ActorsHaveJobs, RunOnce, Places, WorkersOn, Outcome, ActiveReachable
<1>13. ASSUME NEW c \in Cancelers, CancelMark(c) PROVE StatusFitsPlace'
  BY <1>13 DEF CancelMark, jobVars, ActorsHaveJobs, RunOnce, Places, WorkersOn, Outcome, ActiveReachable
<1>14. ASSUME NEW c \in Cancelers, CancelRefused(c) PROVE StatusFitsPlace'
  BY <1>14 DEF CancelRefused, jobVars, ActorsHaveJobs, RunOnce, Places, WorkersOn, Outcome, ActiveReachable
<1>15. ASSUME NEW c \in Cancelers, CancelContext(c) PROVE StatusFitsPlace'
  BY <1>15 DEF CancelContext, jobVars, ActorsHaveJobs, RunOnce, Places, WorkersOn, Outcome, ActiveReachable
<1>16. ASSUME NEW c \in Cancelers, CancelHook(c) PROVE StatusFitsPlace'
  BY <1>16 DEF CancelHook, jobVars, ActorsHaveJobs, RunOnce, Places, WorkersOn, Outcome, ActiveReachable
<1>17. ASSUME ShutdownBegin PROVE StatusFitsPlace'
  BY <1>17 DEF ShutdownBegin, jobVars, ActorsHaveJobs, RunOnce, Places, WorkersOn, Outcome, ActiveReachable
<1>18. ASSUME ShutdownClean PROVE StatusFitsPlace'
  BY <1>18 DEF ShutdownClean, jobVars, ActorsHaveJobs, RunOnce, Places, WorkersOn, Outcome, ActiveReachable
<1>19. ASSUME ShutdownTimeout PROVE StatusFitsPlace'
  BY <1>19 DEF ShutdownTimeout, jobVars, ActorsHaveJobs, RunOnce, Places, WorkersOn, Outcome, ActiveReachable
<1> QED
  BY <1>0, <1>1, <1>2, <1>3, <1>4, <1>5, <1>6, <1>7, <1>8, <1>9, <1>10,
     <1>11, <1>12, <1>13, <1>14, <1>15, <1>16, <1>17, <1>18, <1>19
     DEF Next, WorkerStep, CancelStep, ShutdownStep

(* A job stays in one place: Submit takes a job that is nowhere, Receive     *)
(* moves the head of the queue to one worker, CloseDone takes it away.       *)
LEMMA RunOnceStep == JobInv /\ [Next]_vars => RunOnce'
<1> SUFFICES ASSUME JobInv, [Next]_vars PROVE RunOnce'
  OBVIOUS
<1>0. CASE UNCHANGED vars
  BY <1>0, RunOnceFrame DEF JobInv, vars, jobVars
<1>1. ASSUME NEW j \in Jobs, Submit(j) PROVE RunOnce'
  <2>1. /\ Len(queue') = Len(queue) + 1 /\ Len(queue) \in Nat
        /\ \A i \in 1..Len(queue) : queue'[i] = queue[i]
        /\ queue'[Len(queue) + 1] = j /\ wjob' = wjob /\ doneCloses' = doneCloses
    BY <1>1, AppendFacts DEF Submit, JobInv, TypeOK
  <2>2. /\ \A i \in 1..Len(queue) : queue[i] # j
        /\ \A w \in Workers : wjob[w] # j
        /\ doneCloses[j] # 1
    <3>1. status[j] = "none"
      BY <1>1 DEF Submit
    <3>2. \A w \in Workers : wjob[w] = j => wpc[w] \in {"take", "run", "hook", "close"}
      BY NoJobFresh DEF JobInv, TypeOK, WorkerPCs, ActorsHaveJobs
    <3> QED
      BY <3>1, <3>2 DEF JobInv, StatusFitsPlace, Terminal
  <2>3. /\ Places(j)' = {Len(queue) + 1} /\ WorkersOn(j)' = {}
        /\ \A k \in Jobs \ {j} : Places(k)' = Places(k) /\ WorkersOn(k)' = WorkersOn(k)
    <3>1. Places(j)' = {Len(queue) + 1}
      BY <2>1, <2>2 DEF Places
    <3>2. \A k \in Jobs \ {j} : Places(k)' = Places(k)
      BY <2>1 DEF Places
    <3> QED
      BY <2>1, <2>2, <3>1, <3>2 DEF WorkersOn
  <2> QED
    BY <2>1, <2>2, <2>3 DEF JobInv, RunOnce
<1>2. ASSUME NEW j \in Jobs, DeleteJob(j) PROVE RunOnce'
  BY <1>2, RunOnceFrame DEF JobInv, DeleteJob, jobVars
<1>3. ASSUME NEW S \in SUBSET Jobs, CleanupOldJobs(S) PROVE RunOnce'
  BY <1>3, RunOnceFrame DEF JobInv, CleanupOldJobs, jobVars
<1>4. ASSUME NEW w \in Workers, Receive(w) PROVE RunOnce'
  <2> DEFINE h == queue[1]
  <2>1. /\ Len(queue') = Len(queue) - 1 /\ Len(queue) \in Nat /\ Len(queue) >= 1
        /\ \A i \in 1..Len(queue') : queue'[i] = queue[i + 1]
        /\ queue[1] \in Jobs /\ doneCloses' = doneCloses
        /\ wjob' = [wjob EXCEPT ![w] = queue[1]]
    BY <1>4, TailFacts DEF Receive, JobInv, TypeOK, jobVars
  <2>2. PICK g \in Jobs : g = queue[1]
    BY <2>1
  <2>3. Places(g) = {1} /\ WorkersOn(g) = {}
    <3>1. 1 \in Places(g)
      BY <2>1, <2>2 DEF Places
    <3> QED
      BY <3>1 DEF JobInv, RunOnce
  <2>4. Places(g)' = {} /\ WorkersOn(g)' = {w} /\ doneCloses[g] # 1
    <3>1. \A i \in 1..Len(queue') : queue'[i] # g
      <4> SUFFICES ASSUME NEW i \in 1..Len(queue'), queue'[i] = g PROVE FALSE
        OBVIOUS
      <4>1. i + 1 \in Places(g)
        BY <2>1 DEF Places
      <4> QED
        BY <4>1, <2>3, <2>1
    <3>2. WorkersOn(g)' = {w}
      BY <2>1, <2>2, <2>3 DEF WorkersOn, JobInv, TypeOK
    <3> QED
      BY <3>1, <3>2, <2>3 DEF Places, JobInv, RunOnce
  <2>5. \A k \in Jobs \ {g} : WorkersOn(k)' = WorkersOn(k)
    BY <1>4, <2>1, <2>2, NoJobFresh DEF Receive, WorkersOn, JobInv, TypeOK, ActorsHaveJobs
  <2>6. ASSUME NEW k \in Jobs, k # g
        PROVE  /\ \A a, b \in Places(k)' : a = b
               /\ Places(k) = {} => Places(k)' = {}
    <3>1. \A a \in Places(k)' : a \in Int /\ a + 1 \in Places(k)
      BY <2>1 DEF Places
    <3>2. \A a, b \in Places(k) : a = b
      BY DEF JobInv, RunOnce
    <3> QED
      BY <3>1, <3>2
  <2> QED
    BY <2>1, <2>3, <2>4, <2>5, <2>6 DEF JobInv, RunOnce
<1>5. ASSUME NEW w \in Workers, Stop(w) PROVE RunOnce'
  BY <1>5, RunOnceFrame DEF JobInv, Stop, jobVars
<1>6. ASSUME NEW w \in Workers, Exit(w) PROVE RunOnce'
  BY <1>6, RunOnceFrame DEF JobInv, Exit, jobVars
<1>7. ASSUME NEW w \in Workers, SkipCanceled(w) PROVE RunOnce'
  BY <1>7, RunOnceFrame DEF JobInv, SkipCanceled, jobVars
<1>8. ASSUME NEW w \in Workers, Start(w) PROVE RunOnce'
  BY <1>8, RunOnceFrame DEF JobInv, Start, jobVars
<1>9. ASSUME NEW w \in Workers, NEW result \in Results, Finish(w, result) PROVE RunOnce'
  BY <1>9, RunOnceFrame DEF JobInv, Finish, jobVars
<1>10. ASSUME NEW w \in Workers, WorkerHook(w) PROVE RunOnce'
  BY <1>10, RunOnceFrame DEF JobInv, WorkerHook, jobVars
<1>11. ASSUME NEW w \in Workers, CloseDone(w) PROVE RunOnce'
  <2>1. PICK g \in Jobs : g = wjob[w]
    BY <1>11 DEF CloseDone, JobInv, ActorsHaveJobs, TypeOK
  <2>2. WorkersOn(g) = {w} /\ Places(g) = {}
    BY <2>1 DEF JobInv, RunOnce, WorkersOn
  <2>3. WorkersOn(g)' = {} /\ \A k \in Jobs \ {g} : WorkersOn(k)' = WorkersOn(k)
    BY <1>11, <2>1, <2>2, NoJobFresh DEF CloseDone, WorkersOn, JobInv, TypeOK
  <2>4. \A k \in Jobs : Places(k)' = Places(k)
    BY <1>11 DEF CloseDone, Places
  <2>5. \A k \in Jobs \ {g} : doneCloses'[k] = doneCloses[k]
    BY <1>11, <2>1 DEF CloseDone, JobInv, TypeOK
  <2> QED
    BY <2>2, <2>3, <2>4, <2>5 DEF JobInv, RunOnce
<1>12. ASSUME NEW c \in Cancelers, NEW j \in Jobs, CancelLookup(c, j) PROVE RunOnce'
  BY <1>12, RunOnceFrame DEF JobInv, CancelLookup, jobVars
<1>13. ASSUME NEW c \in Cancelers, CancelMark(c) PROVE RunOnce'
  BY <1>13, RunOnceFrame DEF JobInv, CancelMark, jobVars
<1>14. ASSUME NEW c \in Cancelers, CancelRefused(c) PROVE RunOnce'
  BY <1>14, RunOnceFrame DEF JobInv, CancelRefused, jobVars
<1>15. ASSUME NEW c \in Cancelers, CancelContext(c) PROVE RunOnce'
  BY <1>15, RunOnceFrame DEF JobInv, CancelContext, jobVars
<1>16. ASSUME NEW c \in Cancelers, CancelHook(c) PROVE RunOnce'
  BY <1>16, RunOnceFrame DEF JobInv, CancelHook, jobVars
<1>17. ASSUME ShutdownBegin PROVE RunOnce'
  BY <1>17, RunOnceFrame DEF JobInv, ShutdownBegin, jobVars
<1>18. ASSUME ShutdownClean PROVE RunOnce'
  BY <1>18, RunOnceFrame DEF JobInv, ShutdownClean, jobVars
<1>19. ASSUME ShutdownTimeout PROVE RunOnce'
  BY <1>19, RunOnceFrame DEF JobInv, ShutdownTimeout, jobVars
<1> QED
  BY <1>0, <1>1, <1>2, <1>3, <1>4, <1>5, <1>6, <1>7, <1>8, <1>9, <1>10,
     <1>11, <1>12, <1>13, <1>14, <1>15, <1>16, <1>17, <1>18, <1>19
     DEF Next, WorkerStep, CancelStep, ShutdownStep

(* An active job is never lost between the queue and the workers. *)
LEMMA SomewhereStep == JobInv /\ [Next]_vars => ActiveSomewhere'
<1> SUFFICES ASSUME JobInv, [Next]_vars PROVE ActiveSomewhere'
  OBVIOUS
<1> USE NoJobFresh DEF JobInv, TypeOK, ActiveSomewhere, Places, Active, Terminal, Results
<1>0. CASE UNCHANGED vars
  BY <1>0 DEF vars, jobVars
<1>1. ASSUME NEW j \in Jobs, Submit(j) PROVE ActiveSomewhere'
  BY <1>1 DEF Submit, jobVars, ActorsHaveJobs, StatusFitsPlace, Outcome, RunOnce, WorkersOn
<1>2. ASSUME NEW j \in Jobs, DeleteJob(j) PROVE ActiveSomewhere'
  BY <1>2 DEF DeleteJob, jobVars, ActorsHaveJobs, StatusFitsPlace, Outcome, RunOnce, WorkersOn
<1>3. ASSUME NEW S \in SUBSET Jobs, CleanupOldJobs(S) PROVE ActiveSomewhere'
  BY <1>3 DEF CleanupOldJobs, jobVars, ActorsHaveJobs, StatusFitsPlace, Outcome, RunOnce, WorkersOn
<1>4. ASSUME NEW w \in Workers, Receive(w) PROVE ActiveSomewhere'
  <2>1. /\ Len(queue') = Len(queue) - 1 /\ Len(queue) \in Nat /\ Len(queue) >= 1
        /\ \A i \in 1..Len(queue') : queue'[i] = queue[i + 1]
        /\ queue[1] \in Jobs /\ wjob' = [wjob EXCEPT ![w] = queue[1]]
        /\ wpc' = [wpc EXCEPT ![w] = "take"] /\ status' = status
    BY <1>4, TailFacts DEF Receive, jobVars
  <2>2. ASSUME NEW j \in Jobs, NEW i \in Places(j)
        PROVE  Places(j)' # {} \/ (wjob'[w] = j /\ wpc'[w] = "take")
    <3>1. CASE i = 1
      BY <2>1, <3>1
    <3>2. CASE i # 1
      <4>1. i \in 1..Len(queue) /\ queue[i] = j
        OBVIOUS
      <4>2. i - 1 \in 1..Len(queue') /\ (i - 1) + 1 = i
        BY <2>1, <3>2, <4>1
      <4>3. queue'[i - 1] = j
        BY <2>1, <4>1, <4>2
      <4> QED
        BY <4>2, <4>3
    <3> QED
      BY <3>1, <3>2
  <2>3. \A v \in Workers : wpc[v] \in {"take", "run"} => v # w /\ wpc'[v] = wpc[v] /\ wjob'[v] = wjob[v]
    BY <1>4, <2>1 DEF Receive
  <2> QED
    BY <2>1, <2>2, <2>3
<1>5. ASSUME NEW w \in Workers, Stop(w) PROVE ActiveSomewhere'
  BY <1>5 DEF Stop, jobVars, ActorsHaveJobs, StatusFitsPlace, Outcome, RunOnce, WorkersOn
<1>6. ASSUME NEW w \in Workers, Exit(w) PROVE ActiveSomewhere'
  BY <1>6 DEF Exit, jobVars, ActorsHaveJobs, StatusFitsPlace, Outcome, RunOnce, WorkersOn
<1>7. ASSUME NEW w \in Workers, SkipCanceled(w) PROVE ActiveSomewhere'
  BY <1>7 DEF SkipCanceled, jobVars, ActorsHaveJobs, StatusFitsPlace, Outcome, RunOnce, WorkersOn
<1>8. ASSUME NEW w \in Workers, Start(w) PROVE ActiveSomewhere'
  BY <1>8 DEF Start, jobVars, ActorsHaveJobs, StatusFitsPlace, Outcome, RunOnce, WorkersOn
<1>9. ASSUME NEW w \in Workers, NEW result \in Results, Finish(w, result) PROVE ActiveSomewhere'
  <2>1. PICK g \in Jobs : g = wjob[w]
    BY <1>9 DEF Finish, ActorsHaveJobs
  <2>2. status[g] \in {"running", "canceled"} /\ Outcome(g, result) \in Terminal
    BY <1>9, <2>1 DEF Finish, StatusFitsPlace, Outcome
  <2>3. /\ status' = [status EXCEPT ![g] = Outcome(g, result)]
        /\ UNCHANGED <<queue, wjob>> /\ \A v \in Workers \ {w} : wpc'[v] = wpc[v]
    BY <1>9, <2>1 DEF Finish
  <2>4. status'[g] \in Terminal /\ \A j \in Jobs \ {g} : status'[j] = status[j]
    BY <2>2, <2>3
  <2>5. \A j \in Jobs : Places(j)' = Places(j)
    BY <2>3
  <2>6. \A j \in Jobs \ {g}, v \in Workers : wjob[v] = j => v # w
    BY <2>1
  <2> HIDE DEF Places
  <2> QED
    BY <2>1, <2>3, <2>4, <2>5, <2>6
<1>10. ASSUME NEW w \in Workers, WorkerHook(w) PROVE ActiveSomewhere'
  BY <1>10 DEF WorkerHook, jobVars, ActorsHaveJobs, StatusFitsPlace, Outcome, RunOnce, WorkersOn
<1>11. ASSUME NEW w \in Workers, CloseDone(w) PROVE ActiveSomewhere'
  BY <1>11 DEF CloseDone, jobVars, ActorsHaveJobs, StatusFitsPlace, Outcome, RunOnce, WorkersOn
<1>12. ASSUME NEW c \in Cancelers, NEW j \in Jobs, CancelLookup(c, j) PROVE ActiveSomewhere'
  BY <1>12 DEF CancelLookup, jobVars, ActorsHaveJobs, StatusFitsPlace, Outcome, RunOnce, WorkersOn
<1>13. ASSUME NEW c \in Cancelers, CancelMark(c) PROVE ActiveSomewhere'
  BY <1>13 DEF CancelMark, jobVars, ActorsHaveJobs, StatusFitsPlace, Outcome, RunOnce, WorkersOn
<1>14. ASSUME NEW c \in Cancelers, CancelRefused(c) PROVE ActiveSomewhere'
  BY <1>14 DEF CancelRefused, jobVars, ActorsHaveJobs, StatusFitsPlace, Outcome, RunOnce, WorkersOn
<1>15. ASSUME NEW c \in Cancelers, CancelContext(c) PROVE ActiveSomewhere'
  BY <1>15 DEF CancelContext, jobVars, ActorsHaveJobs, StatusFitsPlace, Outcome, RunOnce, WorkersOn
<1>16. ASSUME NEW c \in Cancelers, CancelHook(c) PROVE ActiveSomewhere'
  BY <1>16 DEF CancelHook, jobVars, ActorsHaveJobs, StatusFitsPlace, Outcome, RunOnce, WorkersOn
<1>17. ASSUME ShutdownBegin PROVE ActiveSomewhere'
  BY <1>17 DEF ShutdownBegin, jobVars, ActorsHaveJobs, StatusFitsPlace, Outcome, RunOnce, WorkersOn
<1>18. ASSUME ShutdownClean PROVE ActiveSomewhere'
  BY <1>18 DEF ShutdownClean, jobVars, ActorsHaveJobs, StatusFitsPlace, Outcome, RunOnce, WorkersOn
<1>19. ASSUME ShutdownTimeout PROVE ActiveSomewhere'
  BY <1>19 DEF ShutdownTimeout, jobVars, ActorsHaveJobs, StatusFitsPlace, Outcome, RunOnce, WorkersOn
<1> QED
  BY <1>0, <1>1, <1>2, <1>3, <1>4, <1>5, <1>6, <1>7, <1>8, <1>9, <1>10,
     <1>11, <1>12, <1>13, <1>14, <1>15, <1>16, <1>17, <1>18, <1>19
     DEF Next, WorkerStep, CancelStep, ShutdownStep

(* Start stores job.cancel in the section that makes the job running, so a   *)
(* CancelJob that finds it running also finds the cancel function.           *)
LEMMA CancelStepInv == JobInv /\ [Next]_vars => CancelOnItsWay'
<1> SUFFICES ASSUME JobInv, [Next]_vars PROVE CancelOnItsWay'
  OBVIOUS
<1> USE NoJobFresh DEF JobInv, TypeOK, CancelOnItsWay, Active, Terminal
<1>0. CASE UNCHANGED vars
  BY <1>0 DEF vars, jobVars
<1>1. ASSUME NEW j \in Jobs, Submit(j) PROVE CancelOnItsWay'
  BY <1>1 DEF Submit, jobVars, ActorsHaveJobs, StatusFitsPlace, RunOnce, WorkersOn, Outcome
<1>2. ASSUME NEW j \in Jobs, DeleteJob(j) PROVE CancelOnItsWay'
  BY <1>2 DEF DeleteJob, jobVars, ActorsHaveJobs, StatusFitsPlace, RunOnce, WorkersOn, Outcome
<1>3. ASSUME NEW S \in SUBSET Jobs, CleanupOldJobs(S) PROVE CancelOnItsWay'
  BY <1>3 DEF CleanupOldJobs, jobVars, ActorsHaveJobs, StatusFitsPlace, RunOnce, WorkersOn, Outcome
<1>4. ASSUME NEW w \in Workers, Receive(w) PROVE CancelOnItsWay'
  BY <1>4 DEF Receive, jobVars, ActorsHaveJobs, StatusFitsPlace, RunOnce, WorkersOn, Outcome
<1>5. ASSUME NEW w \in Workers, Stop(w) PROVE CancelOnItsWay'
  BY <1>5 DEF Stop, jobVars, ActorsHaveJobs, StatusFitsPlace, RunOnce, WorkersOn, Outcome
<1>6. ASSUME NEW w \in Workers, Exit(w) PROVE CancelOnItsWay'
  BY <1>6 DEF Exit, jobVars, ActorsHaveJobs, StatusFitsPlace, RunOnce, WorkersOn, Outcome
<1>7. ASSUME NEW w \in Workers, SkipCanceled(w) PROVE CancelOnItsWay'
  BY <1>7 DEF SkipCanceled, jobVars, ActorsHaveJobs, StatusFitsPlace, RunOnce, WorkersOn, Outcome
<1>8. ASSUME NEW w \in Workers, Start(w) PROVE CancelOnItsWay'
  BY <1>8 DEF Start, jobVars, ActorsHaveJobs, StatusFitsPlace, RunOnce, WorkersOn, Outcome
<1>9. ASSUME NEW w \in Workers, NEW result \in Results, Finish(w, result) PROVE CancelOnItsWay'
  BY <1>9 DEF Finish, jobVars, ActorsHaveJobs, StatusFitsPlace, RunOnce, WorkersOn, Outcome
<1>10. ASSUME NEW w \in Workers, WorkerHook(w) PROVE CancelOnItsWay'
  BY <1>10 DEF WorkerHook, jobVars, ActorsHaveJobs, StatusFitsPlace, RunOnce, WorkersOn, Outcome
<1>11. ASSUME NEW w \in Workers, CloseDone(w) PROVE CancelOnItsWay'
  BY <1>11 DEF CloseDone, jobVars, ActorsHaveJobs, StatusFitsPlace, RunOnce, WorkersOn, Outcome
<1>12. ASSUME NEW c \in Cancelers, NEW j \in Jobs, CancelLookup(c, j) PROVE CancelOnItsWay'
  BY <1>12 DEF CancelLookup, jobVars, ActorsHaveJobs, StatusFitsPlace, RunOnce, WorkersOn, Outcome
<1>13. ASSUME NEW c \in Cancelers, CancelMark(c) PROVE CancelOnItsWay'
  BY <1>13 DEF CancelMark, jobVars, ActorsHaveJobs, StatusFitsPlace, RunOnce, WorkersOn, Outcome
<1>14. ASSUME NEW c \in Cancelers, CancelRefused(c) PROVE CancelOnItsWay'
  BY <1>14 DEF CancelRefused, jobVars, ActorsHaveJobs, StatusFitsPlace, RunOnce, WorkersOn, Outcome
<1>15. ASSUME NEW c \in Cancelers, CancelContext(c) PROVE CancelOnItsWay'
  BY <1>15 DEF CancelContext, jobVars, ActorsHaveJobs, StatusFitsPlace, RunOnce, WorkersOn, Outcome
<1>16. ASSUME NEW c \in Cancelers, CancelHook(c) PROVE CancelOnItsWay'
  BY <1>16 DEF CancelHook, jobVars, ActorsHaveJobs, StatusFitsPlace, RunOnce, WorkersOn, Outcome
<1>17. ASSUME ShutdownBegin PROVE CancelOnItsWay'
  BY <1>17 DEF ShutdownBegin, jobVars, ActorsHaveJobs, StatusFitsPlace, RunOnce, WorkersOn, Outcome
<1>18. ASSUME ShutdownClean PROVE CancelOnItsWay'
  BY <1>18 DEF ShutdownClean, jobVars, ActorsHaveJobs, StatusFitsPlace, RunOnce, WorkersOn, Outcome
<1>19. ASSUME ShutdownTimeout PROVE CancelOnItsWay'
  BY <1>19 DEF ShutdownTimeout, jobVars, ActorsHaveJobs, StatusFitsPlace, RunOnce, WorkersOn, Outcome
<1> QED
  BY <1>0, <1>1, <1>2, <1>3, <1>4, <1>5, <1>6, <1>7, <1>8, <1>9, <1>10,
     <1>11, <1>12, <1>13, <1>14, <1>15, <1>16, <1>17, <1>18, <1>19
     DEF Next, WorkerStep, CancelStep, ShutdownStep

(* The invariant is inductive. *)
LEMMA JobInvStep == JobInv /\ [Next]_vars => JobInv'
  BY TypeStep, ActorsStep, RunOnceStep, FitsStep, SomewhereStep, ReachableStep,
     ShutdownStepInv, CancelStepInv DEF JobInv

LEMMA JobInvHolds == Spec => []JobInv
  BY InitJobInv, JobInvStep, PTL DEF Spec

-----------------------------------------------------------------------------
(* The state of jobs, queue, workers and cancelers keeps its types: the     *)
(* queue never exceeds its capacity and no done channel is closed twice.    *)
THEOREM JobTypeCorrect == Spec => []TypeOK
<1>1. JobInv => TypeOK
  BY DEF JobInv
<1> QED
  BY <1>1, JobInvHolds, PTL

(* executeJob is entered once per submitted job: a job is in the queue or   *)
(* with one worker, and nowhere once its done channel is closed.            *)
THEOREM JobsRunOnce == Spec => []RunOnce
<1>1. JobInv => RunOnce
  BY DEF JobInv
<1> QED
  BY <1>1, JobInvHolds, PTL

(* DeleteJob and cleanupOldJobs never take a pending or running job out of  *)
(* the map.                                                                 *)
THEOREM JobsActiveReachable == Spec => []ActiveReachable
<1>1. JobInv => ActiveReachable
  BY DEF JobInv
<1> QED
  BY <1>1, JobInvHolds, PTL

(* CancelJob never returns with the context of a running canceled job still *)
(* alive.                                                                   *)
THEOREM JobsCancelReachesRun == Spec => []CancelReachesRun
<1>1. JobInv => CancelReachesRun
  BY DEF JobInv, CancelOnItsWay, CancelReachesRun
<1> QED
  BY <1>1, JobInvHolds, PTL

(* After a clean Shutdown no job is pending or running, for any number of   *)
(* workers and any queue size.                                              *)
THEOREM JobsCleanShutdown == Spec => []CleanShutdownFinishesAll
<1>1. JobInv => CleanShutdownFinishesAll
  <2> SUFFICES ASSUME JobInv, spc = "clean", NEW j \in Jobs
               PROVE  status[j] \notin Active
    BY DEF CleanShutdownFinishesAll
  <2>1. \A w \in Workers : wpc[w] = "exited"
    BY DEF JobInv, ShutdownInv, AllExited
  <2>2. queue = <<>>
    BY <2>1, WorkersExist DEF JobInv, ShutdownInv
  <2>3. Places(j) = {}
    BY <2>2 DEF Places
  <2> QED
    BY <2>1, <2>3 DEF JobInv, ActiveSomewhere, Active
<1> QED
  BY <1>1, JobInvHolds, PTL

(* Shutdown ends no job's context before its timeout has passed. *)
THEOREM JobsShutdownPatient == Spec => []ShutdownLetsJobsFinish
<1>1. JobInv => ShutdownLetsJobsFinish
  BY DEF JobInv, ShutdownInv, ShutdownLetsJobsFinish
<1> QED
  BY <1>1, JobInvHolds, PTL

(* A step either leaves every status alone or changes one of them: that of  *)
(* a job whose done channel is open, along the edges of the life cycle.     *)
StatusMoves(j) ==
    /\ doneCloses[j] = 0
    /\ doneCloses' = doneCloses
    /\ \/ status[j] = "none" /\ status' = [status EXCEPT ![j] = "pending"]
       \/ status[j] = "pending" /\ status' = [status EXCEPT ![j] = "running"]
       \/ status[j] \in Active /\ status' = [status EXCEPT ![j] = "canceled"]
       \/ /\ status[j] = "running"
          /\ \E to \in Terminal : status' = [status EXCEPT ![j] = to]
       \/ status[j] = "canceled" /\ status' = [status EXCEPT ![j] = "failed"]

DoneCloses(j) ==
    /\ status[j] \in Terminal
    /\ doneCloses[j] = 0
    /\ doneCloses' = [doneCloses EXCEPT ![j] = 1]
    /\ status' = status

LEMMA StatusStep ==
    ASSUME JobInv, [Next]_vars
    PROVE  \/ UNCHANGED <<status, doneCloses>>
           \/ \E j \in Jobs : StatusMoves(j) \/ DoneCloses(j)
<1> DEFINE Goal == \/ UNCHANGED <<status, doneCloses>>
                   \/ \E j \in Jobs : StatusMoves(j) \/ DoneCloses(j)
<1>a. ASSUME NEW w \in Workers, wpc[w] \in {"take", "run", "hook", "close"}
      PROVE  wjob[w] \in Jobs /\ doneCloses[wjob[w]] = 0
  <2>1. wjob[w] \in Jobs
    BY <1>a, BusyWorkerHasJob DEF JobInv
  <2>2. doneCloses[wjob[w]] # 1
    BY <2>1 DEF JobInv, RunOnce, WorkersOn
  <2> QED
    BY <2>1, <2>2 DEF JobInv, TypeOK
<1>b. ASSUME NEW j \in Jobs, status[j] \notin Terminal
      PROVE  doneCloses[j] = 0
  BY <1>b DEF JobInv, StatusFitsPlace, TypeOK
<1>1. ASSUME NEW j \in Jobs, Submit(j) PROVE Goal
  BY <1>1, <1>b DEF Submit, StatusMoves, Terminal
<1>2. ASSUME NEW w \in Workers, Start(w) PROVE Goal
  <2>1. status[wjob[w]] = "pending"
    BY <1>2 DEF Start, JobInv, StatusFitsPlace
  <2> QED
    BY <1>2, <1>a, <2>1 DEF Start, StatusMoves
<1>3. ASSUME NEW w \in Workers, NEW result \in Results, Finish(w, result) PROVE Goal
  <2>1. PICK g \in Jobs : g = wjob[w] /\ doneCloses[g] = 0
    BY <1>3, <1>a DEF Finish
  <2>2. status[g] \in {"running", "canceled"}
    BY <1>3, <2>1 DEF Finish, JobInv, StatusFitsPlace
  <2>3. status' = [status EXCEPT ![g] = Outcome(g, result)] /\ doneCloses' = doneCloses
    BY <1>3, <2>1 DEF Finish
  <2>4. CASE status[g] = "running"
    <3>1. Outcome(g, result) \in Terminal
      BY <2>4 DEF Outcome, Results, Terminal
    <3> QED
      BY <2>1, <2>3, <2>4, <3>1 DEF StatusMoves
  <2>5. CASE status[g] = "canceled" /\ result = "panic"
    BY <2>1, <2>3, <2>5 DEF StatusMoves, Outcome
  <2>6. CASE status[g] = "canceled" /\ result # "panic"
    <3>1. Outcome(g, result) = status[g]
      BY <2>6 DEF Outcome
    <3> QED
      BY <2>3, <3>1 DEF JobInv, TypeOK
  <2> QED
    BY <2>2, <2>4, <2>5, <2>6
<1>4. ASSUME NEW w \in Workers, CloseDone(w) PROVE Goal
  <2>1. PICK g \in Jobs : g = wjob[w] /\ doneCloses[g] = 0
    BY <1>4, <1>a DEF CloseDone
  <2>2. status[g] \in Terminal
    BY <1>4, <2>1 DEF CloseDone, JobInv, StatusFitsPlace
  <2>3. doneCloses' = [doneCloses EXCEPT ![g] = 1] /\ status' = status
    BY <1>4, <2>1 DEF CloseDone, JobInv, TypeOK
  <2> QED
    BY <2>1, <2>2, <2>3 DEF DoneCloses
<1>5. ASSUME NEW c \in Cancelers, CancelMark(c) PROVE Goal
  <2>1. cjob[c] \in Jobs
    BY <1>5 DEF CancelMark, JobInv, TypeOK, ActorsHaveJobs
  <2>2. doneCloses[cjob[c]] = 0
    BY <1>5, <1>b, <2>1 DEF CancelMark, Active, Terminal
  <2> QED
    BY <1>5, <2>1, <2>2 DEF CancelMark, StatusMoves
<1>6. ASSUME NEW j \in Jobs, DeleteJob(j) PROVE Goal
  BY <1>6 DEF DeleteJob, jobVars
<1>7. ASSUME NEW S \in SUBSET Jobs, CleanupOldJobs(S) PROVE Goal
  BY <1>7 DEF CleanupOldJobs, jobVars
<1>8. ASSUME NEW w \in Workers,
             Receive(w) \/ Stop(w) \/ Exit(w) \/ SkipCanceled(w) \/ WorkerHook(w)
      PROVE  Goal
  BY <1>8 DEF Receive, Stop, Exit, SkipCanceled, WorkerHook, jobVars
<1>9. ASSUME NEW c \in Cancelers,
             \/ CancelRefused(c) \/ CancelContext(c) \/ CancelHook(c)
             \/ \E j \in Jobs : CancelLookup(c, j)
      PROVE  Goal
  BY <1>9 DEF CancelRefused, CancelContext, CancelHook, CancelLookup, jobVars
<1>10. ASSUME ShutdownStep \/ UNCHANGED vars PROVE Goal
  BY <1>10 DEF ShutdownStep, ShutdownBegin, ShutdownClean, ShutdownTimeout, vars, jobVars
<1> HIDE DEF Goal
<1>11. ASSUME NEW w \in Workers, WorkerStep(w) PROVE Goal
  BY <1>2, <1>3, <1>4, <1>8, <1>11 DEF WorkerStep
<1>12. ASSUME NEW c \in Cancelers, CancelStep(c) PROVE Goal
  BY <1>5, <1>9, <1>12 DEF CancelStep
<1>13. ASSUME Next PROVE Goal
  BY <1>1, <1>6, <1>7, <1>9, <1>10, <1>11, <1>12, <1>13 DEF Next
<1> QED
  BY <1>10, <1>13 DEF Goal

(* No step turns a canceled job into a completed one: executeJob rechecks   *)
(* the status in the critical section in which it records the result.       *)
THEOREM JobsCanceledNeverComplete == Spec => CanceledNeverCompletes
<1>1. ASSUME JobInv, [Next]_vars
      PROVE  [\A j \in Jobs : status[j] = "canceled" => status'[j] # "completed"]_vars
  BY <1>1, StatusStep DEF JobInv, TypeOK, StatusMoves, DoneCloses, Active, Terminal
<1> QED
  BY <1>1, JobInvHolds, PTL DEF Spec, CanceledNeverCompletes

(* The job manager implements JobLifecycle: every step is a step of one     *)
(* job's life cycle or leaves what a client can observe unchanged.          *)
THEOREM JobsImplementLifecycle == Spec => ImplementsLifecycle
<1>1. Init => Lifecycle!Init
  BY DEF Init, Lifecycle!Init
<1>2. ASSUME JobInv, [Next]_vars
      PROVE  [Lifecycle!Next]_(Lifecycle!vars)
  <2>1. CASE UNCHANGED <<status, doneCloses>>
    BY <2>1 DEF Lifecycle!vars
  <2>2. ASSUME NEW j \in Jobs, StatusMoves(j)
        PROVE  Lifecycle!Next
    <3>1. /\ j \notin {k \in Jobs : doneCloses[k] = 1}
          /\ {k \in Jobs : doneCloses'[k] = 1} = {k \in Jobs : doneCloses[k] = 1}
      BY <2>2 DEF StatusMoves
    <3>2. \/ Lifecycle!Accept(j) \/ Lifecycle!Begin(j) \/ Lifecycle!Cancel(j)
          \/ Lifecycle!End(j) \/ Lifecycle!Panic(j)
      BY <2>2, <3>1 DEF StatusMoves, Active, Terminal, Lifecycle!Accept, Lifecycle!Begin,
         Lifecycle!Cancel, Lifecycle!End, Lifecycle!Panic, Lifecycle!Move
    <3> QED
      BY <3>2 DEF Lifecycle!Next
  <2>3. ASSUME NEW j \in Jobs, DoneCloses(j)
        PROVE  Lifecycle!Next
    <3>1. /\ j \notin {k \in Jobs : doneCloses[k] = 1}
          /\ {k \in Jobs : doneCloses'[k] = 1} = {k \in Jobs : doneCloses[k] = 1} \cup {j}
      BY <1>2, <2>3 DEF DoneCloses, JobInv, TypeOK
    <3>2. Lifecycle!Close(j)
      BY <2>3, <3>1 DEF DoneCloses, Terminal, Lifecycle!Close
    <3> QED
      BY <3>2 DEF Lifecycle!Next
  <2> QED
    BY <1>2, <2>1, <2>2, <2>3, StatusStep
<1> QED
  BY <1>1, <1>2, JobInvHolds, PTL DEF Spec, ImplementsLifecycle, Lifecycle!Spec

-----------------------------------------------------------------------------
(* The job service: the manager with its rows and restarts. *)

(* The manager's steps that touch no row, no status and no canceler. *)
QuietStep ==
    \/ \E w \in Workers : \/ Receive(w) \/ Stop(w) \/ Exit(w)
                          \/ SkipCanceled(w) \/ CloseDone(w)
    \/ \E S \in SUBSET Jobs : CleanupOldJobs(S)
    \/ ShutdownStep

(* None of them starts or ends an update hook. *)
LEMMA QuietFrame ==
    ASSUME JobInv, QuietStep
    PROVE  /\ UNCHANGED <<status, cpc, cjob>>
           /\ \A w \in Workers :
                 /\ wpc'[w] = "hook" <=> wpc[w] = "hook"
                 /\ wpc[w] = "hook" => wjob'[w] = wjob[w]
<1>1. ASSUME NEW w \in Workers, Receive(w) \/ Stop(w) \/ Exit(w) \/ SkipCanceled(w)
      PROVE  /\ UNCHANGED <<status, cpc, cjob>>
             /\ \A v \in Workers :
                   /\ wpc'[v] = "hook" <=> wpc[v] = "hook"
                   /\ wpc[v] = "hook" => wjob'[v] = wjob[v]
  BY <1>1 DEF Receive, Stop, Exit, SkipCanceled, JobInv, TypeOK, jobVars
<1>2. ASSUME NEW w \in Workers, CloseDone(w)
      PROVE  /\ UNCHANGED <<status, cpc, cjob>>
             /\ \A v \in Workers :
                   /\ wpc'[v] = "hook" <=> wpc[v] = "hook"
                   /\ wpc[v] = "hook" => wjob'[v] = wjob[v]
  BY <1>2 DEF CloseDone, JobInv, TypeOK
<1>3. ASSUME \/ \E S \in SUBSET Jobs : CleanupOldJobs(S)
             \/ ShutdownStep
      PROVE  UNCHANGED <<status, cpc, cjob, wpc, wjob>>
  BY <1>3 DEF CleanupOldJobs, ShutdownStep, ShutdownBegin, ShutdownClean,
              ShutdownTimeout, jobVars
<1> QED
  BY <1>1, <1>2, <1>3 DEF QuietStep

(* The steps of the service, one disjunct for each way to change the rows, *)
(* the handlers or what they read.                                         *)
LEMMA StepCases ==
    ASSUME [ServiceNext]_allVars
    PROVE
    \/ UNCHANGED allVars
    \/ QuietStep /\ UNCHANGED serviceVars
    \/ \E w \in Workers : Start(w) /\ UNCHANGED serviceVars
    \/ \E w \in Workers : \E result \in Results : FinishJob(w, result)
    \/ \E c \in Cancelers : CancelMark(c) /\ UNCHANGED serviceVars
    \/ \E c \in Cancelers : CancelRefused(c) /\ UNCHANGED serviceVars
    \/ \E c \in Cancelers : CancelContext(c) /\ UNCHANGED serviceVars
    \/ \E j \in Jobs : SubmitJob(j)
    \/ \E j \in Jobs : CreateJobSnapshot(j)
    \/ \E j \in Jobs : \E ok \in DbOutcomes : CreateJobInsert(j, ok)
    \/ \E j \in Jobs : HandleDeleteJob(j)
    \/ \E j \in Jobs : \E ok \in DbOutcomes : DeleteJobRow(j, ok)
    \/ \E j \in Jobs : DeleteStoredJob(j)
    \/ \E w \in Workers : WorkerHookSnapshot(w)
    \/ \E w \in Workers : \E ok \in DbOutcomes : WorkerHookWrite(w, ok)
    \/ \E c \in Cancelers : \E j \in Jobs : HandleCancelJob(c, j)
    \/ \E c \in Cancelers : CancelHookSnapshot(c)
    \/ \E c \in Cancelers : \E ok \in DbOutcomes : CancelHookWrite(c, ok)
    \/ \E c \in Cancelers : HandlerSnapshot(c)
    \/ \E c \in Cancelers : \E ok \in DbOutcomes : HandlerWrite(c, ok)
    \/ \E S \in SUBSET Jobs : \E ok \in DbOutcomes : Restart(S, ok)
  BY DEF ServiceNext, ManagerWorkerStep, ManagerOtherStep, QuietStep

(* A step of the service is a step of the manager, leaves the manager      *)
(* alone, or starts a new one.                                             *)
LEMMA ServiceJobStep == JobInv /\ [ServiceNext]_allVars => JobInv'
<1> SUFFICES ASSUME JobInv, [ServiceNext]_allVars PROVE JobInv'
  OBVIOUS
<1>1. ASSUME NEW S \in SUBSET Jobs, NEW ok \in DbOutcomes, Restart(S, ok) PROVE JobInv'
  <2>1. Init'
    BY <1>1 DEF Restart, Init
  <2>2. Init' => JobInv'
    BY InitJobInv, PTL
  <2> QED
    BY <2>1, <2>2
<1>2. ASSUME ~ \E S \in SUBSET Jobs : \E ok \in DbOutcomes : Restart(S, ok) PROVE [Next]_vars
  BY <1>2 DEF ServiceNext, ManagerWorkerStep, ManagerOtherStep, FinishJob, SubmitJob,
     CreateJobSnapshot, CreateJobInsert, HandleDeleteJob, DeleteStoredJob, DeleteJobRow,
     WorkerHookSnapshot, WorkerHookWrite, HandleCancelJob, CancelHookSnapshot,
     CancelHookWrite, HandlerSnapshot, HandlerWrite, Next, WorkerStep, CancelStep,
     ShutdownStep, allVars
<1> QED
  BY <1>1, <1>2, JobInvStep

(* UpdateJob changes the row it finds and no other. *)
LEMMA UpdateJobRow ==
    ASSUME ServiceTypeOK, NEW j \in Jobs, NEW snap, NEW ok \in BOOLEAN,
           UpdateJob(j, snap, ok)
    PROVE  /\ \A k \in Jobs : k # j => row'[k] = row[k] /\ lost'[k] = lost[k]
           /\ row'[j] = IF ok /\ row[j] # "absent" THEN snap ELSE row[j]
           /\ ~lost'[j] => ok /\ ~lost[j]
  BY DEF UpdateJob, ServiceTypeOK

(* No step leaves the types. *)
LEMMA ServiceTypeStep == ServiceInv /\ [ServiceNext]_allVars => ServiceTypeOK'
<1> SUFFICES ASSUME ServiceInv, [ServiceNext]_allVars PROVE ServiceTypeOK'
  OBVIOUS
<1>t. TypeOK'
  BY ServiceJobStep DEF ServiceInv, JobInv
<1> USE <1>t, DbOutcomesBoolean, MaxRestartsNat DEF ServiceInv, ServiceTypeOK, JobInv,
   RowStatus, Snap, Active, Terminal
<1> USE DEF rowVars, handlerVars, historyVars, serviceVars
<1>0. ASSUME UNCHANGED allVars PROVE ServiceTypeOK'
  BY <1>0 DEF allVars, vars, jobVars
<1>1. ASSUME QuietStep /\ UNCHANGED serviceVars PROVE ServiceTypeOK'
  BY <1>1, QuietFrame
<1>2. ASSUME NEW w \in Workers, Start(w) /\ UNCHANGED serviceVars PROVE ServiceTypeOK'
  BY <1>2 DEF Start
<1>3. ASSUME NEW w \in Workers, NEW result \in Results, FinishJob(w, result) PROVE ServiceTypeOK'
  BY <1>3 DEF FinishJob, Finish, Outcome, Results
<1>4. ASSUME NEW c \in Cancelers, CancelMark(c) /\ UNCHANGED serviceVars PROVE ServiceTypeOK'
  BY <1>4 DEF CancelMark
<1>5. ASSUME NEW c \in Cancelers, CancelRefused(c) /\ UNCHANGED serviceVars PROVE ServiceTypeOK'
  BY <1>5 DEF CancelRefused, jobVars
<1>6. ASSUME NEW c \in Cancelers, CancelContext(c) /\ UNCHANGED serviceVars PROVE ServiceTypeOK'
  BY <1>6 DEF CancelContext
<1>7. ASSUME NEW j \in Jobs, SubmitJob(j) PROVE ServiceTypeOK'
  BY <1>7 DEF SubmitJob, Submit
<1>8. ASSUME NEW j \in Jobs, CreateJobSnapshot(j) PROVE ServiceTypeOK'
  BY <1>8 DEF CreateJobSnapshot, vars, jobVars, TypeOK, SubmittedOnce
<1>9. ASSUME NEW j \in Jobs, NEW ok \in DbOutcomes, CreateJobInsert(j, ok) PROVE ServiceTypeOK'
  BY <1>9 DEF CreateJobInsert, vars, jobVars, SubmittedOnce
<1>10. ASSUME NEW j \in Jobs, HandleDeleteJob(j) PROVE ServiceTypeOK'
  BY <1>10 DEF HandleDeleteJob, DeleteJob, jobVars
<1>11. ASSUME NEW j \in Jobs, NEW ok \in DbOutcomes, DeleteJobRow(j, ok) PROVE ServiceTypeOK'
  BY <1>11 DEF DeleteJobRow, vars, jobVars
<1>12. ASSUME NEW j \in Jobs, DeleteStoredJob(j) PROVE ServiceTypeOK'
  BY <1>12 DEF DeleteStoredJob, vars, jobVars
<1>13. ASSUME NEW w \in Workers, WorkerHookSnapshot(w) PROVE ServiceTypeOK'
  BY <1>13, BusyWorkerHasJob DEF WorkerHookSnapshot, vars, jobVars, StatusFitsPlace, TypeOK
<1>14. ASSUME NEW w \in Workers, NEW ok \in DbOutcomes, WorkerHookWrite(w, ok) PROVE ServiceTypeOK'
  BY <1>14 DEF WorkerHookWrite, WorkerHook, UpdateJob, jobVars
<1>15. ASSUME NEW c \in Cancelers, NEW j \in Jobs, HandleCancelJob(c, j) PROVE ServiceTypeOK'
  BY <1>15 DEF HandleCancelJob, CancelLookup, jobVars
<1>16. ASSUME NEW c \in Cancelers, CancelHookSnapshot(c) PROVE ServiceTypeOK'
  BY <1>16 DEF CancelHookSnapshot, vars, jobVars, TypeOK, ActorsHaveJobs, StatusFitsPlace
<1>17. ASSUME NEW c \in Cancelers, NEW ok \in DbOutcomes, CancelHookWrite(c, ok) PROVE ServiceTypeOK'
  BY <1>17 DEF CancelHookWrite, CancelHook, UpdateJob, jobVars, TypeOK
<1>18. ASSUME NEW c \in Cancelers, HandlerSnapshot(c) PROVE ServiceTypeOK'
  BY <1>18 DEF HandlerSnapshot, vars, jobVars, CancelersFit
<1>19. ASSUME NEW c \in Cancelers, NEW ok \in DbOutcomes, HandlerWrite(c, ok) PROVE ServiceTypeOK'
  BY <1>19 DEF HandlerWrite, UpdateJob, vars, jobVars
<1>20. ASSUME NEW S \in SUBSET Jobs, NEW ok \in DbOutcomes, Restart(S, ok) PROVE ServiceTypeOK'
  BY <1>20 DEF Restart, Interrupted, TypeOK
<1> HIDE DEF rowVars, handlerVars, historyVars, serviceVars, ServiceInv, ServiceTypeOK,
   JobInv, RowStatus, Snap, Active, Terminal
<1> QED
  BY <1>0, <1>1, <1>2, <1>3, <1>4, <1>5, <1>6, <1>7, <1>8, <1>9, <1>10, <1>11, <1>12,
     <1>13, <1>14, <1>15, <1>16, <1>17, <1>18, <1>19, <1>20, StepCases

(* A job is submitted in one life of the daemon; its row comes with         *)
(* CreateJob and stays until it is deleted or pruned.                      *)
LEMMA SubmittedStep == ServiceInv /\ [ServiceNext]_allVars => SubmittedOnce'
<1> SUFFICES ASSUME ServiceInv, [ServiceNext]_allVars PROVE SubmittedOnce'
  OBVIOUS
<1> USE NoJobFresh, DbOutcomesBoolean DEF ServiceInv, ServiceTypeOK, JobInv, TypeOK,
   Active, Terminal, SubmittedOnce
<1> USE DEF rowVars, handlerVars, historyVars, serviceVars
<1>0. ASSUME UNCHANGED allVars PROVE SubmittedOnce'
  BY <1>0 DEF allVars, vars, jobVars
<1>1. ASSUME QuietStep /\ UNCHANGED serviceVars PROVE SubmittedOnce'
  BY <1>1, QuietFrame
<1>2. ASSUME NEW w \in Workers, Start(w) /\ UNCHANGED serviceVars PROVE SubmittedOnce'
  BY <1>2 DEF Start, ActorsHaveJobs, StatusFitsPlace
<1>3. ASSUME NEW w \in Workers, NEW result \in Results, FinishJob(w, result) PROVE SubmittedOnce'
  BY <1>3 DEF FinishJob, Finish, Outcome, Results, ActorsHaveJobs, StatusFitsPlace
<1>4. ASSUME NEW c \in Cancelers, CancelMark(c) /\ UNCHANGED serviceVars PROVE SubmittedOnce'
  BY <1>4 DEF CancelMark, ActorsHaveJobs
<1>5. ASSUME NEW c \in Cancelers, CancelRefused(c) /\ UNCHANGED serviceVars PROVE SubmittedOnce'
  BY <1>5 DEF CancelRefused, jobVars
<1>6. ASSUME NEW c \in Cancelers, CancelContext(c) /\ UNCHANGED serviceVars PROVE SubmittedOnce'
  BY <1>6 DEF CancelContext
<1>7. ASSUME NEW j \in Jobs, SubmitJob(j) PROVE SubmittedOnce'
  BY <1>7 DEF SubmitJob, Submit
<1>8. ASSUME NEW j \in Jobs, CreateJobSnapshot(j) PROVE SubmittedOnce'
  BY <1>8 DEF CreateJobSnapshot, vars, jobVars
<1>9. ASSUME NEW j \in Jobs, NEW ok \in DbOutcomes, CreateJobInsert(j, ok) PROVE SubmittedOnce'
  <2>1. /\ subSnap[j] \in Snap \ {"none"} /\ ok \in BOOLEAN
        /\ sub[j] = "snapped" /\ j \notin past
    BY <1>9 DEF CreateJobInsert
  <2>2. subSnap[j] # "absent"
    BY <2>1 DEF Snap
  <2>3. \A k \in Jobs : k # j => sub'[k] = sub[k] /\ row'[k] = row[k] /\ early'[k] = early[k]
    BY <1>9, <2>1 DEF CreateJobInsert
  <2>4. sub'[j] = "returned" /\ (early'[j] => row'[j] = subSnap[j])
    BY <1>9, <2>1 DEF CreateJobInsert
  <2>5. UNCHANGED <<status, past, outcome, recovered, del, subSnap>>
    BY <1>9 DEF CreateJobInsert, vars, jobVars
  <2>6. sub[j] # "none" /\ sub'[j] # "none"
    BY <2>1, <2>4
  <2> QED
    BY <2>1, <2>2, <2>3, <2>4, <2>5, <2>6
<1>10. ASSUME NEW j \in Jobs, HandleDeleteJob(j) PROVE SubmittedOnce'
  BY <1>10 DEF HandleDeleteJob, DeleteJob, jobVars
<1>11. ASSUME NEW j \in Jobs, NEW ok \in DbOutcomes, DeleteJobRow(j, ok) PROVE SubmittedOnce'
  BY <1>11 DEF DeleteJobRow, vars, jobVars
<1>12. ASSUME NEW j \in Jobs, DeleteStoredJob(j) PROVE SubmittedOnce'
  BY <1>12 DEF DeleteStoredJob, vars, jobVars
<1>13. ASSUME NEW w \in Workers, WorkerHookSnapshot(w) PROVE SubmittedOnce'
  BY <1>13 DEF WorkerHookSnapshot, vars, jobVars
<1>14. ASSUME NEW w \in Workers, NEW ok \in DbOutcomes, WorkerHookWrite(w, ok) PROVE SubmittedOnce'
  <2>1. ok \in BOOLEAN /\ wjob[w] \in Jobs /\ wsnap[w] # "absent"
    BY <1>14 DEF WorkerHookWrite, WorkerHook, ActorsHaveJobs, Snap
  <2>2. \A k \in Jobs : row'[k] = "absent" <=> row[k] = "absent"
    BY <1>14, <2>1, UpdateJobRow DEF WorkerHookWrite
  <2>3. UNCHANGED <<status, sub, subSnap, past, outcome, recovered, early, del>>
    BY <1>14 DEF WorkerHookWrite, WorkerHook, jobVars
  <2> QED
    BY <2>2, <2>3
<1>15. ASSUME NEW c \in Cancelers, NEW j \in Jobs, HandleCancelJob(c, j) PROVE SubmittedOnce'
  BY <1>15 DEF HandleCancelJob, CancelLookup, jobVars
<1>16. ASSUME NEW c \in Cancelers, CancelHookSnapshot(c) PROVE SubmittedOnce'
  BY <1>16 DEF CancelHookSnapshot, vars, jobVars
<1>17. ASSUME NEW c \in Cancelers, NEW ok \in DbOutcomes, CancelHookWrite(c, ok) PROVE SubmittedOnce'
  <2>0. csnap[c] # "absent"
    BY DEF Snap
  <2>1. ok \in BOOLEAN /\ cjob[c] \in Jobs
    BY <1>17 DEF CancelHookWrite, CancelHook, ActorsHaveJobs
  <2>2. \A k \in Jobs : row'[k] = "absent" <=> row[k] = "absent"
    BY <1>17, <2>0, <2>1, UpdateJobRow DEF CancelHookWrite
  <2>3. UNCHANGED <<status, sub, subSnap, past, outcome, recovered, early, del>>
    BY <1>17 DEF CancelHookWrite, CancelHook, jobVars
  <2> QED
    BY <2>2, <2>3
<1>18. ASSUME NEW c \in Cancelers, HandlerSnapshot(c) PROVE SubmittedOnce'
  BY <1>18 DEF HandlerSnapshot, vars, jobVars
<1>19. ASSUME NEW c \in Cancelers, NEW ok \in DbOutcomes, HandlerWrite(c, ok) PROVE SubmittedOnce'
  <2>0. csnap[c] # "absent"
    BY DEF Snap
  <2>1. ok \in BOOLEAN /\ hjob[c] \in Jobs
    BY <1>19 DEF HandlerWrite, CancelersFit
  <2>2. \A k \in Jobs : row'[k] = "absent" <=> row[k] = "absent"
    BY <1>19, <2>0, <2>1, UpdateJobRow DEF HandlerWrite
  <2>3. UNCHANGED <<status, sub, subSnap, past, outcome, recovered, early, del>>
    BY <1>19 DEF HandlerWrite, vars, jobVars
  <2> QED
    BY <2>2, <2>3
<1>20. ASSUME NEW S \in SUBSET Jobs, NEW ok \in DbOutcomes, Restart(S, ok) PROVE SubmittedOnce'
  BY <1>20 DEF Restart, Interrupted
<1> HIDE DEF rowVars, handlerVars, historyVars, serviceVars, ServiceInv, ServiceTypeOK,
   JobInv, TypeOK, Active, Terminal, SubmittedOnce
<1> QED
  BY <1>0, <1>1, <1>2, <1>3, <1>4, <1>5, <1>6, <1>7, <1>8, <1>9, <1>10, <1>11, <1>12,
     <1>13, <1>14, <1>15, <1>16, <1>17, <1>18, <1>19, <1>20, StepCases

(* A canceler past its critical section is about an ended job. *)
LEMMA CancelersStep == ServiceInv /\ [ServiceNext]_allVars => CancelersFit'
<1> SUFFICES ASSUME ServiceInv, [ServiceNext]_allVars PROVE CancelersFit'
  OBVIOUS
<1> USE NoJobFresh, DbOutcomesBoolean DEF ServiceInv, ServiceTypeOK, JobInv, TypeOK,
   Active, Terminal, CancelersFit
<1> USE DEF rowVars, handlerVars, historyVars, serviceVars
<1>0. ASSUME UNCHANGED allVars PROVE CancelersFit'
  BY <1>0 DEF allVars, vars, jobVars
<1>1. ASSUME QuietStep /\ UNCHANGED serviceVars PROVE CancelersFit'
  BY <1>1, QuietFrame
<1>2. ASSUME NEW w \in Workers, Start(w) /\ UNCHANGED serviceVars PROVE CancelersFit'
  BY <1>2 DEF Start, ActorsHaveJobs, StatusFitsPlace
<1>3. ASSUME NEW w \in Workers, NEW result \in Results, FinishJob(w, result) PROVE CancelersFit'
  BY <1>3 DEF FinishJob, Finish, Outcome, Results, ActorsHaveJobs, StatusFitsPlace
<1>4. ASSUME NEW c \in Cancelers, CancelMark(c) /\ UNCHANGED serviceVars PROVE CancelersFit'
  BY <1>4 DEF CancelMark, ActorsHaveJobs
<1>5. ASSUME NEW c \in Cancelers, CancelRefused(c) /\ UNCHANGED serviceVars PROVE CancelersFit'
  BY <1>5 DEF CancelRefused, jobVars
<1>6. ASSUME NEW c \in Cancelers, CancelContext(c) /\ UNCHANGED serviceVars PROVE CancelersFit'
  BY <1>6 DEF CancelContext
<1>7. ASSUME NEW j \in Jobs, SubmitJob(j) PROVE CancelersFit'
  BY <1>7 DEF SubmitJob, Submit
<1>8. ASSUME NEW j \in Jobs, CreateJobSnapshot(j) PROVE CancelersFit'
  BY <1>8 DEF CreateJobSnapshot, vars, jobVars
<1>9. ASSUME NEW j \in Jobs, NEW ok \in DbOutcomes, CreateJobInsert(j, ok) PROVE CancelersFit'
  BY <1>9 DEF CreateJobInsert, vars, jobVars
<1>10. ASSUME NEW j \in Jobs, HandleDeleteJob(j) PROVE CancelersFit'
  BY <1>10 DEF HandleDeleteJob, DeleteJob, jobVars
<1>11. ASSUME NEW j \in Jobs, NEW ok \in DbOutcomes, DeleteJobRow(j, ok) PROVE CancelersFit'
  BY <1>11 DEF DeleteJobRow, vars, jobVars
<1>12. ASSUME NEW j \in Jobs, DeleteStoredJob(j) PROVE CancelersFit'
  BY <1>12 DEF DeleteStoredJob, vars, jobVars
<1>13. ASSUME NEW w \in Workers, WorkerHookSnapshot(w) PROVE CancelersFit'
  BY <1>13 DEF WorkerHookSnapshot, vars, jobVars
<1>14. ASSUME NEW w \in Workers, NEW ok \in DbOutcomes, WorkerHookWrite(w, ok) PROVE CancelersFit'
  BY <1>14 DEF WorkerHookWrite, WorkerHook, UpdateJob, jobVars
<1>15. ASSUME NEW c \in Cancelers, NEW j \in Jobs, HandleCancelJob(c, j) PROVE CancelersFit'
  BY <1>15 DEF HandleCancelJob, CancelLookup, jobVars
<1>16. ASSUME NEW c \in Cancelers, CancelHookSnapshot(c) PROVE CancelersFit'
  BY <1>16 DEF CancelHookSnapshot, vars, jobVars
<1>17. ASSUME NEW c \in Cancelers, NEW ok \in DbOutcomes, CancelHookWrite(c, ok) PROVE CancelersFit'
  BY <1>17 DEF CancelHookWrite, CancelHook, UpdateJob, jobVars, ActorsHaveJobs
<1>18. ASSUME NEW c \in Cancelers, HandlerSnapshot(c) PROVE CancelersFit'
  BY <1>18 DEF HandlerSnapshot, vars, jobVars
<1>19. ASSUME NEW c \in Cancelers, NEW ok \in DbOutcomes, HandlerWrite(c, ok) PROVE CancelersFit'
  BY <1>19 DEF HandlerWrite, UpdateJob, vars, jobVars
<1>20. ASSUME NEW S \in SUBSET Jobs, NEW ok \in DbOutcomes, Restart(S, ok) PROVE CancelersFit'
  BY <1>20 DEF Restart, Interrupted
<1> HIDE DEF rowVars, handlerVars, historyVars, serviceVars, ServiceInv, ServiceTypeOK,
   JobInv, TypeOK, Active, Terminal, CancelersFit
<1> QED
  BY <1>0, <1>1, <1>2, <1>3, <1>4, <1>5, <1>6, <1>7, <1>8, <1>9, <1>10, <1>11, <1>12,
     <1>13, <1>14, <1>15, <1>16, <1>17, <1>18, <1>19, <1>20, StepCases

(* A snapshot keeps up with its job. *)
LEMMA SnapshotsStep == ServiceInv /\ [ServiceNext]_allVars => SnapshotsFit'
<1> SUFFICES ASSUME ServiceInv, [ServiceNext]_allVars PROVE SnapshotsFit'
  OBVIOUS
<1> USE NoJobFresh, DbOutcomesBoolean DEF ServiceInv, ServiceTypeOK, JobInv, TypeOK,
   Active, Terminal, SnapshotsFit, SnappedBy
<1> USE DEF rowVars, handlerVars, historyVars, serviceVars
<1>0. ASSUME UNCHANGED allVars PROVE SnapshotsFit'
  BY <1>0 DEF allVars, vars, jobVars
<1>1. ASSUME QuietStep /\ UNCHANGED serviceVars PROVE SnapshotsFit'
  BY <1>1, QuietFrame
<1>2. ASSUME NEW w \in Workers, Start(w) /\ UNCHANGED serviceVars PROVE SnapshotsFit'
  <2>1. wjob[w] \in Jobs /\ status[wjob[w]] \notin Terminal
    BY <1>2 DEF Start, ActorsHaveJobs, StatusFitsPlace
  <2>2. \A k \in Jobs : status[k] \in Terminal => status'[k] = status[k]
    BY <1>2, <2>1 DEF Start
  <2>3. \A v \in Workers : wpc'[v] = "hook" <=> wpc[v] = "hook"
    BY <1>2 DEF Start
  <2>4. \A v \in Workers : wpc[v] = "hook" => wjob[v] \in Jobs /\ status[wjob[v]] \in Terminal
    BY BusyWorkerHasJob DEF StatusFitsPlace
  <2>5. \A c \in Cancelers :
           cpc[c] = "hook" \/ hpc[c] = "persist" =>
              SnappedBy(c) \in Jobs /\ status[SnappedBy(c)] \in Terminal
    BY DEF ActorsHaveJobs, CancelersFit
  <2>6. UNCHANGED <<wjob, cpc, cjob, hpc, hjob, wsnap, csnap, recovered>>
    BY <1>2 DEF Start
  <2>7. \A c \in Cancelers : SnappedBy(c)' = SnappedBy(c)
    BY <2>6
  <2> HIDE DEF SnappedBy, Terminal
  <2> QED
    BY <2>2, <2>3, <2>4, <2>5, <2>6, <2>7
<1>3. ASSUME NEW w \in Workers, NEW result \in Results, FinishJob(w, result) PROVE SnapshotsFit'
  <2>0. wpc[w] = "run"
    BY <1>3 DEF FinishJob, Finish
  <2>1. PICK g \in Jobs : g = wjob[w]
    BY <2>0, BusyWorkerHasJob
  <2>2. wpc[w] = "run" /\ status[g] \in {"running", "canceled"}
    BY <1>3, <2>1 DEF FinishJob, Finish, StatusFitsPlace
  <2>3. \A k \in Jobs \ {g} : status'[k] = status[k] /\ recovered'[k] = recovered[k]
    BY <1>3, <2>1 DEF FinishJob, Finish
  <2>4. status[g] = "canceled" =>
           status'[g] = "canceled" \/ (status'[g] = "failed" /\ recovered'[g])
    <3>1. /\ status' = [status EXCEPT ![g] = Outcome(g, result)]
          /\ recovered' = [recovered EXCEPT ![g] =
                              result = "panic" /\ status[g] = "canceled"]
      BY <1>3, <2>1 DEF FinishJob, Finish
    <3>2. status[g] = "canceled" =>
             Outcome(g, result) = IF result = "panic" THEN "failed" ELSE "canceled"
      BY DEF Outcome
    <3> QED
      BY <3>1, <3>2
  <2>5. UNCHANGED <<wsnap, csnap, wjob, cpc, cjob, hpc, hjob>>
    BY <1>3 DEF FinishJob, Finish
  <2>6. ASSUME NEW v \in Workers, wsnap[v] # "none"
        PROVE  wpc'[v] = "hook" /\ wsnap[v] = status'[wjob[v]]
    <3>1. wpc[v] = "hook" /\ wsnap[v] = status[wjob[v]] /\ v # w
      BY <2>2, <2>6
    <3>2. wjob[v] # g
      BY <2>1, <3>1 DEF RunOnce, WorkersOn
    <3>3. wjob[v] \in Jobs
      BY <3>1, BusyWorkerHasJob
    <3>4. wpc'[v] = wpc[v]
      BY <1>3, <3>1 DEF FinishJob, Finish
    <3> QED
      BY <2>3, <3>1, <3>2, <3>3, <3>4
  <2>7. ASSUME NEW c \in Cancelers, csnap[c] # "none"
        PROVE  \/ csnap[c] = status'[SnappedBy(c)]
               \/ csnap[c] = "canceled" /\ recovered'[SnappedBy(c)]
    <3>1. SnappedBy(c) \in Jobs /\ status[SnappedBy(c)] \in Terminal
      BY <2>7 DEF CancelersFit, ActorsHaveJobs
    <3>2. \/ csnap[c] = status[SnappedBy(c)]
          \/ csnap[c] = "canceled" /\ recovered[SnappedBy(c)]
      BY <2>7
    <3>3. CASE SnappedBy(c) = g
      BY <2>2, <2>4, <3>1, <3>2, <3>3
    <3>4. CASE SnappedBy(c) # g
      BY <2>3, <3>1, <3>2, <3>4
    <3> QED
      BY <3>3, <3>4
  <2> QED
    BY <2>5, <2>6, <2>7
<1>4. ASSUME NEW c \in Cancelers, CancelMark(c) /\ UNCHANGED serviceVars PROVE SnapshotsFit'
  <2>1. PICK g \in Jobs : g = cjob[c]
    BY <1>4 DEF CancelMark, ActorsHaveJobs
  <2>2. /\ cpc[c] = "found" /\ status[g] \in Active /\ csnap[c] = "none"
        /\ \A k \in Jobs \ {g} : status'[k] = status[k]
        /\ \A d \in Cancelers \ {c} : cpc'[d] = cpc[d]
    BY <1>4, <2>1 DEF CancelMark, CancelersFit
  <2>3. UNCHANGED <<wsnap, csnap, wpc, wjob, cjob, hpc, hjob, recovered>>
    BY <1>4 DEF CancelMark
  <2>4. ASSUME NEW v \in Workers, wsnap[v] # "none"
        PROVE  wpc[v] = "hook" /\ wsnap[v] = status'[wjob[v]]
    <3>0. wpc[v] = "hook" /\ wsnap[v] = status[wjob[v]]
      BY <2>4
    <3>1. wpc[v] = "hook" /\ wsnap[v] = status[wjob[v]] /\ wjob[v] \in Jobs
      BY <3>0, BusyWorkerHasJob
    <3>2. status[wjob[v]] \in Terminal
      <4>1. StatusFitsPlace
        OBVIOUS
      <4> HIDE DEF ServiceInv, ServiceTypeOK, JobInv, TypeOK, Terminal
      <4> QED
        BY <3>1, <4>1 DEF StatusFitsPlace
    <3>3. wjob[v] # g
      BY <2>2, <3>2
    <3> QED
      BY <2>2, <3>1, <3>3
  <2>5. ASSUME NEW d \in Cancelers, csnap[d] # "none"
        PROVE  /\ d # c
               /\ cpc[d] = "hook" \/ hpc[d] = "persist"
               /\ \/ csnap[d] = status'[SnappedBy(d)]
                  \/ csnap[d] = "canceled" /\ recovered[SnappedBy(d)]
    <3>1. d # c /\ SnappedBy(d) \in Jobs /\ status[SnappedBy(d)] \in Terminal
      BY <2>2, <2>5 DEF CancelersFit, ActorsHaveJobs
    <3>2. SnappedBy(d) # g
      BY <2>2, <3>1
    <3> QED
      BY <2>2, <2>5, <3>1, <3>2
  <2> QED
    BY <2>2, <2>3, <2>4, <2>5
<1>5. ASSUME NEW c \in Cancelers, CancelRefused(c) /\ UNCHANGED serviceVars PROVE SnapshotsFit'
  BY <1>5 DEF CancelRefused, jobVars, CancelersFit
<1>6. ASSUME NEW c \in Cancelers, CancelContext(c) /\ UNCHANGED serviceVars PROVE SnapshotsFit'
  BY <1>6 DEF CancelContext
<1>7. ASSUME NEW j \in Jobs, SubmitJob(j) PROVE SnapshotsFit'
  BY <1>7 DEF SubmitJob, Submit, StatusFitsPlace, CancelersFit, ActorsHaveJobs
<1>8. ASSUME NEW j \in Jobs, CreateJobSnapshot(j) PROVE SnapshotsFit'
  BY <1>8 DEF CreateJobSnapshot, vars, jobVars
<1>9. ASSUME NEW j \in Jobs, NEW ok \in DbOutcomes, CreateJobInsert(j, ok) PROVE SnapshotsFit'
  BY <1>9 DEF CreateJobInsert, vars, jobVars
<1>10. ASSUME NEW j \in Jobs, HandleDeleteJob(j) PROVE SnapshotsFit'
  BY <1>10 DEF HandleDeleteJob, DeleteJob, jobVars
<1>11. ASSUME NEW j \in Jobs, NEW ok \in DbOutcomes, DeleteJobRow(j, ok) PROVE SnapshotsFit'
  BY <1>11 DEF DeleteJobRow, vars, jobVars
<1>12. ASSUME NEW j \in Jobs, DeleteStoredJob(j) PROVE SnapshotsFit'
  BY <1>12 DEF DeleteStoredJob, vars, jobVars
<1>13. ASSUME NEW w \in Workers, WorkerHookSnapshot(w) PROVE SnapshotsFit'
  BY <1>13 DEF WorkerHookSnapshot, vars, jobVars
<1>14. ASSUME NEW w \in Workers, NEW ok \in DbOutcomes, WorkerHookWrite(w, ok) PROVE SnapshotsFit'
  BY <1>14 DEF WorkerHookWrite, WorkerHook, UpdateJob, jobVars
<1>15. ASSUME NEW c \in Cancelers, NEW j \in Jobs, HandleCancelJob(c, j) PROVE SnapshotsFit'
  BY <1>15 DEF HandleCancelJob, CancelLookup, jobVars, CancelersFit
<1>16. ASSUME NEW c \in Cancelers, CancelHookSnapshot(c) PROVE SnapshotsFit'
  BY <1>16 DEF CancelHookSnapshot, vars, jobVars, CancelersFit
<1>17. ASSUME NEW c \in Cancelers, NEW ok \in DbOutcomes, CancelHookWrite(c, ok) PROVE SnapshotsFit'
  BY <1>17 DEF CancelHookWrite, CancelHook, UpdateJob, jobVars, ActorsHaveJobs, CancelersFit
<1>18. ASSUME NEW c \in Cancelers, HandlerSnapshot(c) PROVE SnapshotsFit'
  BY <1>18 DEF HandlerSnapshot, vars, jobVars, CancelersFit
<1>19. ASSUME NEW c \in Cancelers, NEW ok \in DbOutcomes, HandlerWrite(c, ok) PROVE SnapshotsFit'
  BY <1>19 DEF HandlerWrite, UpdateJob, vars, jobVars, CancelersFit
<1>20. ASSUME NEW S \in SUBSET Jobs, NEW ok \in DbOutcomes, Restart(S, ok) PROVE SnapshotsFit'
  BY <1>20 DEF Restart, Interrupted
<1> HIDE DEF rowVars, handlerVars, historyVars, serviceVars, ServiceInv, ServiceTypeOK,
   JobInv, TypeOK, Active, Terminal, SnapshotsFit, SnappedBy
<1> QED
  BY <1>0, <1>1, <1>2, <1>3, <1>4, <1>5, <1>6, <1>7, <1>8, <1>9, <1>10, <1>11, <1>12,
     <1>13, <1>14, <1>15, <1>16, <1>17, <1>18, <1>19, <1>20, StepCases

(* A step that leaves the jobs as they are keeps the rows true when it      *)
(* writes none that is pending or running and only takes a writer away for  *)
(* a statement that is known to have failed.                                *)
LEMMA ZombieFrame ==
    ASSUME NoZombieRows, UNCHANGED <<status, early, past, swept>>,
           \A j \in Jobs : lost[j] => lost'[j],
           \A j \in Jobs :
              \/ row'[j] \notin Active
              \/ row'[j] = row[j] /\ (WriterOf(j) => WriterOf(j)' \/ lost'[j])
    PROVE  NoZombieRows'
<1> HIDE DEF WriterOf
<1> QED
  BY DEF NoZombieRows

(* UpdateJob writes a snapshot of a job that is over: the row is no longer  *)
(* pending or running, or it is not there, or the statement failed.         *)
LEMMA UpdateJobEnds ==
    ASSUME ServiceTypeOK, NoZombieRows, NEW j \in Jobs, NEW snap \in Terminal,
           NEW ok \in BOOLEAN, UpdateJob(j, snap, ok),
           UNCHANGED <<status, early, past, swept>>,
           \A k \in Jobs \ {j} : WriterOf(k) => WriterOf(k)'
    PROVE  NoZombieRows'
<1> HIDE DEF WriterOf
<1>1. \A k \in Jobs : lost[k] => lost'[k]
  BY DEF UpdateJob, ServiceTypeOK
<1>2. row'[j] \notin Active \/ (row'[j] = row[j] /\ lost'[j])
  BY UpdateJobRow DEF UpdateJob, ServiceTypeOK, Active, Terminal
<1>3. \A k \in Jobs \ {j} : row'[k] = row[k]
  BY UpdateJobRow
<1> QED
  BY <1>1, <1>2, <1>3, ZombieFrame

(* A job that ends has a writer, who writes that it ended; nobody writes    *)
(* the row of a job of an earlier life.                                     *)
LEMMA ZombieStep == ServiceInv /\ [ServiceNext]_allVars => NoZombieRows'
<1> SUFFICES ASSUME ServiceInv, [ServiceNext]_allVars PROVE NoZombieRows'
  OBVIOUS
<1> USE NoJobFresh, DbOutcomesBoolean DEF ServiceInv, ServiceTypeOK, JobInv, TypeOK
<1> USE DEF rowVars, handlerVars, historyVars, serviceVars
<1>0. ASSUME UNCHANGED allVars PROVE NoZombieRows'
  <2>1. \A k \in Jobs : WriterOf(k) => WriterOf(k)'
    BY <1>0 DEF allVars, vars, WriterOf
  <2>2. UNCHANGED <<status, row, early, past, swept, lost>>
    BY <1>0 DEF allVars, vars, jobVars
  <2> QED
    BY <2>1, <2>2, ZombieFrame
<1>1. ASSUME QuietStep /\ UNCHANGED serviceVars PROVE NoZombieRows'
  <2>1. \A k \in Jobs : WriterOf(k) => WriterOf(k)'
    BY <1>1, QuietFrame DEF WriterOf
  <2>2. UNCHANGED <<status, row, early, past, swept, lost>>
    BY <1>1, QuietFrame
  <2> QED
    BY <2>1, <2>2, ZombieFrame
<1>2. ASSUME NEW w \in Workers, Start(w) /\ UNCHANGED serviceVars PROVE NoZombieRows'
  <2>1. \A k \in Jobs : WriterOf(k) => WriterOf(k)'
    BY <1>2 DEF Start, WriterOf
  <2>2. \A k \in Jobs : status[k] \in Active => status'[k] \in Active
    BY <1>2 DEF Start, Active
  <2> HIDE DEF WriterOf
  <2> QED
    BY <1>2, <2>1, <2>2 DEF NoZombieRows
<1>3. ASSUME NEW w \in Workers, NEW result \in Results, FinishJob(w, result) PROVE NoZombieRows'
  <2>1. \A k \in Jobs : WriterOf(k) => WriterOf(k)'
    BY <1>3 DEF FinishJob, Finish, WriterOf
  <2>2. PICK j \in Jobs : j = wjob[w]
    BY <1>3, BusyWorkerHasJob DEF FinishJob, Finish
  <2>3. status[j] # "canceled" => WriterOf(j)'
    BY <1>3, <2>2 DEF FinishJob, Finish, WriterOf
  <2>4. j \notin past
    BY <1>3, <2>2 DEF FinishJob, Finish, StatusFitsPlace, SubmittedOnce, Active, Terminal
  <2>5. \A k \in Jobs \ {j} : status'[k] = status[k]
    BY <1>3, <2>2 DEF FinishJob, Finish
  <2>6. UNCHANGED <<row, early, past, swept, lost>>
    BY <1>3 DEF FinishJob
  <2> HIDE DEF WriterOf
  <2> QED
    BY <2>1, <2>3, <2>4, <2>5, <2>6 DEF NoZombieRows, Active
<1>4. ASSUME NEW c \in Cancelers, CancelMark(c) /\ UNCHANGED serviceVars PROVE NoZombieRows'
  <2>1. \A k \in Jobs : WriterOf(k) => WriterOf(k)'
    BY <1>4 DEF CancelMark, WriterOf
  <2>2. PICK j \in Jobs : j = cjob[c]
    BY <1>4 DEF CancelMark, ActorsHaveJobs
  <2>3. WriterOf(j)'
    BY <1>4, <2>2 DEF CancelMark, WriterOf
  <2>4. j \notin past
    BY <1>4, <2>2 DEF CancelMark, SubmittedOnce, Active
  <2>5. \A k \in Jobs \ {j} : status'[k] = status[k]
    BY <1>4, <2>2 DEF CancelMark
  <2>6. UNCHANGED <<row, early, past, swept, lost>>
    BY <1>4
  <2> HIDE DEF WriterOf
  <2> QED
    BY <2>1, <2>3, <2>4, <2>5, <2>6 DEF NoZombieRows
<1>5. ASSUME NEW c \in Cancelers, CancelRefused(c) /\ UNCHANGED serviceVars PROVE NoZombieRows'
  <2>1. \A k \in Jobs : WriterOf(k) => WriterOf(k)'
    BY <1>5 DEF CancelRefused, WriterOf
  <2>2. UNCHANGED <<status, row, early, past, swept, lost>>
    BY <1>5 DEF CancelRefused, jobVars
  <2> QED
    BY <2>1, <2>2, ZombieFrame
<1>6. ASSUME NEW c \in Cancelers, CancelContext(c) /\ UNCHANGED serviceVars PROVE NoZombieRows'
  <2>1. \A k \in Jobs : WriterOf(k) => WriterOf(k)'
    BY <1>6 DEF CancelContext, WriterOf
  <2>2. UNCHANGED <<status, row, early, past, swept, lost>>
    BY <1>6 DEF CancelContext
  <2> QED
    BY <2>1, <2>2, ZombieFrame
<1>7. ASSUME NEW j \in Jobs, SubmitJob(j) PROVE NoZombieRows'
  <2>1. \A k \in Jobs : WriterOf(k) => WriterOf(k)'
    BY <1>7 DEF SubmitJob, Submit, WriterOf
  <2>2. row[j] = "absent" /\ \A k \in Jobs \ {j} : status'[k] = status[k]
    BY <1>7 DEF SubmitJob, Submit, SubmittedOnce
  <2> HIDE DEF WriterOf
  <2> QED
    BY <1>7, <2>1, <2>2 DEF SubmitJob, NoZombieRows, Active
<1>8. ASSUME NEW j \in Jobs, CreateJobSnapshot(j) PROVE NoZombieRows'
  <2>1. \A k \in Jobs : WriterOf(k) => WriterOf(k)'
    BY <1>8 DEF CreateJobSnapshot, vars, WriterOf
  <2>2. UNCHANGED <<status, row, early, past, swept, lost>>
    BY <1>8 DEF CreateJobSnapshot, vars, jobVars
  <2> QED
    BY <2>1, <2>2, ZombieFrame
<1>9. ASSUME NEW j \in Jobs, NEW ok \in DbOutcomes, CreateJobInsert(j, ok) PROVE NoZombieRows'
  <2>1. \A k \in Jobs : WriterOf(k) => WriterOf(k)'
    BY <1>9 DEF CreateJobInsert, vars, WriterOf
  <2>2. j \notin past
    BY <1>9 DEF CreateJobInsert, SubmittedOnce
  <2>3. status[j] \in Active \/ ~early'[j]
    BY <1>9 DEF CreateJobInsert
  <2>4. /\ UNCHANGED <<status, past, swept>>
        /\ \A k \in Jobs \ {j} : row'[k] = row[k] /\ early'[k] = early[k] /\ lost'[k] = lost[k]
    BY <1>9 DEF CreateJobInsert, vars, jobVars
  <2> HIDE DEF WriterOf
  <2> QED
    BY <2>1, <2>2, <2>3, <2>4 DEF NoZombieRows
<1>10. ASSUME NEW j \in Jobs, HandleDeleteJob(j) PROVE NoZombieRows'
  <2>1. \A k \in Jobs : WriterOf(k) => WriterOf(k)'
    BY <1>10 DEF HandleDeleteJob, DeleteJob, WriterOf
  <2>2. UNCHANGED <<status, row, early, past, swept, lost>>
    BY <1>10 DEF HandleDeleteJob, DeleteJob, jobVars
  <2> QED
    BY <2>1, <2>2, ZombieFrame
<1>11. ASSUME NEW j \in Jobs, NEW ok \in DbOutcomes, DeleteJobRow(j, ok) PROVE NoZombieRows'
  <2>1. \A k \in Jobs : WriterOf(k) => WriterOf(k)'
    BY <1>11 DEF DeleteJobRow, vars, WriterOf
  <2>2. /\ UNCHANGED <<status, early, past, swept>>
        /\ \A k \in Jobs : row'[k] = "absent" \/ row'[k] = row[k]
        /\ \A k \in Jobs : lost[k] => lost'[k]
    BY <1>11 DEF DeleteJobRow, vars, jobVars
  <2>3. "absent" \notin Active
    BY DEF Active
  <2> QED
    BY <2>1, <2>2, <2>3, ZombieFrame
<1>12. ASSUME NEW j \in Jobs, DeleteStoredJob(j) PROVE NoZombieRows'
  <2>1. \A k \in Jobs : WriterOf(k) => WriterOf(k)'
    BY <1>12 DEF DeleteStoredJob, vars, WriterOf
  <2>2. /\ UNCHANGED <<status, early, past, swept, lost>>
        /\ \A k \in Jobs : row'[k] = "absent" \/ row'[k] = row[k]
    BY <1>12 DEF DeleteStoredJob, vars, jobVars
  <2>3. "absent" \notin Active
    BY DEF Active
  <2> QED
    BY <2>1, <2>2, <2>3, ZombieFrame
<1>13. ASSUME NEW w \in Workers, WorkerHookSnapshot(w) PROVE NoZombieRows'
  <2>1. \A k \in Jobs : WriterOf(k) => WriterOf(k)'
    BY <1>13 DEF WorkerHookSnapshot, vars, WriterOf
  <2>2. UNCHANGED <<status, row, early, past, swept, lost>>
    BY <1>13 DEF WorkerHookSnapshot, vars, jobVars
  <2> QED
    BY <2>1, <2>2, ZombieFrame
<1>14. ASSUME NEW w \in Workers, NEW ok \in DbOutcomes, WorkerHookWrite(w, ok) PROVE NoZombieRows'
  <2>1. wjob[w] \in Jobs /\ ok \in BOOLEAN
    BY <1>14, BusyWorkerHasJob DEF WorkerHookWrite, WorkerHook
  <2>2. wsnap[w] \in Terminal
    BY <1>14, <2>1 DEF WorkerHookWrite, WorkerHook, SnapshotsFit, StatusFitsPlace
  <2>3. \A k \in Jobs \ {wjob[w]} : WriterOf(k) => WriterOf(k)'
    BY <1>14 DEF WorkerHookWrite, WorkerHook, WriterOf
  <2>4. UpdateJob(wjob[w], wsnap[w], ok) /\ UNCHANGED <<status, early, past, swept>>
    BY <1>14 DEF WorkerHookWrite, WorkerHook, jobVars
  <2> QED
    BY <2>1, <2>2, <2>3, <2>4, UpdateJobEnds
<1>15. ASSUME NEW c \in Cancelers, NEW j \in Jobs, HandleCancelJob(c, j) PROVE NoZombieRows'
  <2>1. \A k \in Jobs : WriterOf(k) => WriterOf(k)'
    BY <1>15 DEF HandleCancelJob, CancelLookup, WriterOf
  <2>2. UNCHANGED <<status, row, early, past, swept, lost>>
    BY <1>15 DEF HandleCancelJob, CancelLookup, jobVars
  <2> QED
    BY <2>1, <2>2, ZombieFrame
<1>16. ASSUME NEW c \in Cancelers, CancelHookSnapshot(c) PROVE NoZombieRows'
  <2>1. \A k \in Jobs : WriterOf(k) => WriterOf(k)'
    BY <1>16 DEF CancelHookSnapshot, vars, WriterOf
  <2>2. UNCHANGED <<status, row, early, past, swept, lost>>
    BY <1>16 DEF CancelHookSnapshot, vars, jobVars
  <2> QED
    BY <2>1, <2>2, ZombieFrame
<1>17. ASSUME NEW c \in Cancelers, NEW ok \in DbOutcomes, CancelHookWrite(c, ok) PROVE NoZombieRows'
  <2>1. cjob[c] \in Jobs /\ ok \in BOOLEAN /\ cpc[c] = "hook"
    BY <1>17 DEF CancelHookWrite, CancelHook, ActorsHaveJobs
  <2>2. csnap[c] \in Terminal
    BY <1>17, <2>1 DEF CancelHookWrite, SnapshotsFit, SnappedBy, CancelersFit, Terminal
  <2>3. \A k \in Jobs \ {cjob[c]} : WriterOf(k) => WriterOf(k)'
    BY <1>17, <2>1 DEF CancelHookWrite, CancelHook, CancelersFit, WriterOf
  <2>4. UpdateJob(cjob[c], csnap[c], ok) /\ UNCHANGED <<status, early, past, swept>>
    BY <1>17 DEF CancelHookWrite, CancelHook, jobVars
  <2> QED
    BY <2>1, <2>2, <2>3, <2>4, UpdateJobEnds
<1>18. ASSUME NEW c \in Cancelers, HandlerSnapshot(c) PROVE NoZombieRows'
  <2>1. \A k \in Jobs : WriterOf(k) => WriterOf(k)'
    BY <1>18 DEF HandlerSnapshot, vars, WriterOf
  <2>2. UNCHANGED <<status, row, early, past, swept, lost>>
    BY <1>18 DEF HandlerSnapshot, vars, jobVars
  <2> QED
    BY <2>1, <2>2, ZombieFrame
<1>19. ASSUME NEW c \in Cancelers, NEW ok \in DbOutcomes, HandlerWrite(c, ok) PROVE NoZombieRows'
  <2>1. hjob[c] \in Jobs /\ ok \in BOOLEAN /\ hpc[c] = "persist"
    BY <1>19 DEF HandlerWrite, CancelersFit
  <2>2. csnap[c] \in Terminal
    BY <1>19, <2>1 DEF HandlerWrite, SnapshotsFit, SnappedBy, CancelersFit, Terminal
  <2>3. \A k \in Jobs \ {hjob[c]} : WriterOf(k) => WriterOf(k)'
    BY <1>19, <2>1 DEF HandlerWrite, vars, WriterOf
  <2>4. UpdateJob(hjob[c], csnap[c], ok) /\ UNCHANGED <<status, early, past, swept>>
    BY <1>19 DEF HandlerWrite, vars, jobVars
  <2> QED
    BY <2>1, <2>2, <2>3, <2>4, UpdateJobEnds
<1>20. ASSUME NEW S \in SUBSET Jobs, NEW ok \in DbOutcomes, Restart(S, ok) PROVE NoZombieRows'
  <2>1. \A k \in Jobs : k \notin past' => row'[k] = "absent"
    BY <1>20 DEF Restart, Interrupted, SubmittedOnce, Active
  <2>2. \A k \in Jobs : row'[k] \in Active => ~ok
    BY <1>20 DEF Restart, Interrupted, Active
  <2>3. swept' = ok /\ "absent" \notin Active
    BY <1>20 DEF Restart, Active
  <2> QED
    BY <2>1, <2>2, <2>3 DEF NoZombieRows
<1> HIDE DEF rowVars, handlerVars, historyVars, serviceVars, ServiceInv, ServiceTypeOK,
   JobInv, TypeOK
<1> QED
  BY <1>0, <1>1, <1>2, <1>3, <1>4, <1>5, <1>6, <1>7, <1>8, <1>9, <1>10, <1>11, <1>12,
     <1>13, <1>14, <1>15, <1>16, <1>17, <1>18, <1>19, <1>20, StepCases

(* completed is only ever written from a job that completed. *)
LEMMA CompletedStep == ServiceInv /\ [ServiceNext]_allVars => CompletedRowsAreTrue'
<1> SUFFICES ASSUME ServiceInv, [ServiceNext]_allVars PROVE CompletedRowsAreTrue'
  OBVIOUS
<1> USE NoJobFresh, DbOutcomesBoolean DEF ServiceInv, ServiceTypeOK, JobInv, TypeOK,
   Active, Terminal, CompletedRowsAreTrue
<1> USE DEF rowVars, handlerVars, historyVars, serviceVars
<1>0. ASSUME UNCHANGED allVars PROVE CompletedRowsAreTrue'
  BY <1>0 DEF allVars, vars, jobVars
<1>1. ASSUME QuietStep /\ UNCHANGED serviceVars PROVE CompletedRowsAreTrue'
  BY <1>1, QuietFrame
<1>2. ASSUME NEW w \in Workers, Start(w) /\ UNCHANGED serviceVars PROVE CompletedRowsAreTrue'
  BY <1>2 DEF Start, ActorsHaveJobs, StatusFitsPlace
<1>3. ASSUME NEW w \in Workers, NEW result \in Results, FinishJob(w, result) PROVE CompletedRowsAreTrue'
  BY <1>3 DEF FinishJob, Finish, Outcome, Results, ActorsHaveJobs, StatusFitsPlace
<1>4. ASSUME NEW c \in Cancelers, CancelMark(c) /\ UNCHANGED serviceVars PROVE CompletedRowsAreTrue'
  BY <1>4 DEF CancelMark, ActorsHaveJobs
<1>5. ASSUME NEW c \in Cancelers, CancelRefused(c) /\ UNCHANGED serviceVars PROVE CompletedRowsAreTrue'
  BY <1>5 DEF CancelRefused, jobVars
<1>6. ASSUME NEW c \in Cancelers, CancelContext(c) /\ UNCHANGED serviceVars PROVE CompletedRowsAreTrue'
  BY <1>6 DEF CancelContext
<1>7. ASSUME NEW j \in Jobs, SubmitJob(j) PROVE CompletedRowsAreTrue'
  BY <1>7 DEF SubmitJob, Submit
<1>8. ASSUME NEW j \in Jobs, CreateJobSnapshot(j) PROVE CompletedRowsAreTrue'
  BY <1>8 DEF CreateJobSnapshot, vars, jobVars
<1>9. ASSUME NEW j \in Jobs, NEW ok \in DbOutcomes, CreateJobInsert(j, ok) PROVE CompletedRowsAreTrue'
  BY <1>9 DEF CreateJobInsert, vars, jobVars, SubmittedOnce
<1>10. ASSUME NEW j \in Jobs, HandleDeleteJob(j) PROVE CompletedRowsAreTrue'
  BY <1>10 DEF HandleDeleteJob, DeleteJob, jobVars
<1>11. ASSUME NEW j \in Jobs, NEW ok \in DbOutcomes, DeleteJobRow(j, ok) PROVE CompletedRowsAreTrue'
  BY <1>11 DEF DeleteJobRow, vars, jobVars
<1>12. ASSUME NEW j \in Jobs, DeleteStoredJob(j) PROVE CompletedRowsAreTrue'
  BY <1>12 DEF DeleteStoredJob, vars, jobVars
<1>13. ASSUME NEW w \in Workers, WorkerHookSnapshot(w) PROVE CompletedRowsAreTrue'
  BY <1>13 DEF WorkerHookSnapshot, vars, jobVars
<1>14. ASSUME NEW w \in Workers, NEW ok \in DbOutcomes, WorkerHookWrite(w, ok) PROVE CompletedRowsAreTrue'
  BY <1>14 DEF WorkerHookWrite, WorkerHook, UpdateJob, jobVars, ActorsHaveJobs, SnapshotsFit
<1>15. ASSUME NEW c \in Cancelers, NEW j \in Jobs, HandleCancelJob(c, j) PROVE CompletedRowsAreTrue'
  BY <1>15 DEF HandleCancelJob, CancelLookup, jobVars
<1>16. ASSUME NEW c \in Cancelers, CancelHookSnapshot(c) PROVE CompletedRowsAreTrue'
  BY <1>16 DEF CancelHookSnapshot, vars, jobVars
<1>17. ASSUME NEW c \in Cancelers, NEW ok \in DbOutcomes, CancelHookWrite(c, ok) PROVE CompletedRowsAreTrue'
  BY <1>17 DEF CancelHookWrite, CancelHook, UpdateJob, jobVars, ActorsHaveJobs,
     SnapshotsFit, SnappedBy, CancelersFit
<1>18. ASSUME NEW c \in Cancelers, HandlerSnapshot(c) PROVE CompletedRowsAreTrue'
  BY <1>18 DEF HandlerSnapshot, vars, jobVars
<1>19. ASSUME NEW c \in Cancelers, NEW ok \in DbOutcomes, HandlerWrite(c, ok) PROVE CompletedRowsAreTrue'
  BY <1>19 DEF HandlerWrite, UpdateJob, vars, jobVars, CancelersFit, SnapshotsFit, SnappedBy
<1>20. ASSUME NEW S \in SUBSET Jobs, NEW ok \in DbOutcomes, Restart(S, ok) PROVE CompletedRowsAreTrue'
  BY <1>20 DEF Restart, Interrupted, SubmittedOnce
<1> HIDE DEF rowVars, handlerVars, historyVars, serviceVars, ServiceInv, ServiceTypeOK,
   JobInv, TypeOK, Active, Terminal, CompletedRowsAreTrue
<1> QED
  BY <1>0, <1>1, <1>2, <1>3, <1>4, <1>5, <1>6, <1>7, <1>8, <1>9, <1>10, <1>11, <1>12,
     <1>13, <1>14, <1>15, <1>16, <1>17, <1>18, <1>19, <1>20, StepCases

(* A step that only takes jobs out of the promise, or keeps their writers,  *)
(* keeps it.                                                               *)
LEMMA EndFrame ==
    ASSUME EndOnItsWay, UNCHANGED <<status, early, recovered, past, lost>>,
           \A j \in Jobs : del'[j] = "none" => del[j] = "none" /\ row'[j] = row[j],
           \A j \in Jobs : WriterOf(j) => WriterOf(j)'
    PROVE  EndOnItsWay'
<1> HIDE DEF WriterOf
<1> QED
  BY DEF EndOnItsWay

(* Whoever ends a job writes its row afterwards. *)
LEMMA EndStep == ServiceInv /\ [ServiceNext]_allVars => EndOnItsWay'
<1> SUFFICES ASSUME ServiceInv, [ServiceNext]_allVars PROVE EndOnItsWay'
  OBVIOUS
<1> USE NoJobFresh, DbOutcomesBoolean DEF ServiceInv, ServiceTypeOK, JobInv, TypeOK,
   Active, Terminal, EndOnItsWay, WriterOf
<1> USE DEF rowVars, handlerVars, historyVars, serviceVars
<1>0. ASSUME UNCHANGED allVars PROVE EndOnItsWay'
  BY <1>0 DEF allVars, vars, jobVars
<1>1. ASSUME QuietStep /\ UNCHANGED serviceVars PROVE EndOnItsWay'
  <2>1. \A k \in Jobs : WriterOf(k) => WriterOf(k)'
    BY <1>1, QuietFrame
  <2>2. UNCHANGED <<status, row, early, recovered, past, lost, del>>
    BY <1>1, QuietFrame
  <2> QED
    BY <2>1, <2>2, EndFrame
<1>2. ASSUME NEW w \in Workers, Start(w) /\ UNCHANGED serviceVars PROVE EndOnItsWay'
  BY <1>2 DEF Start, ActorsHaveJobs, StatusFitsPlace
<1>3. ASSUME NEW w \in Workers, NEW result \in Results, FinishJob(w, result) PROVE EndOnItsWay'
  BY <1>3 DEF FinishJob, Finish, Outcome, Results, ActorsHaveJobs, StatusFitsPlace,
     SubmittedOnce
<1>4. ASSUME NEW c \in Cancelers, CancelMark(c) /\ UNCHANGED serviceVars PROVE EndOnItsWay'
  BY <1>4 DEF CancelMark, ActorsHaveJobs
<1>5. ASSUME NEW c \in Cancelers, CancelRefused(c) /\ UNCHANGED serviceVars PROVE EndOnItsWay'
  BY <1>5 DEF CancelRefused, jobVars, StatusFitsPlace, ActorsHaveJobs
<1>6. ASSUME NEW c \in Cancelers, CancelContext(c) /\ UNCHANGED serviceVars PROVE EndOnItsWay'
  <2>1. \A k \in Jobs : WriterOf(k) => WriterOf(k)'
    BY <1>6 DEF CancelContext
  <2>2. UNCHANGED <<status, row, early, recovered, past, lost, del>>
    BY <1>6 DEF CancelContext
  <2> QED
    BY <2>1, <2>2, EndFrame
<1>7. ASSUME NEW j \in Jobs, SubmitJob(j) PROVE EndOnItsWay'
  <2>1. \A k \in Jobs : WriterOf(k) => WriterOf(k)'
    BY <1>7 DEF SubmitJob, Submit
  <2>2. status'[j] \notin Terminal /\ \A k \in Jobs \ {j} : status'[k] = status[k]
    BY <1>7 DEF SubmitJob, Submit
  <2>3. UNCHANGED <<row, early, recovered, past, lost, del>>
    BY <1>7 DEF SubmitJob
  <2> HIDE DEF WriterOf
  <2> QED
    BY <2>1, <2>2, <2>3
<1>8. ASSUME NEW j \in Jobs, CreateJobSnapshot(j) PROVE EndOnItsWay'
  BY <1>8 DEF CreateJobSnapshot, vars, jobVars
<1>9. ASSUME NEW j \in Jobs, NEW ok \in DbOutcomes, CreateJobInsert(j, ok) PROVE EndOnItsWay'
  BY <1>9 DEF CreateJobInsert, vars, jobVars, SubmittedOnce
<1>10. ASSUME NEW j \in Jobs, HandleDeleteJob(j) PROVE EndOnItsWay'
  <2>1. \A k \in Jobs : WriterOf(k) => WriterOf(k)'
    BY <1>10 DEF HandleDeleteJob, DeleteJob
  <2>2. UNCHANGED <<status, row, early, recovered, past, lost>>
    BY <1>10 DEF HandleDeleteJob, DeleteJob, jobVars
  <2>3. \A k \in Jobs : del'[k] = "none" => del[k] = "none"
    BY <1>10 DEF HandleDeleteJob
  <2> QED
    BY <2>1, <2>2, <2>3, EndFrame
<1>11. ASSUME NEW j \in Jobs, NEW ok \in DbOutcomes, DeleteJobRow(j, ok) PROVE EndOnItsWay'
  <2>1. \A k \in Jobs : WriterOf(k) => WriterOf(k)'
    BY <1>11 DEF DeleteJobRow, vars
  <2>2. UNCHANGED <<status, early, recovered, past>>
    BY <1>11 DEF DeleteJobRow, vars, jobVars
  <2>3. \A k \in Jobs : del'[k] = "none" => del[k] = "none" /\ row'[k] = row[k] /\ lost'[k] = lost[k]
    BY <1>11 DEF DeleteJobRow
  <2> HIDE DEF WriterOf
  <2> QED
    BY <2>1, <2>2, <2>3
<1>12. ASSUME NEW j \in Jobs, DeleteStoredJob(j) PROVE EndOnItsWay'
  <2>1. \A k \in Jobs : WriterOf(k) => WriterOf(k)'
    BY <1>12 DEF DeleteStoredJob, vars
  <2>2. UNCHANGED <<status, early, recovered, past, lost>>
    BY <1>12 DEF DeleteStoredJob, vars, jobVars
  <2>3. \A k \in Jobs : del'[k] = "none" => del[k] = "none" /\ row'[k] = row[k]
    BY <1>12 DEF DeleteStoredJob
  <2> QED
    BY <2>1, <2>2, <2>3, EndFrame
<1>13. ASSUME NEW w \in Workers, WorkerHookSnapshot(w) PROVE EndOnItsWay'
  <2>1. \A k \in Jobs : WriterOf(k) => WriterOf(k)'
    BY <1>13 DEF WorkerHookSnapshot, vars
  <2>2. UNCHANGED <<status, row, early, recovered, past, lost, del>>
    BY <1>13 DEF WorkerHookSnapshot, vars, jobVars
  <2> QED
    BY <2>1, <2>2, EndFrame
<1>14. ASSUME NEW w \in Workers, NEW ok \in DbOutcomes, WorkerHookWrite(w, ok) PROVE EndOnItsWay'
  BY <1>14 DEF WorkerHookWrite, WorkerHook, UpdateJob, jobVars, ActorsHaveJobs,
     SnapshotsFit, SubmittedOnce
<1>15. ASSUME NEW c \in Cancelers, NEW j \in Jobs, HandleCancelJob(c, j) PROVE EndOnItsWay'
  <2>1. \A k \in Jobs : WriterOf(k) => WriterOf(k)'
    BY <1>15 DEF HandleCancelJob, CancelLookup
  <2>2. UNCHANGED <<status, row, early, recovered, past, lost, del>>
    BY <1>15 DEF HandleCancelJob, CancelLookup, jobVars
  <2> QED
    BY <2>1, <2>2, EndFrame
<1>16. ASSUME NEW c \in Cancelers, CancelHookSnapshot(c) PROVE EndOnItsWay'
  <2>1. \A k \in Jobs : WriterOf(k) => WriterOf(k)'
    BY <1>16 DEF CancelHookSnapshot, vars
  <2>2. UNCHANGED <<status, row, early, recovered, past, lost, del>>
    BY <1>16 DEF CancelHookSnapshot, vars, jobVars
  <2> QED
    BY <2>1, <2>2, EndFrame
<1>17. ASSUME NEW c \in Cancelers, NEW ok \in DbOutcomes, CancelHookWrite(c, ok) PROVE EndOnItsWay'
  <2>1. ok \in BOOLEAN /\ cjob[c] \in Jobs /\ cpc[c] = "hook" /\ csnap[c] # "none" /\ hpc[c] # "persist"
    BY <1>17 DEF CancelHookWrite, CancelHook, ActorsHaveJobs, CancelersFit
  <2>2. csnap[c] = status[cjob[c]] \/ recovered[cjob[c]]
    BY <2>1 DEF SnapshotsFit, SnappedBy
  <2>3. UNCHANGED <<status, early, recovered, past, del>>
    BY <1>17 DEF CancelHookWrite, CancelHook, jobVars
  <2>4. \A k \in Jobs \ {cjob[c]} : WriterOf(k) => WriterOf(k)'
    BY <1>17, <2>1 DEF CancelHookWrite, CancelHook, CancelersFit
  <2>5. /\ \A k \in Jobs \ {cjob[c]} : row'[k] = row[k] /\ lost'[k] = lost[k]
        /\ row'[cjob[c]] = IF ok /\ row[cjob[c]] # "absent" THEN csnap[c] ELSE row[cjob[c]]
        /\ ~lost'[cjob[c]] => ok
    BY <1>17, <2>1, UpdateJobRow DEF CancelHookWrite
  <2> HIDE DEF WriterOf
  <2> QED
    BY <2>1, <2>2, <2>3, <2>4, <2>5 DEF SubmittedOnce
<1>18. ASSUME NEW c \in Cancelers, HandlerSnapshot(c) PROVE EndOnItsWay'
  <2>1. \A k \in Jobs : WriterOf(k) => WriterOf(k)'
    BY <1>18 DEF HandlerSnapshot, vars
  <2>2. UNCHANGED <<status, row, early, recovered, past, lost, del>>
    BY <1>18 DEF HandlerSnapshot, vars, jobVars
  <2> QED
    BY <2>1, <2>2, EndFrame
<1>19. ASSUME NEW c \in Cancelers, NEW ok \in DbOutcomes, HandlerWrite(c, ok) PROVE EndOnItsWay'
  <2>1. ok \in BOOLEAN /\ hjob[c] \in Jobs /\ hpc[c] = "persist" /\ csnap[c] # "none"
    BY <1>19 DEF HandlerWrite, CancelersFit
  <2>2. csnap[c] = status[hjob[c]] \/ recovered[hjob[c]]
    BY <2>1 DEF SnapshotsFit, SnappedBy
  <2>3. UNCHANGED <<status, early, recovered, past, del>>
    BY <1>19 DEF HandlerWrite, vars, jobVars
  <2>4. \A k \in Jobs \ {hjob[c]} : WriterOf(k) => WriterOf(k)'
    BY <1>19, <2>1 DEF HandlerWrite, vars
  <2>5. /\ \A k \in Jobs \ {hjob[c]} : row'[k] = row[k] /\ lost'[k] = lost[k]
        /\ row'[hjob[c]] = IF ok /\ row[hjob[c]] # "absent" THEN csnap[c] ELSE row[hjob[c]]
        /\ ~lost'[hjob[c]] => ok
    BY <1>19, <2>1, UpdateJobRow DEF HandlerWrite
  <2> HIDE DEF WriterOf
  <2> QED
    BY <2>1, <2>2, <2>3, <2>4, <2>5 DEF SubmittedOnce
<1>20. ASSUME NEW S \in SUBSET Jobs, NEW ok \in DbOutcomes, Restart(S, ok) PROVE EndOnItsWay'
  BY <1>20 DEF Restart, Interrupted, SubmittedOnce
<1> HIDE DEF rowVars, handlerVars, historyVars, serviceVars, ServiceInv, ServiceTypeOK,
   JobInv, TypeOK, Active, Terminal, EndOnItsWay, WriterOf
<1> QED
  BY <1>0, <1>1, <1>2, <1>3, <1>4, <1>5, <1>6, <1>7, <1>8, <1>9, <1>10, <1>11, <1>12,
     <1>13, <1>14, <1>15, <1>16, <1>17, <1>18, <1>19, <1>20, StepCases

(* The initial state satisfies the invariant. *)
LEMMA InitServiceInv == ServiceInit => ServiceInv
<1> SUFFICES ASSUME ServiceInit PROVE ServiceInv
  OBVIOUS
<1>1. JobInv /\ status = [j \in Jobs |-> "none"] /\ cpc = [c \in Cancelers |-> "idle"]
  BY InitJobInv DEF ServiceInit, Init
<1>2. ServiceTypeOK
  BY <1>1, MaxRestartsNat DEF ServiceInit, JobInv, ServiceTypeOK, RowStatus, Snap
<1>3. SubmittedOnce /\ CancelersFit /\ SnapshotsFit
  BY <1>1 DEF ServiceInit, SubmittedOnce, CancelersFit, SnapshotsFit
<1>4. NoZombieRows /\ CompletedRowsAreTrue /\ EndOnItsWay
  BY <1>1 DEF ServiceInit, NoZombieRows, CompletedRowsAreTrue, EndOnItsWay, Active
<1> QED
  BY <1>1, <1>2, <1>3, <1>4 DEF ServiceInv

(* The invariant is inductive. *)
LEMMA ServiceInvStep == ServiceInv /\ [ServiceNext]_allVars => ServiceInv'
  BY ServiceJobStep, ServiceTypeStep, SubmittedStep, CancelersStep, SnapshotsStep,
     ZombieStep, CompletedStep, EndStep DEF ServiceInv

LEMMA ServiceInvHolds == ServiceSpec => []ServiceInv
  BY InitServiceInv, ServiceInvStep, PTL DEF ServiceSpec

-----------------------------------------------------------------------------
(* The rows, the handlers' snapshots and the histories keep their types;   *)
(* in particular no row is ever given a status that is none of the five.   *)
THEOREM ServiceTypeCorrect == ServiceSpec => []ServiceTypeOK
<1>1. ServiceInv => ServiceTypeOK
  BY DEF ServiceInv
<1> QED
  BY <1>1, ServiceInvHolds, PTL

(* The manager keeps what it promises behind the API too, through any      *)
(* number of restarts: a job is with one worker at most, an active one can *)
(* be found, and CancelJob reaches the context of a running one.           *)
THEOREM ServiceManagerKeepsPromises ==
    ServiceSpec => [](RunOnce /\ ActiveReachable /\ CancelReachesRun)
<1>1. ServiceInv => RunOnce /\ ActiveReachable /\ CancelReachesRun
  BY DEF ServiceInv, JobInv, CancelOnItsWay, CancelReachesRun
<1> QED
  BY <1>1, ServiceInvHolds, PTL

(* A row that is pending or running is true or about to be corrected: the  *)
(* end of a job always has a writer, and what a daemon takes with it the   *)
(* next one's reconcileJobs closes out, now or, when its statement fails,  *)
(* at the first restart at which it succeeds.                              *)
THEOREM ServiceNoZombieRows == ServiceSpec => []NoZombieRows
<1>1. ServiceInv => NoZombieRows
  BY DEF ServiceInv
<1> QED
  BY <1>1, ServiceInvHolds, PTL

(* A row that says completed is about a job that completed: a snapshot of  *)
(* CreateJob, of the hook or of handleCancelJob says so only of a job      *)
(* whose status no longer changes.                                         *)
THEOREM ServiceCompletedRowsTrue == ServiceSpec => []CompletedRowsAreTrue
<1>1. ServiceInv => CompletedRowsAreTrue
  BY DEF ServiceInv
<1> QED
  BY <1>1, ServiceInvHolds, PTL

(* The end of a job whose row was there in time reaches the row: whoever   *)
(* ends the job writes it afterwards, and no write carries an older        *)
(* status unless the job panicked after it was canceled.                   *)
THEOREM ServiceEndPersisted == ServiceSpec => []EndPersisted
<1>1. ServiceInv => EndPersisted
  <2> SUFFICES ASSUME ServiceInv, NEW j \in Jobs, Settled(j), early[j], ~recovered[j]
               PROVE  row[j] = status[j]
    BY DEF EndPersisted
  <2>1. \A w \in Workers : wjob[w] # j
    BY DEF Settled, ServiceInv, JobInv, RunOnce, WorkersOn
  <2>2. ~WriterOf(j)
    BY <2>1 DEF Settled, WriterOf
  <2> QED
    BY <2>2 DEF Settled, ServiceInv, EndOnItsWay
<1> QED
  BY <1>1, ServiceInvHolds, PTL

=============================================================================
