---------------------------- MODULE StackManager -----------------------------
(***************************************************************************)
(* pkg/orchestration/stack.go and internal/datastore/stacks.go: the life   *)
(* of one stack name, deployed, stopped, started and destroyed by callers  *)
(* that may overlap, with a database behind it, providers that may fail    *)
(* and a daemon that may crash and load its stacks again.                  *)
(*                                                                         *)
(* sm.mu is held for short sections only, never across a provider or a     *)
(* database call; nothing else serializes the operations on a stack.  A    *)
(* step of the model is one such section, one provider call or one         *)
(* statement on the database.  The *Stack an operation works on is an      *)
(* object: DeployStack keeps its pointer, the others go through the map.   *)
(***************************************************************************)
EXTENDS Integers, Sequences, FiniteSets

CONSTANTS
    Insts,          \* the instances of the manifest
    Order,          \* buildDependencyOrder's result for it
    Checked,        \* those that declare a health check
    Callers,        \* API calls that may be in progress at the same time
    Kinds,          \* the operations they make
    MaxDeploys,     \* bound: accepted deployments
    MaxCrashes,     \* bound: crashes of the daemon
    Restored,       \* the daemon starts on a database that has the stack, running
    DeleteOutcomes, \* what DeleteInstance may do to an instance: TRUE = deletes
    DbOutcomes      \* what a database statement may do: FALSE = error

Listed(s) == {s[i] : i \in 1..Len(s)}

ASSUME OrderListsInsts ==
    /\ Order \in Seq(Insts) /\ Listed(Order) = Insts
    /\ \A i, k \in 1..Len(Order) : Order[i] = Order[k] => i = k
ASSUME CheckedAreInsts == Checked \subseteq Insts
ASSUME BoundsAreNat == MaxDeploys \in Nat /\ MaxCrashes \in Nat
ASSUME RestoredNeedsObject == Restored \in BOOLEAN /\ (Restored => MaxDeploys > 0)
ASSUME OutcomesAreBool == DeleteOutcomes \subseteq BOOLEAN /\ DbOutcomes \subseteq BOOLEAN

VARIABLES
    current,    \* sm.stacks[name]: an object, 0 when there is no entry
    used,       \* objects made so far
    status,     \* Status of each object
    list,       \* Instances of each object
    health,     \* Health of each instance as the stack has it
    row,        \* status column of the stacks row, "none" when there is none
    instRows,   \* the stack_instances rows in deploy order
    host,       \* what the providers have
    services,   \* the service registry
    checks,     \* the health checker's configs
    loops,      \* instances with a running check loop
    lockEntry,  \* statusLocks[name]: a mutex, 0 when there is no entry
    lockHeld,   \* mutexes that are locked
    op,         \* each caller's operation
    crashes,
    applied,    \* ghost: the last status updateStackStatus wrote to memory
    unsaved,    \* ghost: a later status write did not reach the row
    strays      \* ghost: instances a crash caught between creation and their row

memVars == <<current, used, status, list, health>>
dbVars == <<row, instRows>>
watchVars == <<services, checks, loops>>
lockVars == <<lockEntry, lockHeld>>
ghosts == <<applied, unsaved, strays>>
vars == <<memVars, dbVars, host, watchVars, lockVars, op, crashes, ghosts>>

Objects == 1..(MaxDeploys + MaxCrashes)
Mutexes == 1..(Cardinality(Callers) + 1)
Statuses == {"none", "deploying", "running", "degraded", "stopped", "failed", "destroying"}
Healths == {"starting", "healthy", "unhealthy"}
PCs == {"idle", "persist", "next", "created", "started", "listed", "rowed", "wait",
        "rollback", "forget", "forgetRow", "loop", "deleteRow", "unmap", "dropLock",
        "enter", "apply", "store"}

Idle == [kind |-> "none", pc |-> "idle", obj |-> 0, todo |-> <<>>, made |-> <<>>,
         bad |-> FALSE, goal |-> "none", ref |-> 0]

Operations ==
    [kind : Kinds \cup {"none"}, pc : PCs, obj : Objects \cup {0}, todo : Seq(Insts),
     made : Seq(Insts), bad : BOOLEAN, goal : Statuses, ref : Mutexes \cup {0}]

TypeOK ==
    /\ current \in Objects \cup {0} /\ used \in Objects \cup {0}
    /\ status \in [Objects -> Statuses]
    /\ list \in [Objects -> Seq(Insts)]
    /\ health \in [Insts -> Healths]
    /\ row \in Statuses /\ instRows \in Seq(Insts)
    /\ host \in [Insts -> {"absent", "stopped", "running"}]
    /\ services \subseteq Insts /\ checks \subseteq Checked /\ loops \subseteq checks
    /\ lockEntry \in Mutexes \cup {0} /\ lockHeld \subseteq Mutexes
    /\ op \in [Callers -> Operations]
    /\ crashes \in 0..MaxCrashes
    /\ applied \in Statuses /\ unsaved \in BOOLEAN /\ strays \subseteq Insts

\* LoadStacks has run: over no rows, or over those of a deployed stack.
Init ==
    /\ current = IF Restored THEN 1 ELSE 0
    /\ used = current
    /\ row = IF Restored THEN "running" ELSE "none"
    /\ instRows = IF Restored THEN Order ELSE <<>>
    /\ status = [o \in Objects |-> IF o = current THEN row ELSE "none"]
    /\ list = [o \in Objects |-> IF o = current THEN instRows ELSE <<>>]
    /\ health = [i \in Insts |-> "starting"]
    /\ host = [i \in Insts |-> IF Restored THEN "running" ELSE "absent"]
    /\ services = {} /\ checks = {} /\ loops = {}
    /\ lockEntry = 0 /\ lockHeld = {}
    /\ op = [c \in Callers |-> Idle]
    /\ crashes = 0
    /\ applied = row /\ unsaved = FALSE /\ strays = {}

-----------------------------------------------------------------------------
(* Moves of one caller. *)
At(c, kind, pc) == op[c].kind = kind /\ op[c].pc = pc
Go(c, pc) == op' = [op EXCEPT ![c].pc = pc]
Finish(c) == op' = [op EXCEPT ![c] = Idle]
Report(c, goal) == op' = [op EXCEPT ![c].pc = "enter", ![c].goal = goal]
Without(s, i) ==
    LET kept[k \in 0..Len(s)] ==
            IF k = 0 THEN <<>>
            ELSE IF s[k] = i THEN kept[k - 1] ELSE Append(kept[k - 1], s[k])
    IN  kept[Len(s)]
Front(s) == SubSeq(s, 1, Len(s) - 1)

\* The instance DeployStack and StartStack are at, and the one StopStack and
\* DestroyStack are at: they go backwards.
First(c) == Head(op[c].todo)
Last(c) == op[c].todo[Len(op[c].todo)]

-----------------------------------------------------------------------------
(* DeployStack: the name is claimed in memory ... *)
DeployClaim(c) ==
    /\ "deploy" \in Kinds /\ op[c].pc = "idle"
    /\ current = 0 /\ used < MaxDeploys + crashes
    /\ used' = used + 1 /\ current' = used + 1
    /\ status' = [status EXCEPT ![used + 1] = "deploying"]
    /\ op' = [op EXCEPT ![c] = [Idle EXCEPT !.kind = "deploy", !.pc = "persist",
                                            !.obj = used + 1, !.todo = Order]]
    /\ UNCHANGED <<list, health, dbVars, host, watchVars, lockVars, crashes, ghosts>>

\* ... CreateStack inserts the row, or the claim is given up.
DeployPersist(c) ==
    /\ At(c, "deploy", "persist")
    /\ \/ /\ TRUE \in DbOutcomes /\ row = "none"
          /\ row' = "deploying" /\ applied' = "deploying" /\ unsaved' = FALSE
          /\ Go(c, "next")
          /\ UNCHANGED current
       \/ /\ FALSE \in DbOutcomes \/ row # "none"
          /\ current' = 0
          /\ Finish(c)
          /\ UNCHANGED <<row, applied, unsaved>>
    /\ UNCHANGED <<used, status, list, health, instRows, host, watchVars, lockVars,
                   crashes, strays>>

\* Mutant of DeployCreate: the handle is tracked only once it has started.
MutCreateUntracked(c) ==
    /\ At(c, "deploy", "next") /\ op[c].todo # <<>>
    /\ host[First(c)] = "absent"
    /\ host' = [host EXCEPT ![First(c)] = "stopped"]
    /\ Go(c, "created")
    /\ UNCHANGED <<memVars, dbVars, watchVars, lockVars, crashes, ghosts>>

\* CreateInstance, which refuses a name that exists.
DeployCreate(c) ==
    /\ At(c, "deploy", "next") /\ op[c].todo # <<>>
    /\ host[First(c)] = "absent"
    /\ host' = [host EXCEPT ![First(c)] = "stopped"]
    /\ op' = [op EXCEPT ![c].pc = "created", ![c].made = Append(@, First(c))]
    /\ UNCHANGED <<memVars, dbVars, watchVars, lockVars, crashes, ghosts>>

\* StartInstance.
DeployStart(c) ==
    /\ At(c, "deploy", "created")
    /\ host[First(c)] # "absent"
    /\ host' = [host EXCEPT ![First(c)] = "running"]
    /\ Go(c, "started")
    /\ UNCHANGED <<memVars, dbVars, watchVars, lockVars, crashes, ghosts>>

\* The instance joins the object's list.
DeployList(c) ==
    /\ At(c, "deploy", "started")
    /\ list' = [list EXCEPT ![op[c].obj] = Append(@, First(c))]
    /\ health' = [health EXCEPT ![First(c)] = "starting"]
    /\ Go(c, "listed")
    /\ UNCHANGED <<current, used, status, dbVars, host, watchVars, lockVars, crashes, ghosts>>

\* CreateStackInstance: the row needs its stack's row and a key of its own.
DeployRow(c) ==
    /\ At(c, "deploy", "listed")
    /\ TRUE \in DbOutcomes /\ row # "none" /\ First(c) \notin Listed(instRows)
    /\ instRows' = Append(instRows, First(c))
    /\ Go(c, "rowed")
    /\ UNCHANGED <<memVars, row, host, watchVars, lockVars, crashes, ghosts>>

\* registerService, RegisterInstance and StartChecking.
DeployRegister(c) ==
    /\ At(c, "deploy", "rowed")
    /\ services' = services \cup {First(c)}
    /\ checks' = checks \cup ({First(c)} \cap Checked)
    /\ loops' = loops \cup ({First(c)} \cap Checked)
    /\ Go(c, "wait")
    /\ UNCHANGED <<memVars, dbVars, host, lockVars, crashes, ghosts>>

\* The pause between two instances.
DeployNext(c) ==
    /\ At(c, "deploy", "wait")
    /\ op' = [op EXCEPT ![c].pc = "next", ![c].todo = Tail(@)]
    /\ UNCHANGED <<memVars, dbVars, host, watchVars, lockVars, crashes, ghosts>>

DeployDone(c) ==
    /\ At(c, "deploy", "next") /\ op[c].todo = <<>>
    /\ Report(c, "running")
    /\ UNCHANGED <<memVars, dbVars, host, watchVars, lockVars, crashes, ghosts>>

\* Every early return: no dependency order, an unhealthy dependency, no
\* provider, a bad spec, CreateInstance, StartInstance, the handle's encoding,
\* CreateStackInstance, or the caller's context ending in the pause.
DeployFail(c) ==
    /\ op[c].kind = "deploy"
    /\ \/ op[c].pc = "next" /\ op[c].todo # <<>>
       \/ op[c].pc \in {"created", "listed", "wait"}
    /\ Go(c, "rollback")
    /\ UNCHANGED <<memVars, dbVars, host, watchVars, lockVars, crashes, ghosts>>

-----------------------------------------------------------------------------
(* rollbackCreatedInstances, oldest first: forced stop, then delete.  The   *)
(* stop's error is ignored, and so is the delete's, apart from a log line.  *)
RollbackDelete(c) ==
    /\ At(c, "deploy", "rollback") /\ op[c].made # <<>>
    /\ LET i == Head(op[c].made) IN
       \/ host[i] = "absent" /\ UNCHANGED host
       \/ TRUE \in DeleteOutcomes /\ host' = [host EXCEPT ![i] = "absent"]
       \/ /\ FALSE \in DeleteOutcomes /\ host[i] # "absent"
          /\ \E h \in {"stopped", host[i]} : host' = [host EXCEPT ![i] = h]
    /\ Go(c, "forget")
    /\ UNCHANGED <<memVars, dbVars, watchVars, lockVars, crashes, ghosts>>

\* forgetRolledBackInstance: the map's stack, the checker, the registry ...
RollbackForget(c) ==
    /\ At(c, "deploy", "forget")
    /\ LET i == Head(op[c].made) IN
       /\ list' = IF current = 0 THEN list
                  ELSE [list EXCEPT ![current] = Without(@, i)]
       /\ checks' = checks \ {i} /\ loops' = loops \ {i} /\ services' = services \ {i}
    /\ Go(c, "forgetRow")
    /\ UNCHANGED <<current, used, status, health, dbVars, host, lockVars, crashes, ghosts>>

\* ... and the row.
RollbackForgetRow(c) ==
    /\ At(c, "deploy", "forgetRow")
    /\ \E ok \in DbOutcomes :
          instRows' = IF ok THEN Without(instRows, Head(op[c].made)) ELSE instRows
    /\ op' = [op EXCEPT ![c].pc = "rollback", ![c].made = Tail(@)]
    /\ UNCHANGED <<memVars, row, host, watchVars, lockVars, crashes, ghosts>>

\* Mutant of RollbackDone: the cancellation branch returns without a status.
MutRollbackSilent(c) ==
    /\ At(c, "deploy", "rollback") /\ op[c].made = <<>>
    /\ Finish(c)
    /\ UNCHANGED <<memVars, dbVars, host, watchVars, lockVars, crashes, ghosts>>

RollbackDone(c) ==
    /\ At(c, "deploy", "rollback") /\ op[c].made = <<>>
    /\ Report(c, "failed")
    /\ UNCHANGED <<memVars, dbVars, host, watchVars, lockVars, crashes, ghosts>>

-----------------------------------------------------------------------------
(* StopStack, StartStack and DestroyStack begin with a copy of the list. *)
Begin(c, kind) ==
    /\ kind \in Kinds \cap {"stop", "start", "destroy"}
    /\ op[c].pc = "idle"
    /\ current # 0
    /\ op' = [op EXCEPT ![c] = [Idle EXCEPT !.kind = kind, !.pc = "loop",
                                            !.todo = list[current]]]
    /\ status' = IF kind = "destroy" THEN [status EXCEPT ![current] = "destroying"]
                                     ELSE status
    /\ UNCHANGED <<current, used, list, health, dbVars, host, watchVars, lockVars,
                   crashes, ghosts>>

\* An instance without a service entry was loaded from its row, and its
\* provider may not be registered in this process.
Loaded(i) == i \notin services

Backward(c, failed) ==
    op' = [op EXCEPT ![c].todo = Front(@), ![c].bad = @ \/ failed]

\* Mutant of StopOne: an instance that would not stop is not watched again.
MutStopUnwatched(c) ==
    /\ At(c, "stop", "loop") /\ op[c].todo # <<>>
    /\ loops' = loops \ {Last(c)}
    /\ \/ Backward(c, TRUE) /\ UNCHANGED host
       \/ host' = [host EXCEPT ![Last(c)] = IF @ = "running" THEN "stopped" ELSE @]
          /\ Backward(c, FALSE)
    /\ UNCHANGED <<memVars, dbVars, services, checks, lockVars, crashes, ghosts>>

\* StopStack, one instance: the check loop stops; without a provider it stays
\* stopped, and after a failed StopInstance it starts again.
StopOne(c) ==
    /\ At(c, "stop", "loop") /\ op[c].todo # <<>>
    /\ \/ /\ Loaded(Last(c))
          /\ loops' = loops \ {Last(c)}
          /\ Backward(c, TRUE)
          /\ UNCHANGED host
       \/ /\ loops' = loops \cup ({Last(c)} \cap checks)
          /\ Backward(c, TRUE)
          /\ UNCHANGED host
       \/ /\ loops' = loops \ {Last(c)}
          /\ host' = [host EXCEPT ![Last(c)] = IF @ = "running" THEN "stopped" ELSE @]
          /\ Backward(c, FALSE)
    /\ UNCHANGED <<memVars, dbVars, services, checks, lockVars, crashes, ghosts>>

\* Mutant of StopDone: the failures are forgotten.
MutStopDone(c) ==
    /\ At(c, "stop", "loop") /\ op[c].todo = <<>>
    /\ Report(c, "stopped")
    /\ UNCHANGED <<memVars, dbVars, host, watchVars, lockVars, crashes, ghosts>>

StopDone(c) ==
    /\ At(c, "stop", "loop") /\ op[c].todo = <<>>
    /\ Report(c, IF op[c].bad THEN "degraded" ELSE "stopped")
    /\ UNCHANGED <<memVars, dbVars, host, watchVars, lockVars, crashes, ghosts>>

\* StartStack, one instance, in deploy order: it starts and is watched, and the
\* caller may be gone by the end of the pause, which leaves the status alone ...
StartOne(c) ==
    /\ At(c, "start", "loop") /\ op[c].todo # <<>>
    /\ host[First(c)] # "absent"
    /\ host' = [host EXCEPT ![First(c)] = "running"]
    /\ loops' = loops \cup ({First(c)} \cap checks)
    /\ op' = [op EXCEPT ![c].todo = Tail(@)] \/ Finish(c)
    /\ UNCHANGED <<memVars, dbVars, services, checks, lockVars, crashes, ghosts>>

\* ... or there is no provider or it refuses.
StartFail(c) ==
    /\ At(c, "start", "loop") /\ op[c].todo # <<>>
    /\ Report(c, "degraded")
    /\ UNCHANGED <<memVars, dbVars, host, watchVars, lockVars, crashes, ghosts>>

StartDone(c) ==
    /\ At(c, "start", "loop") /\ op[c].todo = <<>>
    /\ Report(c, "running")
    /\ UNCHANGED <<memVars, dbVars, host, watchVars, lockVars, crashes, ghosts>>

\* DestroyStack, one instance: deleted and forgotten by the registries, or
\* still there and watched again, or without a provider.  The providers answer
\* the deletion of an instance that is gone with success.
DestroyOne(c) ==
    /\ At(c, "destroy", "loop") /\ op[c].todo # <<>>
    /\ \/ /\ TRUE \in DeleteOutcomes
          /\ host' = [host EXCEPT ![Last(c)] = "absent"]
          /\ services' = services \ {Last(c)}
          /\ checks' = checks \ {Last(c)} /\ loops' = loops \ {Last(c)}
          /\ Backward(c, FALSE)
       \/ /\ FALSE \in DeleteOutcomes
          /\ \E h \in {"stopped", host[Last(c)]} :
                host' = [host EXCEPT ![Last(c)] = IF @ = "absent" THEN @ ELSE h]
          /\ loops' = loops \cup ({Last(c)} \cap checks)
          /\ Backward(c, TRUE)
          /\ UNCHANGED <<services, checks>>
       \/ Loaded(Last(c)) /\ Backward(c, TRUE) /\ UNCHANGED <<host, watchVars>>
    /\ UNCHANGED <<memVars, dbVars, lockVars, crashes, ghosts>>

\* Mutant of DestroyDone: the record goes, whatever is left.
MutDestroyDone(c) ==
    /\ At(c, "destroy", "loop") /\ op[c].todo = <<>>
    /\ Go(c, "deleteRow")
    /\ UNCHANGED <<memVars, dbVars, host, watchVars, lockVars, crashes, ghosts>>

DestroyDone(c) ==
    /\ At(c, "destroy", "loop") /\ op[c].todo = <<>>
    /\ IF op[c].bad THEN Report(c, "degraded") ELSE Go(c, "deleteRow")
    /\ UNCHANGED <<memVars, dbVars, host, watchVars, lockVars, crashes, ghosts>>

\* DeleteStack takes the instance rows with it; a missing row is an error, and
\* an error leaves the stack in memory, "destroying".
DestroyRow(c) ==
    /\ At(c, "destroy", "deleteRow")
    /\ \/ /\ TRUE \in DbOutcomes /\ row # "none"
          /\ row' = "none" /\ instRows' = <<>>
          /\ Go(c, "unmap")
       \/ /\ FALSE \in DbOutcomes \/ row = "none"
          /\ Finish(c)
          /\ UNCHANGED dbVars
    /\ UNCHANGED <<memVars, host, watchVars, lockVars, crashes, ghosts>>

\* delete(sm.stacks, name), and the status lock is looked up ...
DestroyUnmap(c) ==
    /\ At(c, "destroy", "unmap")
    /\ current' = 0
    /\ op' = [op EXCEPT ![c].pc = "dropLock", ![c].ref = lockEntry]
    /\ UNCHANGED <<used, status, list, health, dbVars, host, watchVars, lockVars,
                   crashes, ghosts>>

\* ... and dropped once it is free.
DestroyDropLock(c) ==
    /\ At(c, "destroy", "dropLock")
    /\ op[c].ref \notin lockHeld
    /\ lockEntry' = IF op[c].ref = 0 THEN lockEntry ELSE 0
    /\ Finish(c)
    /\ UNCHANGED <<memVars, dbVars, host, watchVars, lockHeld, crashes, ghosts>>

-----------------------------------------------------------------------------
(* updateStackStatus: LoadOrStore finds or makes the name's mutex ... *)
StatusEnter(c) ==
    /\ op[c].pc = "enter"
    /\ \E m \in IF lockEntry = 0
                THEN Mutexes \ ({op[d].ref : d \in Callers} \cup lockHeld)
                ELSE {lockEntry} :
          /\ lockEntry' = m
          /\ op' = [op EXCEPT ![c].pc = "apply", ![c].ref = m]
    /\ UNCHANGED <<memVars, dbVars, host, watchVars, lockHeld, crashes, ghosts>>

\* Mutant of StatusApply: the status is written without the mutex.
MutApplyUnlocked(c) ==
    /\ op[c].pc = "apply"
    /\ status' = IF current = 0 THEN status
                 ELSE [status EXCEPT ![current] = op[c].goal]
    /\ applied' = IF current = 0 THEN applied ELSE op[c].goal
    /\ unsaved' = (unsaved /\ current = 0)
    /\ Go(c, "store")
    /\ UNCHANGED <<current, used, list, health, dbVars, host, watchVars, lockVars,
                   crashes, strays>>

\* ... the mutex is taken and the status written in memory ...
StatusApply(c) ==
    /\ op[c].pc = "apply"
    /\ op[c].ref \notin lockHeld
    /\ lockHeld' = lockHeld \cup {op[c].ref}
    /\ status' = IF current = 0 THEN status
                 ELSE [status EXCEPT ![current] = op[c].goal]
    /\ applied' = IF current = 0 THEN applied ELSE op[c].goal
    /\ unsaved' = (unsaved /\ current = 0)
    /\ Go(c, "store")
    /\ UNCHANGED <<current, used, list, health, dbVars, host, watchVars, lockEntry,
                   crashes, strays>>

\* Mutant of StatusStore: a failed statement returns without the unlock.
MutStoreKeepsLock(c) ==
    /\ op[c].pc = "store"
    /\ \E ok \in DbOutcomes :
          /\ row' = IF ok /\ row # "none" THEN op[c].goal ELSE row
          /\ unsaved' = ~ok
          /\ lockHeld' = IF ok THEN lockHeld \ {op[c].ref} ELSE lockHeld
    /\ Finish(c)
    /\ UNCHANGED <<memVars, instRows, host, watchVars, lockEntry, crashes, applied, strays>>

\* ... and UpdateStackStatus, which changes nothing when the row is gone; an
\* error is logged.  The mutex is released.
StatusStore(c) ==
    /\ op[c].pc = "store"
    /\ \E ok \in DbOutcomes :
          /\ row' = IF ok /\ row # "none" THEN op[c].goal ELSE row
          /\ unsaved' = ~ok
    /\ lockHeld' = lockHeld \ {op[c].ref}
    /\ Finish(c)
    /\ UNCHANGED <<memVars, instRows, host, watchVars, lockEntry, crashes, applied, strays>>

-----------------------------------------------------------------------------
\* updateStackHealthStatus.
HealthStatus(old, hs) ==
    IF old \in {"stopped", "destroying"} THEN old
    ELSE IF \E i \in DOMAIN hs : hs[i] = "unhealthy" THEN "degraded"
    ELSE IF \A i \in DOMAIN hs : hs[i] = "healthy" THEN "running"
    ELSE old

\* onHealthChange, called by the checker's drainer, maybe late.  "unknown" acts
\* like "starting".  The database is not told.
HealthChange(i, h) ==
    /\ i \in Checked /\ health[i] # h
    /\ current # 0 /\ i \in Listed(list[current])
    /\ health' = [health EXCEPT ![i] = h]
    /\ status' = [status EXCEPT ![current] =
                     HealthStatus(@, [k \in Listed(list[current]) |-> health'[k]])]
    /\ UNCHANGED <<current, used, list, dbVars, host, watchVars, lockVars, op, crashes, ghosts>>

(* The daemon dies and starts again: LoadStacks rebuilds the stack from its *)
(* rows.  The service registry and the health checker start empty, and the  *)
(* health column still has the value of the INSERT.                         *)
InDeployment(c) ==
    IF op[c].kind = "deploy" /\ op[c].todo # <<>> /\ First(c) \in Listed(op[c].made)
    THEN {First(c)} ELSE {}

CrashAndLoad ==
    /\ crashes < MaxCrashes
    /\ crashes' = crashes + 1
    /\ op' = [c \in Callers |-> Idle]
    /\ IF row = "none"
       THEN current' = 0 /\ UNCHANGED <<used, status, list>>
       ELSE /\ current' = used + 1 /\ used' = used + 1
            /\ status' = [status EXCEPT ![used + 1] = row]
            /\ list' = [list EXCEPT ![used + 1] = instRows]
    /\ health' = [i \in Insts |-> "starting"]
    /\ services' = {} /\ checks' = {} /\ loops' = {}
    /\ lockEntry' = 0 /\ lockHeld' = {}
    /\ applied' = row /\ unsaved' = FALSE
    /\ strays' = strays \cup
          ((UNION {InDeployment(c) : c \in Callers}) \ Listed(instRows))
    /\ UNCHANGED <<dbVars, host>>

-----------------------------------------------------------------------------
CallerStep(c) ==
    \/ DeployPersist(c) \/ DeployCreate(c) \/ DeployStart(c) \/ DeployList(c)
    \/ DeployRow(c) \/ DeployRegister(c) \/ DeployNext(c) \/ DeployDone(c) \/ DeployFail(c)
    \/ RollbackDelete(c) \/ RollbackForget(c) \/ RollbackForgetRow(c) \/ RollbackDone(c)
    \/ StopOne(c) \/ StopDone(c) \/ StartOne(c) \/ StartFail(c) \/ StartDone(c)
    \/ DestroyOne(c) \/ DestroyDone(c) \/ DestroyRow(c) \/ DestroyUnmap(c)
    \/ DestroyDropLock(c)
    \/ StatusEnter(c) \/ StatusApply(c) \/ StatusStore(c)

Next ==
    \/ \E c \in Callers :
          DeployClaim(c) \/ CallerStep(c) \/ \E kind \in Kinds : Begin(c, kind)
    \/ \E i \in Insts, h \in Healths : HealthChange(i, h)
    \/ CrashAndLoad

Spec == Init /\ [][Next]_vars

\* An API call that has begun runs on: provider and database calls return.
\* sync.Mutex hands a mutex to a goroutine that has waited for it a
\* millisecond, so no caller waits for it forever.
FairSpec ==
    Spec /\ \A c \in Callers : WF_vars(CallerStep(c)) /\ SF_vars(StatusApply(c))

-----------------------------------------------------------------------------
Mine == IF current = 0 THEN {} ELSE Listed(list[current])
Quiet == \A c \in Callers : op[c].pc = "idle"

(* Every instance the providers have is listed by the stack or in the hands *)
(* of a deployment that will list or delete it, apart from the one instance *)
(* a crash may catch between CreateInstance and its row.                    *)
NoOrphans ==
    \A i \in Insts :
        \/ host[i] = "absent"
        \/ i \in Mine \cup strays
        \/ \E c \in Callers : op[c].kind = "deploy" /\ i \in Listed(op[c].made)

(* A restart at any moment finds every instance again: what the providers   *)
(* have has a row, but for deployments in progress and the crash window.    *)
RestartFindsAll ==
    \A i \in Insts :
        \/ host[i] = "absent"
        \/ i \in Listed(instRows) \cup strays
        \/ \E c \in Callers : op[c].kind = "deploy" /\ i \in Listed(op[c].made)

(* What an operation reports is so at that moment: "running" from a deploy  *)
(* means every instance is listed, recorded and runs, from a start that all *)
(* listed ones run; "stopped" that none runs; "failed" that none is left.   *)
Truthful(c) ==
    LET left == {i \in Insts : host[i] # "absent"} IN
    CASE op[c].goal = "running" ->
            /\ \A i \in Mine : host[i] = "running"
            /\ op[c].kind = "deploy" => Mine = Insts /\ Listed(instRows) = Insts
      [] op[c].goal = "stopped" -> \A i \in Mine : host[i] # "running"
      [] op[c].goal = "failed" -> left \subseteq strays /\ Mine = {}
      [] OTHER -> TRUE

ReportsTrue ==
    [][\A c \in Callers : op[c].pc = "apply" /\ op'[c].pc = "store" => Truthful(c)]_vars

(* Between operations the service registry and the health checker know only *)
(* listed instances, and a listed instance that runs and has a check is     *)
(* being checked, also after a stop or a destroy that failed half-way.      *)
RegistriesFollowStack ==
    Quiet => /\ services \cup checks \subseteq Mine
             /\ \A i \in checks : host[i] = "running" => i \in loops

(* The order a stack's statuses are persisted in is the order they were     *)
(* applied in memory (the comment in updateStackStatus): the row never ends *)
(* up with the older of two.                                                *)
StatusPersistedInOrder ==
    row # "none" /\ ~unsaved /\ (\A c \in Callers : op[c].pc # "store") => row = applied

(* DestroyStack keeps the record while an instance it lists is still there, *)
(* whatever stops and starts run at the same time: the record is what an    *)
(* operator reaches the survivors through.                                  *)
RecordOutlivesInstances ==
    [][row # "none" /\ row' = "none" => \A i \in Mine : host[i] = "absent"]_vars

(* Every operation returns: the status mutex is always released.            *)
CallsReturn == \A c \in Callers : op[c].pc # "idle" ~> op[c].pc = "idle"

(* A stack is "deploying" only while a deployment of it is at work (the     *)
(* comment on cancellation in DeployStack): one that failed, was canceled   *)
(* or lost a statement has reported another status or given the name up.    *)
(* A crash may leave the row "deploying", and LoadStacks restores what the  *)
(* row says.                                                                *)
DeployingIsDriven ==
    current # 0 /\ status[current] = "deploying" =>
        \/ \E c \in Callers : op[c].kind = "deploy" /\ op[c].obj = current
        \/ crashes > 0

-----------------------------------------------------------------------------
(* Inductive invariants.                                                    *)

Goals == [deploy |-> {"running", "failed"}, start |-> {"running", "degraded"},
          stop |-> {"stopped", "degraded"}, destroy |-> {"degraded"}]
Reporting == {"enter", "apply", "store"}
Building == {"next", "created", "started", "listed", "rowed", "wait"}
Undoing == {"rollback", "forget", "forgetRow"}

\* Where an operation may be, and what it has in hand there.
Fits(o) ==
    /\ o.pc = "idle" <=> o.kind = "none"
    /\ o.kind \in {"none", "deploy", "stop", "start", "destroy"}
    /\ o.kind = "deploy" => /\ o.pc \in {"persist"} \cup Building \cup Undoing \cup Reporting
                            /\ o.obj # 0
    /\ o.kind \in {"stop", "start"} => o.pc \in {"loop"} \cup Reporting
    /\ o.kind = "destroy" => o.pc \in {"loop", "deleteRow", "unmap", "dropLock"} \cup Reporting
    /\ o.pc \in Building \ {"next"} => o.todo # <<>>
    /\ o.pc \in {"forget", "forgetRow"} => o.made # <<>>
    /\ o.pc \in Reporting => o.goal \in Goals[o.kind]
    /\ o.pc \in {"apply", "store"} => o.ref # 0

\* Objects are numbered in the order they are made.
Numbered == current <= used /\ used <= MaxDeploys + crashes

\* A deployment that has not reported drives a stack that is "deploying".
Driven ==
    current # 0 /\ status[current] = "deploying" =>
        \/ crashes > 0
        \/ \E c \in Callers : op[c].kind = "deploy" /\ op[c].obj = current /\ op[c].pc # "store"

\* Holds whatever overlaps.
StackInv == TypeOK /\ Numbered /\ Driven /\ \A c \in Callers : Fits(op[c])

\* Stops, starts and destroys that overlap on a stack that is on record: one mutex,
\* one status on its way to the row, and no destroy past the deletion of the record.
OneStatusMutex ==
    \A c \in Callers : op[c].pc \in {"apply", "store"} => op[c].ref = lockEntry /\ lockEntry # 0
OneWriter ==
    \A c \in Callers : op[c].pc = "store" =>
        /\ op[c].ref \in lockHeld /\ applied = op[c].goal
        /\ \A d \in Callers : op[d].pc = "store" => d = c
DestroysSee ==
    \A c \in Callers : op[c].kind = "destroy" =>
        /\ op[c].pc = "loop" /\ ~op[c].bad =>
              \A i \in Mine : i \in Listed(op[c].todo) \/ host[i] = "absent"
        /\ op[c].pc = "deleteRow" => \A i \in Mine : host[i] = "absent"
        /\ op[c].pc \notin {"unmap", "dropLock"}
RecordInv ==
    row # "none" => /\ current # 0
                    /\ OneStatusMutex /\ OneWriter /\ DestroysSee
                    /\ StatusPersistedInOrder

\* Operations that do not overlap.
OneAtATime == \A c, d \in Callers : op[c].pc # "idle" /\ op[d].pc # "idle" => c = d

\* Every instance the providers have is listed and recorded, or a stray, or the one a
\* deployment is at.
Accounted ==
    \A i \in Insts :
        \/ host[i] = "absent" \/ i \in strays
        \/ i \in Mine /\ i \in Listed(instRows)
        \/ \E c \in Callers : i \in InDeployment(c)

\* The map has the stack that is on record.
RowsMatch ==
    /\ row = "none" => instRows = <<>>
    /\ row # "none" => current # 0
    /\ row = "none" /\ current # 0 => \E c \in Callers : op[c].pc \in {"persist", "unmap"}
    /\ \A o \in Objects : o > used => list[o] = <<>>

\* What the operation under way has done so far.
DeployFits(o) ==
    /\ o.pc # "idle" => current = o.obj
    /\ o.pc = "persist" => Mine = {} /\ o.made = <<>> /\ o.todo = Order /\ row = "none"
    /\ o.pc \in Building =>
          LET atWork == IF o.pc \in {"created", "started", "listed"} THEN {Head(o.todo)} ELSE {} IN
          /\ row # "none"
          /\ Listed(o.made) \cup Listed(o.todo) = Insts
          /\ Mine \subseteq Listed(o.made)
          /\ services \subseteq Listed(o.made) \ atWork
          /\ o.pc # "next" => Head(o.todo) \in Listed(o.made)
          /\ o.pc \in {"started", "listed"} => host[Head(o.todo)] = "running"
          /\ o.pc = "listed" => Head(o.todo) \in Mine
          /\ \A i \in Listed(o.made) \ atWork :
                host[i] = "running" /\ i \in Mine /\ i \in Listed(instRows)
    /\ o.pc \in Undoing =>
          LET left == IF o.pc = "forgetRow" THEN Tail(o.made) ELSE o.made IN
          /\ row # "none"
          /\ Mine \cup services \subseteq Listed(left)
          /\ o.pc # "rollback" => host[Head(o.made)] = "absent"
    /\ o.pc \in Reporting /\ o.goal = "failed" => Mine = {} /\ o.made = <<>>
    /\ o.pc \in Reporting /\ o.goal = "running" =>
          o.todo = <<>> /\ \A i \in Insts : host[i] = "running" /\ i \in Mine /\ i \in Listed(instRows)
    /\ o.pc \in Reporting => row # "none"
LoopFits(o) ==
    LET done == {i \in Mine : i \notin Listed(o.todo)} IN
    /\ o.kind = "start" /\ o.pc = "loop" => \A i \in done : host[i] = "running"
    /\ o.kind = "start" /\ o.pc \in Reporting /\ o.goal = "running" =>
          \A i \in Mine : host[i] = "running"
    /\ o.kind = "stop" /\ o.pc = "loop" /\ ~o.bad => \A i \in done : host[i] # "running"
    /\ o.kind = "stop" /\ o.pc \in Reporting /\ o.goal = "stopped" =>
          \A i \in Mine : host[i] # "running"
    /\ o.kind = "destroy" /\ o.pc = "loop" /\ ~o.bad =>
          services \subseteq Listed(o.todo) /\ \A i \in done : host[i] = "absent"
    /\ o.kind = "destroy" /\ o.pc \in {"deleteRow", "unmap", "dropLock"} =>
          services = {} /\ \A i \in Mine : host[i] = "absent"
    /\ o.pc = "unmap" => row = "none"
    /\ o.pc = "dropLock" => current = 0
    /\ o.pc \notin {"unmap", "dropLock"} => row # "none"

\* The registries, but for a deployment that is being undone.
Watched ==
    /\ checks \subseteq services
    /\ \A i \in checks : host[i] = "running" => i \in loops
    /\ (\A c \in Callers : op[c].pc \notin Undoing) => services \subseteq Mine

SerialInv ==
    /\ StackInv
    /\ Accounted /\ RowsMatch /\ Watched
    /\ \A c \in Callers : op[c].kind = "deploy" => DeployFits(op[c])
    /\ \A c \in Callers : op[c].kind \in {"stop", "start", "destroy"} => LoopFits(op[c])

=============================================================================
