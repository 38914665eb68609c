# A TLA+ model of hospitus

hospitus is a daemon, `hospitusd`, and a command-line client that manage FreeBSD jails,
bhyve and QEMU machines, Podman containers and, on macOS, vfkit machines and Apple
containers. Providers do the work on the host; around them the daemon keeps jobs, stacks,
health checks, backups, an HTTP API and an SQLite database.

This directory models the parts of the daemon where operations overlap, fail half way or
are cut off by a crash, checks the models with TLC on small instances, and proves the most
important results with TLAPS for every size. `PROJECT.json` lists the runs, the theorems,
the source lines behind every definition and the hazards the properties are aimed at.

Run a model with `tlc -workers 2 -config X.cfg MCModule` and the proofs of a component with
`tlapm XProofs.tla`; `InstanceLocks`, `JobService` (with the proofs about `JobManager`),
`HealthChecker`, `BackupManager`, `DependencyOrder`, `InstanceCatalog`, `StackManager` and
`HostOperations` have them.

## 1. Inventory

Paths are below `src/`.

| Component | State | Operations | What is hard | What makes it correct |
|---|---|---|---|---|
| Per-instance locks, `pkg/provider/locks.go` | map name → entry (channel of capacity 1, reference count), set of held names in the context | Acquire, AcquireAll, release, drop | callers come and go while the entry is created and deleted; contexts end while waiting; locked methods call locked methods | one holder per name; no entry without a user; no cycle of waiting; every acquisition ends |
| Job manager, `pkg/job/job.go` | jobs map, bounded queue, workers, root context | Submit, CancelJob, DeleteJob, cleanup loop, Shutdown | cancel against start and end, shutdown against submit and against its own timeout | a job runs once and ends; a cancellation reaches the function; a clean shutdown finishes everything |
| Job service, `internal/api/job_handlers.go`, `internal/datastore/jobs.go` | jobs table | submitJob, update hook, cancel, delete, reconcileJobs | two writers of one row, failing statements, restart | rows show how jobs ended and never come back to life |
| Stack manager, `pkg/orchestration/stack.go`, `internal/datastore/stacks.go` | stacks map, status mutexes, two tables, service registry, health checks | DeployStack with rollback, StopStack, StartStack, DestroyStack, updateStackStatus, onHealthChange, LoadStacks | nothing serializes operations on a stack; each is many steps that fail alone; crash between any two | no instance without a record; a restart finds all; statuses persist in order; calls return |
| Dependency order, `buildDependencyOrder` | none | one pure function | duplicate names and dependencies, cycles | the order is topological; a refusal names a real fault |
| Health checker, `pkg/orchestration/health.go` | configs, results, failure counts, stop channels, queue of changes | Register/UnregisterInstance, Start/StopChecking, runCheck, notify, drainNotifications | the lock is free while a check runs; loops are replaced; the queue is bounded | no loop leaks; one drainer; listeners end with the status the checker has |
| Backup manager, `pkg/backup/backup.go`, `internal/datastore/backups.go` | list of records, backups table, snapshots, stream files, schedules | CreateSnapshot, CreateBackup, VerifyBackup, Restore, DeleteBackup, applyRetention, reload, Configure | chains of incrementals; data, list and table change one after the other | an incremental keeps its base; data has an owner; retention spares the newest |
| Jail provider, `pkg/provider/jail` | dataset, JSON file, jail, mounts and fstab, epairs, pf rules and port mappings, rctl rules, hooks | create, start, stop, delete, clone, rename, snapshots, export, import, volumes, interfaces, services, packages, limits | deferred clean-up that depends on how far an operation got; a crash between any two commands | a failed operation leaves the host as it was; a success is one; half an instance can be stopped and deleted |
| bhyve provider, `pkg/provider/bhyve` | VM directory with configuration and state, process, vmm object, zvols, taps, NAT rules, swtpm; one goroutine per VM | the same, and suspension, checkpoints, media, passthrough, VNC | a record beside a process that exits by itself; the goroutine relaunches without the instance's lock | the same; a guest that runs is known; a stopped VM stays stopped |
| QEMU provider, `pkg/provider/qemu` | configuration, disk, process, QMP socket, forwarded ports | the same as for bhyve | changes to file and process, one of which fails | the same |
| Podman provider, `pkg/provider/podman` | containers, images, settings in labels and files | create, start, stop, delete, snapshot, restore, clone, rename, export, import | a restore replaces a container by another of its name | the same |
| vfkit and Apple containers | configuration, process | lifecycle | as for QEMU | as for QEMU |
| Firewall, `pkg/firewall` | persisted rule sets, rule files, the kernel's rules, localhost proxies | ExposePort, UnexposePort, SetupNAT, RemoveNAT, ApplyPersistedRules, RemoveAllRules | four places change one after the other | what is recorded is what is in force |
| Instance API and datastore, `internal/api`, `internal/datastore/datastore.go` | the instances table beside the providers and the firewall | create, clone, import, delete, start, stop, restart, rename, update, expose, unexpose, SyncInstanceStates | a provider call, then a row; either fails, and so does the undo | every instance has a row; rows tell the truth; a name's rules go with the instance |
| Other handlers, consoles, middleware | sessions, rate limiter | some fifty handlers | console copying | errors leave the stored and the real state in agreement |
| Authentication, `internal/auth` | API keys and their cache | create, revoke, validate | a revoked key in a cache | a revoked key stops working |
| Storage, images | volumes and attachments; catalog and cache | attach, download | partial application | what is recorded is what is there |
| Migrations, `internal/datastore/migrations` | schema version | the runner | crash inside a migration | a migration is applied once or not at all |
| Daemon, `cmd/hospitusd` | data-directory lock | startup and shutdown order | shutdown while work is under way | one daemon per directory |
| Client, manifests, doctor, validation, cloud-init | none of their own | parsing, formatting, checks | | |

How they interact. The API handlers call the managers and the providers and run long
operations as jobs. The job manager calls a hook after every transition, which writes the
jobs row; the handler writes the same row. The stack manager calls providers instance by
instance, registers services and health checks, and is called back by the health checker's
drainer. The bhyve and jail providers take the per-instance locks in the operations of an
instance's life and pass the derived context to the locked methods they call. The backup
manager reads datasets through a resolver and runs `zfs`. The instance handlers call a
provider and then write the instances row; exposing a port goes through the firewall
manager, of which the API server, the jail provider and the bhyve provider each have one
over the same files. Every manager reloads its state from the database at startup.

## 2. Modules

| Module | Models | State and steps |
|---|---|---|
| `InstanceLocks` | locks.go and how providers use it | the map, each entry's count and token, each caller's place in Acquire, AcquireAll, body and release; one action per section under `mu`, per channel operation and per context event |
| `NameMutex` | the promise of the locks: one owner per name | refined by `InstanceLocks` |
| `JobManager` | job.go | jobs, queue, workers, cancelers, shutdown; one action per critical section |
| `JobLifecycle` | the life of a job a client may rely on | refined by `JobManager` |
| `JobService` | `JobManager` composed with the jobs table | adds the handlers' statements, the hook's snapshots and the restart |
| `StackManager` | stack.go, stacks.go and the stack handlers' calls | one stack name, its objects, tables, instances on the host, registries and status mutexes; a step is one section, one provider call or one statement |
| `DependencyOrder` | buildDependencyOrder | a manifest is chosen, then the queue of the algorithm is run step by step |
| `HealthChecker` | health.go | configs, results, loops with their stop channels, the queue and its drainer |
| `Procedures` | how a function of a provider is written down | a procedure is a sequence of steps (make, drop, try, wait, condition, ...) with the error path of each: returned, logged, with what it undoes or puts back; operators for calls, deferred clean-up and alternatives |
| `JailProvider`, `JailStorage`, `JailNetwork`, `JailServices` | pkg/provider/jail | one procedure per function, under its name |
| `BhyveProvider`, `BhyveStorage` | pkg/provider/bhyve | the same |
| `QemuProvider`, `PodmanProvider` | pkg/provider/qemu, pkg/provider/podman | the same |
| `FirewallManager` with `PFBackend`, `NFTablesBackend`, `IPTablesBackend` | pkg/firewall | the same, the manager over each backend |
| `HostOperations` | the host under them | runs the procedures of one system step by step: the resources that exist, the operation under way and how it ended; steps succeed or fail, clean-up fails, the guest exits, the daemon dies, the host reboots |
| `ProcedureOutlines` | when the procedures of a system keep their promises | no state of its own: facts about resources, what each kind of step makes of a fact, and the condition `Outlined` on the text of the procedures; section 5 |
| `BhyveSupervisor` | superviseBhyve beside StartInstance and StopInstance | processes, the vmm object, the record, one goroutine per start and the operation that holds the lock |
| `InstanceCatalog` | the instance handlers, datastore.go and SyncInstanceStates | what the provider has, the rows and the firewall's rules, each client's place in its request, the restart |
| `BackupManager` | backup.go, backups.go | records, rows, snapshots, files, each caller's place in its operation, the crash |

Most have an `MC…` module with the constants and the symmetry of its run;
`MCHostOperations` collects the 26 systems that `HostOperations` runs, each a provider (or
a part of it, such as its copies, its renaming or its volumes) with its operations, states
the laws of each and computes its outlines; `BhyveSupervisor` is run as it is. Names follow the
source; the comment above a definition says which part of the code it is.

A system of `HostOperations` says what is expected of its operations: what an operation
gives and takes, which ones change nothing when they fail (`additive`), which ones have to
be possible in every state (`certain`), what makes an instance known (`record`), and the
exceptions, as pairs of operation and resource (`known`), which section 4 explains. The
operations of one instance run one after the other. For what changes a bhyve machine, and
for create, start, stop, restart, delete, clone, rename, restore and reconfiguration of a
jail, the code sees to that with the instance's lock, which is the subject of
`InstanceLocks`. QEMU has only `createMu` and `hostPortMu`, Podman `mu` and `nameMu`, and a
jail's other operations (taking and deleting snapshots, export, import, interfaces,
volumes, services) take no lock of the instance, nor do bhyve's export and snapshots: that
two of these overlap is left out, and nothing here is said about it. `Merged` shortens a
procedure without changing what it does: queries in a row whose failure has the same
consequence are one.

A query may fail and be read as an answer. bhyve's GetInstanceState takes a `ps` or
`pgrep` that fails, and a recorded PID that is no longer the machine's (`stale`), for a
machine that is not there; `Ask` and `Overlook` of `Procedures` go on with that answer and
note the guest among what the operation failed to remove or to see (`residue`).

What the models abstract. Names, manifests and payloads are members of small sets. Commands
on the host succeed or fail without a reason. Progress messages, sizes, logging and error
texts are left out. A conversion that properties depend on (findPreviousSnapshot, the
retention rules, the dependency order) is modelled by what it computes. In `StackManager`
one name stands for every stack, since operations share nothing across names but the maps;
in `BackupManager` one instance does, destinations are local directories and a full stream
is not received over its own dataset, which zfs refuses while the dataset has snapshots.
A backup is numbered by its creation, and `sec` gives the second that its ID, snapshot, file
and row are named after: two creations may share one. A reload may fail to read the
instances or the records; a single record whose JSON cannot be read (backup.go:351), which
reload skips, is left out. Configure, RemoveConfig and the schedule loops of the backup
manager are not in the model yet: the configuration is chosen in `Init`.

In the procedures a resource is there or not; its contents matter only where a second
resource stands for them (`recorded`: the epair is named in the file). A query, a
validation or the writing of text is a step that fails or not. Two instances appear where
an operation has two (clone, rename, import), two rules where a second one matters. In
`InstanceCatalog` an instance is its provider's name and a generation, a row the name, the
generation and the state it claims; the handle's metadata is left out. A provider's call
succeeds, fails without a trace, or fails half way: an import whose start fails has made the
instance, a restart has stopped it, a delete has removed it, a rename has moved it, an update
has applied it (`MakesHalfway`, `SwitchesHalfway`, `DeletesHalfway`, `RenamesHalfway`,
`AppliesHalfway`). SyncInstanceStates may skip any of the rows, and writes unknown for an
instance whose provider does not answer.

Ghost variables record what a property needs and no code has: in `JobService` whether this
daemon's FailInterruptedJobs succeeded (`swept`); in `StackManager` the last status applied
(`applied`), whether a status write failed (`unsaved`) and the instances a crash caught
before their row (`strays`); in `BackupManager` the rows a statement failed on (`dirty`), the
data a crash left without a row (`strays`), the partial files that os.Remove did not remove
(`partials`) and the records the last start could not read (`unread`); in `HostOperations`
what an operation failed to remove or to see (`residue`) or to make (`missing`); in
`InstanceCatalog` the excuses: an instance, a row or a rule that a call left half done, an
undo or a write failed on, an exit of the guest changed, a synchronisation skipped or a
crash caught before its row, kept until the next successful call or synchronisation sets
it right; in `BhyveSupervisor` whether a stop was the last thing asked for (`off`).

## 3. Runs

| Run | Bounds | Distinct states | Shows |
|---|---|---|---|
| `locks` | 2 callers, 2 names, 2 entries | 9,321 | MutualExclusion, RefsCountUsers, LockOrder, AcquisitionEnds, and the refinement of NameMutex |
| `jobs` | 2 jobs, 2 workers, 2 cancelers, queue of 1 | 273,380 | RunOnce, ActiveReachable, CancelReachesRun, CleanShutdownFinishesAll, SubmittedGetsDone, and the refinement of JobLifecycle, in which a canceled job never completes |
| `job_service` | 1 job, 1 worker, 2 cancelers, failing statements, 2 restarts whose sweep may fail | 419,215 | EndPersisted, NoZombieRows, CompletedRowsAreTrue |
| `stack_serial` | 1 caller, 2 instances (one checked), 2 deployments, 1 crash, failing statements | 1,911,463 | NoOrphans, RestartFindsAll, RegistriesFollowStack, DeployingIsDriven, ReportsTrue |
| `stack_concurrent` | 2 callers stop, start and destroy a restored stack of 2 | 273,463 | StatusPersistedInOrder, RecordOutlivesInstances, CallsReturn |
| `stack_destroy_during_deploy` (violation) | 2 callers deploy and destroy a stack of 1, without failures | | NoOrphans fails: finding 1 |
| `dependency_order` | 3 names, up to 3 instances, up to 2 dependencies each | 184,111 | OrderIsTopological, RefusedForItsFault |
| `health` | 1 instance, Retries 2, queue of 2, 2 loops | 104,455 | NoLoopLeaks, QueueIsDrained, ListenersCatchUp, ChangesArrive |
| `backups` | 3 backups of which 2 may share a second, 1 policy, failing commands, clean-ups and statements, 1 crash with a reload that may fail, one operation at a time | 3,484,075 | ChainsRestorable, DataIsOwned, RestartChangesNothing, RetentionSparesNewest |
| `providers` | 26 systems, one failure per operation, any number of operations, exits, crashes and reboots | 1,665,664 | FailureChangesNothing, SuccessIsTrue, NeverStuck, GuestIsKnown, and OutlineHolds: the condition of the theorems holds of each system |
| `catalog` | 2 names, 2 generations, 11 kinds of request one at a time, 2 failures per request, calls that fail half way, crashes, a synchronisation that skips rows or gets no answer | 1,223,964 | NoOrphans, RecordIsTrue, NoInheritedRules |
| `bhyve_reboot_during_stop` (violation) | 3 launches, 1 reboot a minute | | StoppedStaysStopped fails: finding 2 |

Why the bounds are enough for the cases that matter. Two callers and two names let both
take names in opposite orders, wait on an entry that is being deleted and created again,
and nest. Two jobs against a queue of one fill it, two workers let a job end while another
starts, two cancelers race each other and the end of a job. A restart follows any prefix of
any operation, and a second one follows a sweep that failed. Two instances give a rollback
something behind it and something before it; two deployments reuse a name whose mutex and
rows may still be there. Three names make a cycle, a diamond and a repeated name. A queue
of two changes overflows with two loops. Three backups are a full one, an incremental on it
and an incremental on that, or a good one, a failed one and the one that prunes them; the
policy keeps the newest and the newest of two intervals, and with intervals of two seconds
either rule keeps what the other would prune. The run's view leaves out what nothing reads
again: a record that is neither listed nor worked on and, after the last crash, a row that
a failed statement left behind. The number of operations on a host is not bounded, since
its resources are finite; one failure in each operation, with the crash and the exit of the
guest beside it, reaches every error path, and what one operation leaves behind is what the
next one starts from. Two failures in a request are the call or statement that fails and
the undo that fails as well. Two generations let a name be used again while something of
the first is left.

Each action of the runs that pass is taken. `HostOperations` takes every kind of step, and
each of the 184 operations of the 26 systems succeeds in some behaviour. The steps of a
procedure that a system does not reach are guards its start states satisfy, branches its
options exclude (the main system of the provider has them), and copies: a procedure that
is called before and after a condition is in the sequence twice.

The type invariants describe the variables and hold in these runs too, but are not listed
as results.

Deadlock is checked in `locks`, `health`, `providers` and `catalog`, whose actors never
finish for good, and off in the others: jobs, deployments, manifests, backups and launches
are bounded.

### Fairness

`InstanceLocks`: weak fairness on every caller's steps, since goroutines run; strong
fairness on leaving the body, an operation that may alternate with nested calls but ends;
strong fairness on sending to the lock's channel, since a Go channel serves its blocked
senders in FIFO order. Nothing is assumed of contexts: they may never end.
`JobManager`: weak fairness on each worker and canceler, and the functions of jobs return.
`StackManager`: weak fairness on callers; strong fairness on taking the status mutex, since
`sync.Mutex` hands itself to a waiter that starves. `HealthChecker`: weak fairness on loops
and the drainer; strong fairness on leaving a loop, since `select` chooses among ready
cases at random. Requests, crashes, ticks and failures have no fairness.

## 4. Findings

Two disagreements between the code and what it says of itself, each shown by a run.

1. `stack_destroy_during_deploy`. DestroyStack works on a copy of the list (stack.go:592)
   and is not refused during a deployment: an instance created after the copy outlives the
   record, against stack.go:651.
2. `bhyve_reboot_during_stop`. When a guest reboots, the goroutine that supervises it looks
   at the record to learn whether it should relaunch it: "A stop, a delete or a restart
   already moved the record off "running"." (bhyve_lifecycle.go:1143). StopInstance writes
   the record as its last step (1350), and the goroutine does not hold the instance's lock.
   A guest that reboots while it is being stopped, or whose exit the goroutine sees late,
   is launched again, and StopInstance has said that it is stopped.

### Observations without a run

Met while modelling, and reproduced with TLC on variants of the configurations above or
read off the code; the passing properties are stated so as to hold beside them.

- bhyve_storage.go:534: ImportInstance throws away the context that records the lock it
  holds and, with StartAfterImport, calls StartInstance, which waits for that lock until
  the request ends. locks.go:42 promises that a method built out of locked methods holds
  the instance "instead of deadlocking on itself". AcquisitionEnds fails as soon as a
  caller is in `Importers`; in `locks` none is.
- job_handlers.go:333: submitJob inserts the row after Submit, from a snapshot. A job that
  ends in between leaves a row that says pending or running, where server.go:446 says
  terminal states survive. EndPersisted speaks of the jobs whose row came first (`early`).
- job.go:488: a canceled job whose function panics is written by the canceler and by the
  worker, each from its own snapshot; the older one may be written last.
- stack.go:920: a DeleteInstance that fails during the rollback is forgotten like one that
  succeeds, and the instance is no longer in the record (`stack_serial` has
  DeleteOutcomes = {TRUE} for this reason).
- stack.go:250: CreateStack inserts "deploying" after the name was claimed in memory and
  outside updateStackStatus. A stop in between writes its status in memory and finds no
  row, so the row keeps the older of the two; StatusPersistedInOrder is stated for stacks
  on record.
- stack.go:573: StartStack returns from its pause when the context ends without setting a
  status; instances run under a stack that says stopped.
- stack.go:579: starting a stack whose deployment was rolled back marks it running with no
  instance. After a restart StartStack resumes no health check (568), and LoadStacks keeps
  "deploying" as it finds it (168).
- health.go:604: with several instances, a full queue may drop the only change of one.
- health.go:332: a result recorded after UnregisterInstance stays. health.go:300: failure
  counts survive StopChecking, so a new loop may need fewer than Retries failures.
- backup.go:535: with two callers ChainsRestorable fails: a base is deleted while an
  incremental is sent against it, because the incremental is not listed yet; or an
  incremental is claimed for deletion, its base deleted, and the incremental put back.
- backup.go:1028: with two callers RestartChangesNothing fails: a record deleted between
  its append and its INSERT comes back as a row.
- backup.go:1062: with two callers RetentionSparesNewest fails: a newer failed record
  counts for KeepLast and the older good one is pruned by its own run. Failed records
  count in any case.
- backup.go:413: two creations within a second share ID, snapshot, file name and row: while
  the first one's snapshot is there the second fails, and its failed record overwrites the
  row of the first.
  The properties are about seconds that no two creations share, and the theorems assume it.
- backup.go:1568: the error of os.Remove is ignored; the partial file that stays has a failed
  record without a Location, so no deletion removes it.
- server.go:502: when reload cannot read the instances or the records, the manager serves
  with an empty list beside a full table; retention, the choice of a base and the check for
  incrementals before a deletion then see none of the earlier backups.
- server.go:666: when FailInterruptedJobs fails, rows of an earlier daemon stay pending or
  running until a start at which it succeeds.
- backup.go:618: an in-place rollback destroys the snapshots of later backups, whose
  records stay completed. An empty target_instance_id, which the handler's comment calls
  restore in place, reaches datasetFor as an empty name.
- backup.go:206: when persisting a configuration fails, the old schedule is already
  stopped and the new one not started.

bhyve's goroutine, besides finding 2 (bhyve_lifecycle.go):

- its `bhyvectl --destroy` goes by name and may take ten seconds: it can come after a later
  start and destroy that machine, and its markStoppedAfterExit can mark it stopped;
- the saves of StopInstance and GetInstanceState do not hold `stateMu`;
- with a record that says running and a stale PID, or when `ps` or `pgrep` fails,
  GetInstanceState reports stopped, and a stop returns nil while the machine runs (1281).
  Both are in `BhyveProvider`: SuccessIsTrue excuses the guest that was hidden so. A start
  in that state finds the device busy, fails, and its goroutine destroys the running machine
  by name; a restore of a checkpoint records the PID of a process that is gone. With two
  failures in one delete, the query and the destroy of the vmm object, the directory goes
  while the machine runs;
- a state that cannot be saved after the launch leaves a machine without a goroutine.

The instance API (the run of `InstanceCatalog` has one client, the theorems any number
whose requests are about different names):

- nothing is held across a provider call and the row written after it, so overlapping
  requests on one name disagree: a retried delete against a re-creation, a discard by name,
  a rename against an import;
- a provider's call that fails half way is answered with an error and nothing is recorded
  or undone: an import whose start fails leaves an instance without a row
  (export_import_handler.go:203), a restart whose start fails one that is stopped under a
  row that says running. SyncInstanceStates returns when the rows cannot be listed, skips
  those whose provider is missing or that cannot be written, and writes unknown when the
  provider does not answer (server.go:830-896);
- import keeps the instance when GetInstanceInfo fails; rename leaves the firewall's rules
  under the old name; expose with an explicit target_ip does not look the instance up;
- a crash between call and row leaves an instance without a row, or a row without one,
  which the properties excuse; SyncInstanceStates repairs neither;
- PATCH reads, changes and writes the whole specification, and its second statement
  (UpdateInstanceHandle) may fail after the first was recorded;
- instance_handlers.go:395, 421: the branch for a "ghost instance" expects a provider that
  answers for an instance it does not have. Providers return an error for it, so creation
  answers 503 until the row is deleted; the branch is taken only for a Podman container in
  a status the provider does not recognise.

### Known exceptions of the providers

`HostOperations` states what a careful operation does. Where the code does otherwise, the
system lists the pair of operation and resource under `known`, and the property holds for
all the rest. These are the exceptions, read off TLC's counterexamples.

Jail (`JailProvider`, `JailStorage`, `JailNetwork`, `JailServices`):

- create leaves the dataset when the mountpoint cannot be looked up, the fstab, and the
  JSON file of an instance whose creation failed later;
- a failed start leaves the fstab and mounts, and removes the persisted port mappings and
  rules it should only have taken out of force; an epair it made may stay unrecorded, and
  delete does not find that one;
- delete removes no rctl rules, and not the mounts an earlier failure left;
- a failed full clone destroys a target dataset that was there before; a rename that fails
  may leave the dataset under the new name;
- export stops the jail and does not start it again, and leaves a partial archive; import
  with StartAfterImport keeps dataset and file when the start fails;
- volumes: a failed clone leaves the new volume, a failed delete or mount the fstab line
  and the mount; a failed attach leaves the mount;
- DisableVNET reports success when the interfaces cannot be listed, and its file forgets
  epairs that could not be destroyed; an interface with a name of its own is moved out and
  its epair stays; SetDefaultRoute deletes the old route before the new one is accepted;
  ConfigureMultiNIC keeps the first interface when the second fails;
- EnableAndStartService leaves the service enabled when it does not start; the rctl limits
  of a jail that was started for an installation stay when that fails.

bhyve (`BhyveProvider`, `BhyveStorage`):

- create and start leave the state file, zvols, taps, VLAN interfaces and NAT rules of
  what failed; delete removes only the taps, VLAN interfaces and rules of the record;
- a start that is canceled after the launch leaves the machine running, and its swtpm, and
  says that it failed; a start that fails has corrected a record that still said running or
  paused;
- stop leaves swtpm, and the vmm object of a guest that exited by itself; a crash between
  the configuration and the state leaves an instance that stop refuses;
- when the state cannot be saved after a checkpoint, the machine is gone and the files are
  there though the operation failed; after a restore, the vmm object stays; export does not
  restart what it stopped; attach leaves the new disk;
- clone copies the second disk into the directory that CreateInstance then removes, where
  the comment at bhyve_clone.go:182-187 says it is adopted; a failed clone leaves its
  snapshot and tap, and deleting the clone does not find that tap;
- rename and import have no undo: a failure or a crash in between leaves names, zvols and
  files half moved, and start may refuse until they are moved by hand. DetachDisk and
  DetachISO do not adjust the boot order, as EjectMedia does.

QEMU (`QemuProvider`): create leaves the disk and the autostart flag; a process whose PID
file did not come in time is not found by stop or delete; stop leaves "paused" recorded; a
failed clone leaves its disk; a rename in which a step fails leaves files under both names,
and start refuses afterwards. RenameInstance and CloneInstance do not take `createMu`.

Podman (`PodmanProvider`): create leaves the container or its settings; autostart writes
the policy before its file, delete leaves the file and the image of a clone, rename does
not move the file; a restore that fails has stopped the container, and when only the
last inspection fails the new one, with the image and the labels of the old and none of its
settings, is in place; a crash between its rename and its create leaves
NAME.restore-bak; export does not start again what it stopped; import keeps image and
container when a later step fails.

Firewall (`FirewallManager` and its backends):

- PF text that cannot be loaded stays in the file and is later taken for a rule in force:
  a retry returns nil without loading it, against pf.go:366-373 ("so the two never
  disagree"), and any other reload puts it in force;
- a repeated expose that cannot be recorded takes down the rule, text and proxy that the
  first one made;
- removing NAT rules that were never recorded succeeds and leaves them;
- the Linux backends add a rule again when asked twice and remove one of them; an
  `iptables -D` of a rule that is not in the kernel fails for ever, and so do unexpose and
  RemoveNAT;
- the API server, the jail provider (network_manager.go:81) and the bhyve provider
  (bhyve_network.go:47) each have a manager, with its own mutex and proxies, over the same
  files; the model has one.

## 5. Proofs

Every theorem holds for every value of the constants under the named assumptions, which
TLC evaluates in every run of the module: `InstanceLocks` has a finite set of callers,
names that are naturals (the order AcquireAll sorts by) and fresh null values; `JobManager`
has a worker, a queue of positive size and a fresh null; `JobService` statements that
succeed or fail; `HealthChecker` an instance, a positive number of retries and a positive
queue; `BackupManager` policies of naturals and intervals of positive length;
`DependencyOrder` names that are numbers; `InstanceCatalog` a fresh null; `StackManager` an
order that lists each instance of the manifest once; `HostOperations` a bound on faults that
is a natural. Some theorems speak of behaviours in
which calls do not overlap, or not on the same name. Nothing in the code prevents the
overlap; section 4 says what it leads to, and each such hypothesis is named below.

Each inductive invariant stands in the component's module and was checked with TLC before
it was proved, but for that of `HostOperationsProofs`, which stands with its proof.

`InstanceLocksProofs`. MutualExclusion is not inductive: nothing in it says that a waiting
caller's pointer is the entry the map has, without which two entries of one name could each
have a token. LockInv adds, to TypeOK, what each place in the code implies for the call's
variables (CallsMatchPC), that pointers are current (PointersAreCurrent), that a token
means a holder (TokenMeansHeld) and that the count is the number of users
(RefsCountUsers), which is what keeps an entry from being deleted under a user. There is
one lemma per kind of change to an entry: a caller joins it, creates it, sends, receives,
drops it. LocksOrdered needs OrderInv besides: the names a caller holds are those its
context records, and all are smaller than the ones left. It speaks of callers that are not
importers, whose lost context section 4 describes. LocksImplementMutex maps each name's owner to
the caller that holds its entry, and shows that every step gives, takes or keeps it.

`JobServiceProofs`, first part: `JobManager`. JobInv adds to RunOnce and ActiveReachable
that actors have jobs, that a job's status fits the place where it is (queued, with a
worker, ended), that an active job is somewhere, that the queue and the workers follow the
stages of Shutdown, and that a cancellation is either delivered or on its way.
JobsCleanShutdown and JobsShutdownPatient follow from ShutdownInv, JobsCancelReachesRun
from CancelOnItsWay; the refinement of JobLifecycle, and JobsCanceledNeverComplete by
itself, from the lemma StatusStep, which lists the changes of status a step can make.

Second part: `JobService`. The composition adds a writer to every step of the manager, so JobInv
is proved again over its steps, by way of the manager's own lemmas
(ServiceManagerKeepsPromises). ServiceInv adds that a job is submitted once, what each
canceler and each hook's snapshot may hold (CancelersFit, SnapshotsFit) and EndOnItsWay:
the end of a job whose row came first is in the row, in the snapshot of a hook that has not
written yet, or was lost to a failing statement. NoZombieRows, CompletedRowsAreTrue and
EndPersisted follow for any number of jobs, workers, cancelers and restarts, any of whose
sweeps may fail; after one that did, NoZombieRows says nothing of the rows of earlier
daemons.

`HealthCheckerProofs`. HealthInv adds to NoLoopLeaks and QueueIsDrained that loops are
numbered in the order they were started, so that a new loop's channel is fresh, that every
channel in the map belongs to a loop of that instance, and that a delivering drainer has a
change in hand. EnqueueFacts bounds the queue whatever the limit is. HealthListenersCatchUp
rests on NewsIsTrue: the newest change of an instance that is queued, in the drainer's hand
or delivered is the result the checker has. It speaks of behaviours with NothingDropped,
where the queue is not full or there is one instance: the last change of one of several
may be the one a full queue drops (section 4).

`BackupManagerProofs`. BackupTypeCorrect holds for any callers at once and any seconds,
BackupDataOwned for any callers at once as long as creations fall into different seconds
(DistinctSeconds, which the code does not see to: section 4). OwnershipInv says that whoever
creates or deletes a backup is alone with it and that it is not listed meanwhile (OpsFit),
what a record implies of its data (RecordsFit, FilesFit), and so that a snapshot or a file is
in the list, in somebody's hands, a stray of a crash, a partial file that could not be
removed, or of a record that the last start did not read (OwnedByWhom). ChainsRestorable,
RestartChangesNothing and RetentionSparesNewest are proved for DistinctSeconds and
OneAtATime: of two calls that overlap, one deletes the base the other is about to chain onto.
SerialInv adds where bases come from (BasesFit), that the row of a
record nobody works on says what the record says unless a statement failed on it
(RowsInv), and that what a retention run has yet to delete has enough newer backups that it
does not delete (RetentionInv).

`DependencyOrderProofs`. KahnInv says of the loop that a name's count is the number of its
entries not yet taken, that what has no such entry is in the queue or taken, once, and that
everything taken came after its dependencies. The order is topological because an empty
queue leaves nothing (DependencyOrderTopological), and a refusal is right because the names
left with a positive count form a cycle (DependencyOrderRefusals). What the library proves
by induction with an operator as parameter is proved here from a least counterexample, as
WFMin gives it: counting a sequence's entries, and the recursive functions by which degrees
are made and lowered.

`InstanceCatalogProofs`. CatalogNoOrphans, CatalogRecordsTrue and CatalogNoInheritedRules
hold for any number of clients and names while requests keep Apart: no two under way are
about one name. CatalogInv says that a name nobody is in the middle of is Settled
(provider, row and rules agree, or an excuse not yet set right accounts for it) and, for
each place of a request, what holds at its names (WhileMaking, WhileMoving, WhileRemoving,
WhileChanging, WhileSwitching, Elsewhere). There is one lemma per step of a handler, and
one that a step leaves the requests about other names alone.

`StackManagerProofs` has three invariants, one for each degree of overlap.

- StackInv, whatever overlaps: what each operation has in hand at each place (Fits), the
  numbering of objects, and Driven, which is DeployingIsDriven without the moment between
  writing the status and storing it. It gives StackTypeCorrect and StackDeployingIsDriven.
- RecordInv, for any number of stops, starts and destroys at once (`"deploy" \notin
  Kinds`): while the stack is on record, whoever is at the status mutex has the entry that
  later callers find (OneStatusMutex), one caller at a time is between memory and row
  (OneWriter), and a destroy without a failure so far has deleted what it has passed
  (DestroysSee), which starts cannot undo since they refuse what is gone. It gives
  StackStatusPersistedInOrder and StackRecordOutlivesInstances. Deployments are excluded:
  a destroy during one loses an instance (finding 1), and CreateStack inserts a status
  outside the mutex.
- SerialInv, for OneAtATime and deletions that succeed (`FALSE \notin DeleteOutcomes`): an
  instance is absent, a stray, listed and recorded, or the one a deployment is at
  (Accounted); the map has the stack on record (RowsMatch); what a deployment, its rollback
  or a loop has done so far (DeployFits, LoopFits); and what the registries know (Watched).
  It gives StackNoOrphans, StackRestartFindsAll, StackRegistriesFollowStack and
  StackReportsTrue. The lemmas AloneUse and AloneGive reduce SerialInv to a statement about
  the one operation under way. A deletion that fails in a rollback does lose the instance
  (section 4).

`HostOperationsProofs`. The properties of `HostOperations` are not true of every procedure,
so a theorem about them needs to say of which. `ProcedureOutlines` does, in the manner of a
proof outline: every step of a procedure has a set of facts, one of which holds when the
procedure has come to it. A fact gives, for each resource by itself, what may be true of it
(it was there when the operation began, is there now, could not be removed, could not be
made), with the number of faults so far and whether the operation has to be possible.
What connects two resources is in the laws of the system (a jail that runs has its file
and its dataset), which hold at every moment, and in the laws at rest, which hold between
operations (a proxy has its rule). Where that is not enough the operation is followed with
and without a resource (`cases`).

`Outlined(s)` is a condition on the text of the procedures of `s` and mentions no state of
the host: along every success, refusal, failure, logged error, failing clean-up and exit of
the guest a fact of the step leads to a fact of the next one, the step keeps the laws, and
the facts at the ends give what the operation promises. LawsStand asks that exits, crashes
and reboots keep the laws. The theorems say, for any systems, procedures, laws, outlines and
bound on faults, that while `Outlined(sys)` the operations keep their promises:
FailuresChangeNothing, SuccessesAreTrue, OperationsNeverStuck, GuestsAreKnown, with
LawsAlwaysHold and OperationsTyped. That every system of the providers satisfies the
condition is the property OutlineHolds of the run `providers`, which TLC evaluates on the
outlines that `MCHostOperations` computes by following each procedure once from its start;
how they were computed does not matter, since `Outlined` judges the result.

The inductive invariant Inv says that the laws hold, that an operation under way is at a
step of its procedure where one of the step's facts holds (OnOutline), that the laws at
rest hold otherwise, and that the operation that ended last has kept its promises. There is
one lemma per way a fact can change (SeenThereHolds, SeenGoneHolds, BrokenHolds, ...), one
per action, and GoesOn, which carries a fact over the conditions that `NextStep` evaluates
on the way; those are a recursive function, and the lemma is proved from a least
counterexample. The condition is sufficient and not necessary: with `MaxFaults = 2` it
holds for 20 of the 26 systems. Of the others, `jailNics`, the three firewalls and `bhyve`
do break a promise when two commands of one operation fail, and `bhyveTransfer` does not, as
TLC shows.

JobsShutdownPatient, JobsCanceledNeverComplete, ServiceManagerKeepsPromises,
LawsAlwaysHold and the type invariants are theorems though no run lists what they state.

Only model-checked: liveness (AcquisitionEnds, SubmittedGetsDone, CallsReturn,
ChangesArrive) and the fairness part of NameMutex, which TLAPS does not reach;
OutlineHolds, which is a computation on 184 procedures; StoppedStaysStopped of
BhyveSupervisor, which does not hold.

## 6. Not modelled

- vfkit and Apple containers, which follow QEMU and Podman; the handlers for snapshots,
  volumes, media, consoles and networks, each of which forwards one call to a provider;
- console sessions, authentication and middleware, the audit log, the storage manager, the
  image catalog, the migration runner, the daemon's startup, the service registry's
  resolution, and the automatic restarter, which the daemon does not wire in;
- inside the providers: metrics, traffic counters, the arguments of commands, console I/O,
  parsing of what commands print, and operations on two instances at once other than
  clone, rename and import;
- of the backup manager, configurations and schedules; of the API, the handle's metadata;
- manifest parsing and conversion, the client's formatting, the doctor, validation,
  cloud-init and configuration files: text work without state.

## 7. Plan

Done: locks, jobs, stacks, health checks and backups; the FreeBSD providers, QEMU, Podman
and the firewall as procedures; bhyve's supervisor; the instance API with its table; proofs
of every safety property of the runs, those of `HostOperations` for every system whose
procedures satisfy the condition TLC evaluates.

Left, in this order:

1. `BackupSchedule`: Configure, RemoveConfig, Stop, reload and the schedule loops, with no
   leaked loop and a Stop that ends; composed with `BackupManager`. A configuration of
   `BackupManager` with two callers.
2. `ProviderLifecycle`, the abstract life of an instance, refined by each provider's main
   system and used in `StackManager` and `InstanceCatalog` in place of their own calls.
3. Console sessions; key creation and revocation against the cache; the rate limiter;
   volumes, image downloads, the migration runner, the data-directory lock and the order
   of startup and shutdown.
4. Pure algorithms (name resolution, address allocation, schedules, validation rules)
   checked against reference definitions in one run with `DependencyOrder`.
5. Theorems: ChainsRestorable for callers that overlap on different chains; NoOrphans of
   `StackManager` for destroys that overlap anything but a deployment; outlines of
   `bhyveTransfer` precise enough for two faults.
