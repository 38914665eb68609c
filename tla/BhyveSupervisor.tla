--------------------------- MODULE BhyveSupervisor ---------------------------
(***************************************************************************)
(* The goroutine that waits for a bhyve process (superviseBhyve in         *)
(* pkg/provider/bhyve/bhyve_lifecycle.go) beside StartInstance and         *)
(* StopInstance.  bhyve exits with 0 when the guest reboots, and is        *)
(* launched again.  The operations hold the lock of the instance; the      *)
(* goroutine does not, and the mutex of the record (stateMu) is held by    *)
(* the goroutine and by the start's write, not by a stop or a query.       *)
(*                                                                         *)
(* Pausing, the TPM and the network are the subject of BhyveProvider.      *)
(***************************************************************************)
EXTENDS Naturals

CONSTANTS MaxLaunches,  \* how many processes are ever launched
          RebootBudget, \* how many reboots within a minute are honored
          None

VARIABLES proc,    \* pid -> "none", "alive", or exited and not waited for: "exit0", "exit1"
          vmm,     \* the process whose VM object the kernel keeps, or None
          record,  \* vm.state: [state, pid]
          sup,     \* the goroutine of each start, by its first pid: [pc, pid, code, reboots]
          op,      \* the operation that holds the lock: [kind, pc, read], or None
          last,    \* the last pid
          off      \* a stop has succeeded and nobody has asked for a start since

vars == <<proc, vmm, record, sup, op, last, off>>

Pids == 1 .. MaxLaunches
Kinds == {"start", "stop", "force"}
Alive == {p \in Pids : proc[p] = "alive"}
Stopped == [state |-> "stopped", pid |-> None]

Init ==
  /\ proc = [p \in Pids |-> "none"]
  /\ vmm = None
  /\ record = Stopped
  /\ sup = [p \in Pids |-> None]
  /\ op = None
  /\ last = 0
  /\ off = FALSE

-----------------------------------------------------------------------------
(* The host. *)

\* bhyve gets the VM object, or exits at once: "Device busy".
Launch ==
  /\ last < MaxLaunches
  /\ last' = last + 1
  /\ proc' = [proc EXCEPT ![last + 1] = IF vmm = None THEN "alive" ELSE "exit1"]
  /\ vmm' = IF vmm = None THEN last + 1 ELSE vmm

\* bhyvectl --destroy: the object goes, and with it the process that runs it.
DestroyVMMObject ==
  /\ vmm' = None
  /\ proc' = [p \in Pids |-> IF p = vmm /\ proc[p] = "alive" THEN "exit1" ELSE proc[p]]

\* The guest reboots or powers off; bhyve exits and leaves the object.
GuestExits(p, code) ==
  /\ p \in Alive
  /\ proc' = [proc EXCEPT ![p] = code]
  /\ UNCHANGED <<vmm, record, sup, op, last, off>>

-----------------------------------------------------------------------------
(* Operations, one at a time. *)

At(kinds, pc) == op # None /\ op.kind \in kinds /\ op.pc = pc
Go(pc) == op' = [op EXCEPT !.pc = pc]
Return == op' = None

Begin(kind) ==
  /\ op = None
  /\ op' = [kind |-> kind, pc |-> "load", read |-> record]
  /\ off' = (off /\ kind # "start")
  /\ UNCHANGED <<proc, vmm, record, sup, last>>

\* GetInstanceState: the record that was read is corrected by what runs.
Corrected ==
  CASE op.read.state = "running" /\ op.read.pid \notin Alive -> Stopped
    [] op.read.state = "stopped" /\ Alive # {} ->
         [state |-> "running", pid |-> CHOOSE p \in Alive : TRUE]
    [] OTHER -> op.read
GetInstanceState ==
  /\ At(Kinds, "load")
  /\ record' = IF Corrected = op.read THEN record ELSE Corrected
  /\ op' = [op EXCEPT !.pc = "check", !.read = Corrected]
  /\ UNCHANGED <<proc, vmm, sup, last, off>>

StartCheck ==
  /\ At({"start"}, "check")
  /\ IF op.read.state = "running" THEN Return ELSE Go("launch")
  /\ UNCHANGED <<proc, vmm, record, sup, last, off>>
StartLaunch ==
  /\ At({"start"}, "launch")
  /\ Launch
  /\ Go("save")
  /\ UNCHANGED <<record, sup, off>>
\* The record before the goroutine, "if the order were reversed ...".
StartSave ==
  /\ At({"start"}, "save")
  /\ record' = [state |-> "running", pid |-> last]
  /\ sup' = [sup EXCEPT ![last] = [pc |-> "wait", pid |-> last, code |-> None, reboots |-> 0]]
  /\ Return
  /\ UNCHANGED <<proc, vmm, last, off>>

\* The reloaded record: a VM that is down is stopped; the others are asked or killed.
StopCheck ==
  /\ At({"stop", "force"}, "check")
  /\ IF op.read.state = "stopped" THEN Return /\ off' = TRUE
     ELSE /\ op' = [op EXCEPT !.read = record,
                              !.pc = IF op.kind = "force" \/ record.pid \notin Alive
                                       THEN "kill" ELSE "wait"]
          /\ off' = off
  /\ UNCHANGED <<proc, vmm, record, sup, last>>
\* Until the process has been waited for, or the timeout.
StopWait ==
  /\ At({"stop"}, "wait")
  /\ IF proc[op.read.pid] = "none" THEN Go("release") ELSE Go("kill")
  /\ UNCHANGED <<proc, vmm, record, sup, last, off>>
StopKill ==
  /\ At({"stop", "force"}, "kill")
  /\ vmm' = None
  /\ proc' = [p \in Pids |-> IF p \in {vmm, op.read.pid} /\ proc[p] = "alive" THEN "exit1" ELSE proc[p]]
  /\ Go("release")
  /\ UNCHANGED <<record, sup, last, off>>
StopRelease ==
  /\ At({"stop", "force"}, "release")
  /\ DestroyVMMObject
  /\ Go("save")
  /\ UNCHANGED <<record, sup, last, off>>
StopSave ==
  /\ At({"stop", "force"}, "save")
  /\ record' = Stopped
  /\ Return
  /\ off' = TRUE
  /\ UNCHANGED <<proc, vmm, sup, last>>

-----------------------------------------------------------------------------
(* The goroutine s. *)

SupAt(s, pc) == sup[s] # None /\ sup[s].pc = pc
SupGo(s, pc) == sup' = [sup EXCEPT ![s].pc = pc]

SuperviseWait(s) ==
  /\ SupAt(s, "wait")
  /\ proc[sup[s].pid] \in {"exit0", "exit1"}
  /\ sup' = [sup EXCEPT ![s].pc = "destroy", ![s].code = proc[sup[s].pid]]
  /\ proc' = [proc EXCEPT ![sup[s].pid] = "none"]
  /\ UNCHANGED <<vmm, record, op, last, off>>
SuperviseDestroy(s) ==
  /\ SupAt(s, "destroy")
  /\ DestroyVMMObject
  /\ SupGo(s, "decide")
  /\ UNCHANGED <<record, op, last, off>>
\* A reboot, of a VM that is to run, within the budget.  Reboots of more than a minute ago
\* do not count.
ShouldRelaunchAfterExit(s) ==
  /\ SupAt(s, "decide")
  /\ IF sup[s].code = "exit0" /\ record.state = "running"
       THEN \E n \in 1 .. sup[s].reboots + 1 :
              sup' = [sup EXCEPT ![s].reboots = n, ![s].pc = IF n > RebootBudget THEN "mark" ELSE "launch"]
       ELSE SupGo(s, "mark")
  /\ UNCHANGED <<proc, vmm, record, op, last, off>>
SuperviseLaunch(s) ==
  /\ SupAt(s, "launch")
  /\ \/ Launch /\ sup' = [sup EXCEPT ![s].pc = "record", ![s].pid = last + 1]
     \/ SupGo(s, "mark") /\ UNCHANGED <<proc, vmm, last>>
  /\ UNCHANGED <<record, op, off>>
SuperviseRecord(s) ==
  /\ SupAt(s, "record")
  /\ record' = [state |-> "running", pid |-> sup[s].pid]
  /\ SupGo(s, "wait")
  /\ UNCHANGED <<proc, vmm, op, last, off>>
MarkStoppedAfterExit(s) ==
  /\ SupAt(s, "mark")
  /\ record' = IF record.state = "running" THEN Stopped ELSE record
  /\ sup' = [sup EXCEPT ![s] = None]
  /\ UNCHANGED <<proc, vmm, op, last, off>>

Next ==
  \/ \E kind \in Kinds : Begin(kind)
  \/ GetInstanceState
  \/ StartCheck \/ StartLaunch \/ StartSave
  \/ StopCheck \/ StopWait \/ StopKill \/ StopRelease \/ StopSave
  \/ \E p \in Pids, code \in {"exit0", "exit1"} : GuestExits(p, code)
  \/ \E s \in Pids :
       \/ SuperviseWait(s) \/ SuperviseDestroy(s) \/ ShouldRelaunchAfterExit(s)
       \/ SuperviseLaunch(s) \/ SuperviseRecord(s) \/ MarkStoppedAfterExit(s)

Spec == Init /\ [][Next]_vars

-----------------------------------------------------------------------------
\* After a stop that succeeded nothing is launched until somebody asks for a start:
\* "A stop, a delete or a restart already moved the record off running" is what
\* shouldRelaunchAfterExit relies on, and StopInstance moves the record last.
StoppedStaysStopped ==
  [][off /\ off' => Alive' \subseteq Alive]_vars
=============================================================================
