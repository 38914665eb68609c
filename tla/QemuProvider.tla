---------------------------- MODULE QemuProvider ----------------------------
(***************************************************************************)
(* The QEMU provider (pkg/provider/qemu).                                  *)
(*                                                                         *)
(* Resources of a VM: its directory with the disks (disk), its JSON file   *)
(* (config), the pid file beside it (pid), the process (qemu); whether the *)
(* file says that the VM is paused (paused) and whether its processors are *)
(* halted (halted); entries of the file: the installation medium (iso), a  *)
(* forwarded port (fwd), the boot order (order); what the process has been *)
(* given: a medium (tray), a port (hostfwd), a disk (node, device), an     *)
(* interface (netdev, nic).  The resources of a copy end in _c.            *)
(***************************************************************************)
EXTENDS Procedures

Named == Try("valid name")
\* What ends with the process.
Process == {"qemu", "halted", "tray", "hostfwd", "node", "device", "netdev", "nic"}
\* What the file holds, and what the directory holds.
File == {"config", "paused", "iso", "fwd", "order"}
VMDir == {"disk", "auto", "snap"}

-----------------------------------------------------------------------------
(* The file and the process. *)

\* Written beside the file and renamed over it.
saveVMConfig(r) == Try("encode, write, sync") \o Ensure({"config"} \cup r)
loadVMConfig == Need("config") \o Try("read, decode")
vmExists == Try("stat") \o Refuse("config")
isPathAllowed == Try("inside the data or image directory")
checkSocketPathLimit == Try("the socket path fits")
pidBelongsToVM == Try("ps: qemu with this -name")
\* Only the pid file tells: one that is stale, or not this VM's, is removed.
isVMRunning(running, stopped) ==
  IfElse("pid", Try("read") \o Logged(pidBelongsToVM) \o
                IfElse("qemu", running, Logged(Drop({"pid"})) \o stopped), stopped)
GetInstanceState(running, paused, stopped) ==
  Named \o Need("config") \o isVMRunning(IfElse("paused", paused, running), stopped)
Stopped(p) == GetInstanceState(Fail, Fail, p)
qmpSocketFor == Logged(loadVMConfig)
queryGuestIPs == Logged(Try("connect, guest-network-get-interfaces"))
GetInstanceInfo == Named \o loadVMConfig \o GetInstanceState(qmpSocketFor \o queryGuestIPs, Nothing, Nothing)
ListInstances == Try("glob") \o Logged(GetInstanceState(Nothing, Nothing, Nothing))
InstanceAddresses == Named \o qmpSocketFor \o queryGuestIPs

negotiate == Try("greeting, qmp_capabilities")
Connect == Need("qemu") \o Try("dial") \o negotiate
\* A command whose answer does not come in time ends the connection.
Execute(p) == Need("qemu") \o p
qmpFor == Connect

-----------------------------------------------------------------------------
(* The host's ports.  A port is taken when another VM's file has it or when *)
(* something listens on it; the first free one of a hundred is recorded.    *)

portIsFree == Logged(Try("listen"))
findAvailablePort == portIsFree
allocatePort == Logged(Try("read the other files")) \o portIsFree
sshPortFor == allocatePort
refreshSSHForward == sshPortFor
refreshVNCDisplay == allocatePort
refreshUserForwards == Maybe(When("fwd", Nothing))
refreshHostPorts(changed) == refreshSSHForward \o refreshVNCDisplay \o refreshUserForwards \o Maybe(changed)
buildNetdevArgs == Maybe(findAvailablePort)
createUEFIVarsFile == Try("copy the template")
buildQEMUConfig == Maybe(Logged(createUEFIVarsFile)) \o sshPortFor \o allocatePort \o buildNetdevArgs

-----------------------------------------------------------------------------
(* The life of a VM. *)

validatePhysicalDisk == Try("a device under /dev")
resolveISOPath == Try("find") \o isPathAllowed
resolveCloudImagePath == Try("find") \o isPathAllowed
detectImageFormat == Try("qemu-img info")
createDiskImage == Maybe(Try("backing file") \o detectImageFormat) \o Ensure({"disk"})
generateCloudInitISO == Try("generator") \o Try("GenerateISO")
\* createMu is held; a directory that is there is used as it is.
CreateInstance ==
  Named \o Try("limits") \o vmExists \o Try("architecture, binary") \o
  checkSocketPathLimit \o Try("mkdir") \o
  OnError(VMDir,
    Maybe(Either(resolveISOPath, resolveCloudImagePath)) \o
    Either(validatePhysicalDisk, createDiskImage) \o Maybe(generateCloudInitISO) \o
    buildQEMUConfig \o saveVMConfig({}))

\* QEMU daemonizes itself; a process whose pid file does not come is left alone.
StartInstance ==
  Named \o isVMRunning(Fail, Nothing) \o loadVMConfig \o
  refreshHostPorts(saveVMConfig({})) \o Logged(Try("remove qemu.pid")) \o
  Refuse("qemu") \o Ensure({"qemu"}) \o When("fwd", Note({"hostfwd"})) \o
  Try("qemu.pid within 5 s") \o OnError(Process, Ensure({"pid"})) \o Need("qemu")

waitForProcessExit == Maybe(Forget(Process) \o Logged(Drop({"pid"})) \o Return)
\* A forced stop leaves the first part out; killing waits at most 10 s.
StopInstance ==
  Named \o isVMRunning(Nothing, Return) \o
  Maybe(qmpSocketFor \o Logged(Connect \o Try("system_powerdown") \o waitForProcessExit)) \o
  Try("not canceled") \o
  When("qemu", Drop(Process) \o Try("gone within 10 s")) \o Logged(Drop({"pid"}))
RestartInstance == Named \o Call(StopInstance) \o StartInstance
DeleteInstance ==
  Named \o isVMRunning(Call(StopInstance), Nothing) \o
  Drop(VMDir) \o Drop(File) \o Logged(Drop({"pid"}))

\* A failure to record the pause resumes the guest.
PauseInstance ==
  GetInstanceState(Nothing, Fail, Fail) \o qmpFor \o Execute(Ensure({"halted"})) \o
  OnError({"halted"}, loadVMConfig \o saveVMConfig({"paused"}))
ResumeInstance ==
  Named \o qmpFor \o Execute(Drop({"halted"})) \o loadVMConfig \o Try("write") \o Drop({"paused"})

SetAutoStart == Named \o Need("disk") \o Try("priority") \o Try("write, sync") \o Ensure({"auto"})
GetAutoStart == Named \o Try("read, decode")
ListAutoStartInstances == Try("read the directory") \o Logged(GetAutoStart)
StartAutoStartInstances ==
  Logged(ListAutoStartInstances) \o
  When("auto", GetAutoStart \o Try("delay") \o
               Logged(GetInstanceState(Return, Nothing, Nothing)) \o StartInstance)

-----------------------------------------------------------------------------
(* Devices of a running VM: nothing of this is written to the file. *)

qemuBlockDriver == Try("known type")
AttachDisk ==
  Named \o qmpSocketFor \o isPathAllowed \o Connect \o qemuBlockDriver \o
  Execute(Make({"node"})) \o OnError({"node"}, Execute(Make({"device"})))
DetachDisk ==
  Named \o qmpSocketFor \o Connect \o Execute(Need("device") \o Drop({"device"})) \o
  Execute(Drop({"node"}))
AttachNetwork ==
  Named \o Try("valid") \o qmpSocketFor \o Connect \o
  Execute(Make({"netdev"})) \o OnError({"netdev"}, Execute(Make({"nic"})))
DetachNetwork ==
  Named \o qmpSocketFor \o Connect \o Execute(Need("nic") \o Drop({"nic"})) \o Execute(Drop({"netdev"}))

(* Media: of the process when it runs, of the file when it does not. *)

updateConfigMedia(insert) ==
  loadVMConfig \o Try("write") \o (IF insert THEN Ensure({"iso"}) ELSE Drop({"iso"}))
qmpInsertMedia == Connect \o Execute(Ensure({"tray"}))
qmpEjectMedia == Connect \o Execute(Drop({"tray"}))
InsertMedia == Named \o Try("stat") \o isPathAllowed \o isVMRunning(qmpInsertMedia, updateConfigMedia(TRUE))
EjectMedia == Named \o isVMRunning(qmpEjectMedia, updateConfigMedia(FALSE))
qmpListMedia == Connect \o Execute(Try("query-block"))
getConfigMedia == loadVMConfig
ListMedia == Named \o isVMRunning(qmpListMedia, getConfigMedia)
updateConfigBootOrder == loadVMConfig \o Try("known devices") \o saveVMConfig({"order"})
qmpSetBootOrder == Try("known devices") \o Connect \o Execute(Try("boot_set")) \o updateConfigBootOrder
SetBootOrder == Named \o isVMRunning(qmpSetBootOrder, updateConfigBootOrder)
GetBootOrder == Named \o loadVMConfig

(* Forwarded ports: of the file, and of the process as well as it can. *)

AddPortForward ==
  Named \o Try("protocol, ports") \o loadVMConfig \o Refuse("fwd") \o saveVMConfig({"fwd"}) \o
  Logged(isVMRunning(qmpSocketFor \o Connect \o Execute(Ensure({"hostfwd"})), Nothing))
RemovePortForward ==
  Named \o Try("protocol") \o loadVMConfig \o Need("fwd") \o Try("write") \o Drop({"fwd"}) \o
  Logged(isVMRunning(qmpSocketFor \o Connect \o Execute(Drop({"hostfwd"})), Nothing))
ListPortForwards == Named \o loadVMConfig

(* Inside the guest. *)

ExecCommand ==
  Named \o isVMRunning(Nothing, Fail) \o Try("neither directory nor user") \o Connect \o
  Execute(Try("guest-exec")) \o Execute(Try("guest-exec-status until exited, timeout")) \o Try("decode")
ExecInteractive == Named \o isVMRunning(Nothing, Fail) \o Try("no command") \o Try("socat, timeout")
GetConsole == Named \o isVMRunning(Nothing, Fail) \o Try("dial serial.sock")

-----------------------------------------------------------------------------
(* Snapshots are inside the disk; copies. *)

snapshotTargetFor == Try("names") \o isPathAllowed \o Try("the disk is this VM's")
CreateSnapshot ==
  Named \o GetInstanceInfo \o Stopped(Nothing) \o Need("disk") \o Ensure({"snap"})
DeleteSnapshot == snapshotTargetFor \o Need("disk") \o Need("snap") \o Drop({"snap"})
RestoreSnapshot ==
  Named \o GetInstanceInfo \o Stopped(Nothing) \o snapshotTargetFor \o Need("disk") \o
  Need("snap") \o Drop({"written"})
ListSnapshots == Named \o GetInstanceInfo \o Need("disk") \o Try("qemu-img snapshot -l")

Copy == [config |-> "config_c", disk |-> "disk_c", pid |-> "pid_c", qemu |-> "qemu_c",
         auto |-> "auto_c", snap |-> "snap_c", paused |-> "paused_c", iso |-> "iso_c",
         fwd |-> "fwd_c", order |-> "order_c", halted |-> "halted_c", tray |-> "tray_c",
         hostfwd |-> "hostfwd_c", node |-> "node_c", device |-> "device_c",
         netdev |-> "netdev_c", nic |-> "nic_c"]
OfCopy(R) == {Copy[r] : r \in R}

cloneDisk == Maybe(detectImageFormat) \o Ensure({"disk_c"})
extraDisksToCopy == Try("inside the directory")
cloneExtraDisks == extraDisksToCopy \o Maybe(Try("mkdir") \o Maybe(detectImageFormat) \o Try("copy"))
copyFile == Try("open, copy")
rewriteMACsInArgs == Try("random address")
assignCloneHostPorts == refreshHostPorts(Nothing)
buildCloneConfig ==
  Try("copy the specification") \o Maybe(copyFile) \o Maybe(rewriteMACsInArgs) \o assignCloneHostPorts
CloneInstance ==
  Named \o Stopped(Nothing) \o For(Copy, vmExists) \o loadVMConfig \o Need("disk") \o Try("mkdir") \o
  OnError(OfCopy(VMDir),
    cloneDisk \o cloneExtraDisks \o buildCloneConfig \o For(Copy, saveVMConfig({})))
\* The disks the snapshot does not have are copied from a VM that is stopped.
CloneFromSnapshot ==
  Named \o For(Copy, vmExists) \o snapshotTargetFor \o loadVMConfig \o Need("disk") \o Try("mkdir") \o
  OnError(OfCopy(VMDir),
    Need("snap") \o Ensure({"disk_c"}) \o
    GetInstanceState(extraDisksToCopy, extraDisksToCopy, cloneExtraDisks) \o
    buildCloneConfig \o For(Copy, saveVMConfig({})))
DeleteCopy == For(Copy, DeleteInstance)

\* moved: the directory has the new name; config_c: the file of the new name.
RenameInstance ==
  Named \o Stopped(Nothing) \o For(Copy, vmExists) \o loadVMConfig \o
  Need("disk") \o Ensure({"moved"}) \o
  OnError({"moved"}, For(Copy, saveVMConfig({}))) \o Drop({"config"}) \o Logged(Drop({"pid"}))
\* The VM under the name its file has.
StartEither == IfElse("config_c", Need("moved"), Need("config") \o Refuse("moved"))

-----------------------------------------------------------------------------
Initialize == Ensure({"dirs"})
HealthCheck == Try("binary, qemu-img")
getProcessCPU == Try("read the pid file") \o pidBelongsToVM \o Try("ps")
getProcessMemory == Try("read the pid file") \o pidBelongsToVM \o Try("ps or /proc")
getQMPDiskStats == Connect \o Execute(Try("query-blockstats"))
getNetStats == loadVMConfig \o Try("statistics of the taps")
GetInstanceMetrics ==
  Named \o Logged(loadVMConfig) \o Logged(getProcessCPU) \o Logged(getProcessMemory) \o
  Logged(getQMPDiskStats) \o Logged(getNetStats)

LifeOps ==
  [create |-> CreateInstance, start |-> StartInstance, stop |-> StopInstance,
   restart |-> RestartInstance, delete |-> DeleteInstance, pause |-> PauseInstance,
   resume |-> ResumeInstance, auto |-> SetAutoStart, boot |-> StartAutoStartInstances]
Life ==
  [options |-> {{}}, starts |-> {{}}, guest |-> Process, memory |-> {},
   volatile |-> Process, shared |-> {"dirs", "pid", "halted"}, record |-> {"config"},
   gives |-> [create |-> {"config"}, start |-> {"qemu", "pid"}, restart |-> {"qemu", "pid"},
              pause |-> {"halted", "paused"}, auto |-> {"auto"}],
   takes |-> [stop |-> {"qemu", "pid", "paused"}, delete |-> VMDir \cup File \cup {"qemu", "pid"},
              resume |-> {"halted", "paused"}],
   additive |-> {"create", "start", "pause", "auto"},
   certain |-> [stop |-> {"config"}, delete |-> {}],
   known |-> {<<"create", "disk">>, <<"create", "auto">>, <<"start", "qemu">>,
              <<"stop", "qemu">>, <<"stop", "paused">>, <<"delete", "qemu">>}]

\* A VM that has been created, stopped and running.
VM ==
  [options |-> {{}}, starts |-> {{"config", "disk"}, {"config", "disk", "qemu", "pid"}},
   guest |-> Process, memory |-> {}, volatile |-> Process, shared |-> {"dirs", "pid", "halted"},
   record |-> {"config"}, gives |-> <<>>, takes |-> <<>>, additive |-> {}, certain |-> <<>>,
   known |-> {}]

DevicesOps ==
  [stop |-> StopInstance, attach |-> AttachDisk, detach |-> DetachDisk, nic |-> AttachNetwork,
   nonic |-> DetachNetwork, insert |-> InsertMedia, eject |-> EjectMedia, order |-> SetBootOrder]
Devices ==
  [VM EXCEPT
     !.gives = [attach |-> {"device"}, nic |-> {"nic"}, order |-> {"order"}],
     !.takes = [detach |-> {"device", "node"}, nonic |-> {"nic", "netdev"}],
     !.additive = {"attach", "nic", "insert", "order"}]

PortsOps ==
  [start |-> StartInstance, stop |-> StopInstance, forward |-> AddPortForward,
   unforward |-> RemovePortForward, initialize |-> Initialize,
   query |-> OneOf(<<ListPortForwards, ListMedia, GetBootOrder, ExecCommand, ExecInteractive,
                     GetConsole, ListInstances, InstanceAddresses, ListSnapshots,
                     GetInstanceMetrics, HealthCheck>>)]
Ports ==
  [VM EXCEPT
     !.gives = [forward |-> {"fwd"}, start |-> {"qemu"}, initialize |-> {"dirs"}],
     !.takes = [unforward |-> {"fwd"}, stop |-> {"qemu"}],
     !.additive = {"forward", "start"},
     !.certain = [stop |-> {"config"}],
     !.known = {<<"start", "qemu">>, <<"start", "hostfwd">>, <<"stop", "qemu">>}]

CopiesOps ==
  [clone |-> CloneInstance, cloneSnapshot |-> CloneFromSnapshot, delete |-> DeleteCopy,
   snapshot |-> CreateSnapshot, unsnapshot |-> DeleteSnapshot, restore |-> RestoreSnapshot]
Copies ==
  [VM EXCEPT
     !.starts = {{"config", "disk", "written"}, {"config", "disk", "qemu", "pid", "written"}},
     !.gives = [clone |-> {"config_c", "disk_c"}, cloneSnapshot |-> {"config_c", "disk_c"},
                snapshot |-> {"snap"}],
     !.takes = [delete |-> OfCopy(VMDir \cup File), unsnapshot |-> {"snap"}, restore |-> {"written"}],
     !.additive = {"clone", "cloneSnapshot", "snapshot", "restore"},
     !.certain = [delete |-> {}],
     !.known = {<<"clone", "disk_c">>, <<"cloneSnapshot", "disk_c">>}]

RenamingOps == [rename |-> RenameInstance, stop |-> StopInstance, start |-> StartEither]
Renaming ==
  [VM EXCEPT
     !.gives = [rename |-> {"moved", "config_c"}],
     !.takes = [rename |-> {"config"}],
     !.additive = {"rename"},
     !.certain = [start |-> {"disk"}],
     !.known = {<<"rename", "moved">>, <<"rename", "config_c">>, <<"start", "stuck">>}]
=============================================================================
