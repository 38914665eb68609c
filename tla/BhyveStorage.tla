---------------------------- MODULE BhyveStorage ----------------------------
(***************************************************************************)
(* The bhyve provider beyond the life of a VM: copies, snapshots, renaming,*)
(* archives, disks and media, passthrough, VNC, and what is run inside.    *)
(*                                                                         *)
(* Resources on top of those of BhyveProvider: a second disk, a file of    *)
(* the directory (disk2), and its entry in vm.conf (cd for an ISO, extra   *)
(* for a disk); snap, a snapshot; the VM made by an operation (its         *)
(* resources end in _c); archive; pass, the passthrough file; vnc.         *)
(***************************************************************************)
EXTENDS BhyveProvider

Copy == [r \in VMDir \cup {"zvol", "tap", "nat", "nat6", "vlanif", "swtpm", "bhyve", "vmm"} |->
           r \o "_c"]
OfCopy(R) == {Copy[r] : r \in R}
Stopped(p) == GetInstanceState(Fail, Nothing) \o p
\* GetInstanceInfo reports what vm.state says without looking at the processes.
GetInstanceInfo == Try("valid name") \o loadVMConfig \o loadVMState

-----------------------------------------------------------------------------
(* Copies and snapshots. *)

ensureOwnDataset == Try("below the parent of the VMs")
ensureOwnSnapshot == Try("valid snapshot name") \o ensureOwnDataset
snapshotFor == Try("named by the handle") \o ensureOwnSnapshot \o Try("the VM's own")
datasetFor == Try("named by the handle") \o ensureOwnDataset \o Try("the VM's own")
zvolSizeGB == Logged(Try("zfs get volsize"))
zfsSendReceive == Try("send") \o Try("receive")
streamSnapshot == zfsSendReceive
copyDiskFile == Try("path") \o Ensure({"disk2_c"})
copyUEFIVarsFromSource == Logged(Try("cp"))
\* A linked clone keeps its snapshot.
cloneDisks ==
  Ensure({"snap_c"}) \o
  OnError({"snap_c"}, Make({"zvol_c"})) \o
  OnError({"snap_c", "zvol_c"}, Maybe(zvolSizeGB \o streamSnapshot) \o When("file", copyDiskFile)) \o
  Maybe(Clean({"snap_c"}))
\* What the clone made: the directory too, if a file was copied into it.
undo == {"zvol_c", "snap_c", "disk2_c"}
\* CreateInstance takes the copied volume for its own, and removes a directory
\* without vm.conf, the copied file in it too: its disk is made anew, empty.
CloneInstance ==
  Enter \o GetInstanceInfo \o Refuse("said") \o Try("disks of a kind that can be copied") \o
  cloneDisks \o
  OnError(undo, For(Copy, CreateInstance)) \o copyUEFIVarsFromSource
CloneFromSnapshot ==
  Enter \o snapshotFor \o datasetFor \o Need("snap") \o Make({"zvol_c"}) \o
  OnError(zfsDestroyCleanup({"zvol_c"}),
    GetInstanceInfo \o Try("limits, one disk") \o For(Copy, CreateInstance))
DeleteCopy == For(Copy, DeleteInstance) \o Clean({"snap_c"})

CreateSnapshot == Try("valid names") \o GetInstanceInfo \o Try("a volume") \o Need("zvol") \o Make({"snap"})
DeleteSnapshot == snapshotFor \o Drop({"snap"})
\* Rolled back: the snapshot stays, what is newer goes.
RestoreSnapshot ==
  Enter \o GetInstanceInfo \o Refuse("said") \o snapshotFor \o Need("snap") \o Drop({"written"})
ListSnapshots == GetInstanceInfo \o Try("zfs list")
Write == When("bhyve", Ensure({"written"}))

-----------------------------------------------------------------------------
(* Renaming.  moved: the directory and the datasets have the new name; named: vm.conf
   and the volume paths in it have it. *)

\* Failure moves the directory back, with vm.conf as it was rewritten.
RenameInstance ==
  Enter \o Refuse("moved") \o Stopped(loadVMConfig) \o
  Ensure({"zmoved"}) \o OnError({"zmoved"}, Ensure({"moved"})) \o
  OnError({"zmoved", "moved"},
    saveVMConfig({"named"}) \o loadVMState \o saveVMState({}))
StartRenamed == Need("config") \o Try("valid") \o Need("zvol") \o
  IfElse("named", Need("zmoved"), Refuse("zmoved")) \o Ensure({"bhyve"})

-----------------------------------------------------------------------------
(* Archives. *)

\* tar of the directory; the volumes are not in it.
ExportInstance ==
  Try("valid name") \o Need("config") \o Maybe(Running(Call(StopInstance))) \o
  Try("inside the data directory") \o Ensure({"archive"})
validateExtractionPath == Try("nothing outside")
removeRefusedImport == OfCopy(VMDir)
\* Only a refused configuration and the new taps take the directory away again.
ImportInstance ==
  Need("archive") \o Ensure({"tmp"}) \o
  Finally({"tmp"},
    Try("tar -x") \o validateExtractionPath \o Enter \o Refuse("config_c") \o
    Make({"config_c", "state_c"}) \o For(Copy, loadVMConfig) \o
    OnError(removeRefusedImport, validateRuntimeConfig) \o
    Maybe(For(Copy, saveVMConfig({}))) \o
    Maybe(OnError(removeRefusedImport, For(Copy, createTapDevice) \o For(Copy, saveVMConfig({})))) \o
    Maybe(For(Copy, StartInstance)))

-----------------------------------------------------------------------------
(* Disks, media and devices are entries of vm.conf. *)

\* A file made for the disk stays when the entry cannot be written.
AttachDisk ==
  Enter \o Either(validatePhysicalDisk, Either(Try("inside the directory"),
                  Make({"disk2"}) \o createRawDisk({"disk2"}))) \o
  loadVMConfig \o saveVMConfig({"extra"})
DetachDisk == Enter \o loadVMConfig \o Need("extra") \o Drop({"extra"})
AttachISO == Enter \o confinedImage \o loadVMConfig \o saveVMConfig({"cd"})
DetachISO == Enter \o loadVMConfig \o Need("cd") \o Drop({"cd"})
InsertMedia ==
  Enter \o confinedImage \o loadVMConfig \o Running(Fail) \o Try("the device is there") \o
  saveVMConfig({"cd"})
EjectMedia == Enter \o loadVMConfig \o Running(Fail) \o Need("cd") \o Drop({"cd"})
ListMedia == Try("valid name") \o loadVMConfig
setBootOrderByIndex == loadVMConfig \o Try("every index is a disk") \o saveVMConfig({})
SetBootOrder == Enter \o loadVMConfig \o Try("the devices are there") \o setBootOrderByIndex
getBootOrderByIndex == loadVMConfig
GetBootOrder == Try("valid name") \o getBootOrderByIndex

validatePCIDevice == Try("pciconf -l") \o pciSlotToBhyve \o Try("listed")
AttachPassthroughDevice ==
  Enter \o validatePCIDevice \o Need("config") \o Try("read, decode") \o Ensure({"pass"})
DetachPassthroughDevice == Enter \o Need("pass") \o Try("read, decode") \o Drop({"pass"})
ListPassthroughDevices == Try("valid name") \o Need("pass")
ListAvailablePCIDevices == Try("pciconf -lv")

EnableVNC == Enter \o loadVMConfig \o validateVNCHost \o saveVMConfig({"vnc"})
DisableVNC == Enter \o loadVMConfig \o Drop({"vnc"})
GetVNCInfo == Try("valid name") \o loadVMConfig \o Need("vnc") \o Logged(Running(Nothing))

-----------------------------------------------------------------------------
(* Inside the guest, and around it. *)

SetCPUPriority == Try("-20..19") \o bhyvePIDsForVM \o Need("bhyve") \o Try("renice")
GetCPUPriority == Try("valid name") \o bhyvePIDsForVM \o Need("bhyve") \o Try("ps")
ipForMACInARP == Try("an entry of the address")
guestMACForTap == Try("-s virtio-net,tap,mac=")
guestMACForVM == Maybe(loadVMConfig) \o Maybe(guestMACForTap)
getVMIP == guestMACForVM \o ipForMACInARP
lookupIPsByVM == Logged(Try("leases")) \o Logged(guestMACForVM \o ipForMACInARP)
findSSHKey == Try("a key of the VM or of the host")
shellQuote == Try("no control characters")
buildRemoteCommand == shellQuote
\* Only the state of a running guest goes on.
InGuest(p) == GetInstanceState(Refuse("paused") \o p, Fail)
ExecCommand ==
  Try("valid") \o InGuest(getVMIP \o findSSHKey \o buildRemoteCommand \o Try("ssh, within the timeout"))
ExecInteractive == Try("valid") \o InGuest(getVMIP \o findSSHKey \o Maybe(buildRemoteCommand) \o Try("ssh"))
GetConsoleDevice == Need("config") \o InGuest(Try("nmdm device"))
GetConsole == GetConsoleDevice \o Try("open")
ExecConsole == GetConsoleDevice \o Try("cu")
validateHookPath == Try("inside a hooks directory")
executeHook == validateHookPath \o Try("run, within the timeout")
executeHooksFromDir == Maybe(executeHook)
ExecuteHooks == executeHooksFromDir \o executeHooksFromDir
CreateFromOSProfile == Try("profile and overrides") \o For(Copy, CreateInstance)
detectVirtualizationSupport == Try("cpu features") \o Ensure({"module"})
detectUEFI == Logged(Try("firmware"))
ensureNMDMModule == Logged(Try("kldload nmdm"))
ensureZFSDataset == Ensure({"parent"})
Initialize ==
  ensureZFSDataset \o Try("mkdir") \o detectVirtualizationSupport \o detectUEFI \o ensureNMDMModule
HealthCheck == Need("module") \o Try("bhyvectl, directories") \o ListInstances
CheckInstanceHealth == Try("valid name") \o Logged(loadVMState \o Try("ps")) \o Logged(loadVMConfig \o Try("dial VNC"))

-----------------------------------------------------------------------------
Kept == {"config", "state", "zvol", "tap"}
Up == Kept \cup {"bhyve", "vmm", "said"}
VM(ops) ==
  [options |-> {{}}, starts |-> {Kept, Up, Up \cup {"stale"}}, guest |-> {"bhyve"}, memory |-> {},
   volatile |-> {"bhyve", "vmm", "tap", "swtpm", "bridge", "module"}, shared |-> {"bridge", "tmp", "said", "stale"},
   record |-> {"config"}, gives |-> <<>>, takes |-> <<>>, additive |-> {}, certain |-> <<>>,
   known |-> {}]

CopiesOps ==
  [clone |-> CloneInstance, cloneSnapshot |-> CloneFromSnapshot,
   profile |-> CreateFromOSProfile, delete |-> DeleteCopy,
   snapshot |-> CreateSnapshot, unsnapshot |-> DeleteSnapshot]
Copies ==
  [VM("copies") EXCEPT !.options = {{"file"}},
     !.volatile = {"tap", "tap_c", "bhyve_c", "vmm_c", "bridge"},
     !.guest = {"bhyve_c"}, !.record = {"config_c"},
     !.gives = [clone |-> {"config_c", "state_c", "zvol_c", "disk2_c"},
                cloneSnapshot |-> {"config_c", "state_c", "zvol_c"}, snapshot |-> {"snap"}],
     !.takes = [delete |-> OfCopy(VMDir) \cup {"zvol_c", "tap_c"}, unsnapshot |-> {"snap"}],
     !.additive = {"clone", "cloneSnapshot", "snapshot"},
     !.certain = [delete |-> {}],
     !.known = {<<"clone", "disk2_c">>, <<"clone", "snap_c">>, <<"clone", "tap_c">>,
                <<"cloneSnapshot", "tap_c">>, <<"cloneSnapshot", "disk2_c">>, <<"delete", "tap_c">>}]

RenamingOps == [rename |-> RenameInstance, start |-> StartRenamed, stop |-> StopInstance]
Renaming ==
  [VM("renaming") EXCEPT
     !.gives = [rename |-> {"moved", "zmoved", "named"}],
     !.additive = {"rename"},
     !.certain = [start |-> {"config", "zvol"}],
     !.known = {<<"rename", "named">>, <<"rename", "zmoved">>, <<"start", "stuck">>}]

TransferOps ==
  [export |-> ExportInstance, import |-> ImportInstance, delete |-> DeleteCopy]
Transfer ==
  [VM("transfer") EXCEPT
     !.guest = {"bhyve", "bhyve_c"}, !.volatile = {"bhyve", "vmm", "bhyve_c", "vmm_c", "tap_c", "bridge"},
     !.gives = [export |-> {"archive"}, import |-> {"config_c", "state_c"}],
     !.additive = {"export", "import"},
     !.known = {<<"import", "state_c">>, <<"import", "config_c">>, <<"import", "tap_c">>, <<"import", "bhyve_c">>, <<"import", "vmm_c">>, <<"import", "said_c">>,
                <<"export", "bhyve">>, <<"export", "vmm">>}]

DisksOps ==
  [stop |-> StopInstance, attach |-> AttachDisk, detach |-> DetachDisk,
   iso |-> AttachISO, noiso |-> DetachISO, insert |-> InsertMedia, eject |-> EjectMedia,
   boot |-> SetBootOrder]
Disks ==
  [VM("disks") EXCEPT
     !.gives = [attach |-> {"extra"}, iso |-> {"cd"}, insert |-> {"cd"}],
     !.takes = [detach |-> {"extra"}, noiso |-> {"cd"}, eject |-> {"cd"}],
     !.additive = {"attach", "iso", "insert", "boot"},
     !.known = {<<"attach", "disk2">>}]

DevicesOps ==
  [stop |-> StopInstance, pass |-> AttachPassthroughDevice, unpass |-> DetachPassthroughDevice,
   vnc |-> EnableVNC, novnc |-> DisableVNC, initialize |-> Initialize,
   snapshot |-> CreateSnapshot, restore |-> RestoreSnapshot, write |-> Write,
   query |-> OneOf(<<ListMedia, GetBootOrder, ListPassthroughDevices, ListAvailablePCIDevices,
                     GetVNCInfo, SetCPUPriority, GetCPUPriority, lookupIPsByVM, ExecCommand,
                     ExecInteractive, GetConsole, ExecConsole, ExecuteHooks, HealthCheck,
                     CheckInstanceHealth, ListSnapshots>>)]
Devices ==
  [VM("devices") EXCEPT
     !.gives = [pass |-> {"pass"}, vnc |-> {"vnc"}, initialize |-> {"module"}, snapshot |-> {"snap"}],
     !.takes = [unpass |-> {"pass"}, novnc |-> {"vnc"}, restore |-> {"written"}],
     !.shared = {"bridge", "module", "parent", "said", "stale"},
     !.additive = {"pass", "vnc", "restore"}]
=============================================================================
