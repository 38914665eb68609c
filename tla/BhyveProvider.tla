---------------------------- MODULE BhyveProvider ---------------------------
(***************************************************************************)
(* The bhyve provider (pkg/provider/bhyve): the life of a virtual machine. *)
(* Module BhyveStorage has the rest, module BhyveSupervisor the goroutine  *)
(* that waits for the guest.                                               *)
(*                                                                         *)
(* Resources of a VM: vm.conf (config) and vm.state (state) of its         *)
(* directory; what vm.state says, running or paused (said) and paused      *)
(* (paused), with the PID of another process than the one that runs        *)
(* (stale); its volume (zvol), its tap and the VLAN interface of it, its   *)
(* rules in pf (nat, nat6), the TPM emulator (swtpm), the kernel's VM      *)
(* (vmm), the process (bhyve); a checkpoint (ckpt) and the autostart file  *)
(* (auto).                                                                 *)
(* Every VM has one network interface.  Options: nat, ipv6, vlan, tpm.     *)
(***************************************************************************)
EXTENDS Procedures

Enter == Try("valid name, lock")
\* What os.RemoveAll of the directory takes with it.
VMDir == {"config", "state", "said", "paused", "stale", "ckpt", "auto", "disk2", "cd"}

-----------------------------------------------------------------------------
(* The two files. *)

checkConfigValues == Try("no line breaks")
\* Written beside the file and renamed over it.
saveVMConfig(r) == checkConfigValues \o Try("write, sync") \o Ensure({"config"} \cup r)
validateVMConfigPaths == Try("disks, taps and console where they may be")
\* A value that does not parse is logged and replaced by a default.
parseVMConfig == Logged(Try("parse"))
loadVMConfig == Need("config") \o parseVMConfig \o validateVMConfigPaths
saveVMState(r) == Ensure({"state"} \cup r)
loadVMState == Need("state")

validateRuntimeConfig == Try("every device, slot and path may be used")
validateVNCHost == Try("local, or explicitly insecure")
validateBootloader == Try("known")
applyProviderConfig ==
  Try("types and ranges of the settings") \o validateVNCHost \o Try("known drivers")
pciSlotToBhyve == Try("bus/device/function")
mergeRuntimePassthrough == Try("read passthrough.json") \o pciSlotToBhyve
getBhyveDiskDriver == Logged(Try("driver suits the firmware"))

(* Processes. *)

bhyvePIDsForVM == Try("pgrep, ps")
\* bhyvectl --destroy, whose errors are ignored, takes the process with it.
bhyvectlDestroy == Logged(Drop({"vmm", "bhyve"}))
killOrphanBhyveProcess == Clean({"bhyve"})
\* p runs if the PID that vm.state records is the VM's process.
pidIsBhyveVM(p) == When("said", Unless("stale", p))
\* SIGTERM, unless the stop is forced; the guest may ignore it.
waitForProcessExit == Maybe(Forget({"bhyve"}))
rememberVMState(p) == Logged(p)
\* What makes vm.state say more than stopped.
Recorded == {"said", "paused", "stale"}
\* What the file says is compared with the processes, and put right.  A record of a
\* running VM is believed if ps finds bhyve under its PID, a record of a stopped one
\* unless pgrep finds some: a query that fails, like a PID that is stale, answers
\* stopped.
GetInstanceState(running, stopped) ==
  LET up == Unless("said", rememberVMState(Ensure({"said"}))) \o running
      down == When("said", rememberVMState(Drop(Recorded))) \o stopped
      found == Unless("stale", up \o Skip(Len(down) + 1)) \o Overlook({"bhyve"})
  IN Try("valid name") \o loadVMState \o
     Ask({"bhyve"}, Len(found) + 2) \o When("bhyve", found) \o down
Running(p) == GetInstanceState(Unless("paused", p), Nothing)

stopSwtpm == Clean({"swtpm"})
startSwtpm ==
  Try("swtpm, directory") \o Maybe(Try("swtpm_setup")) \o stopSwtpm \o Ensure({"swtpm"}) \o
  OnError({"swtpm"}, Try("socket within the timeout"))

-----------------------------------------------------------------------------
(* The network. *)

findBridgeForMember == Logged(Try("ifconfig -g bridge"))
ensureBridge == Unless("bridge", Ensure({"bridge"}) \o Try("up"))
attachToBridge == Try("addm")
\* A tap that is there belonged to an earlier VM of the name.
createTapDevice ==
  When("tap", findBridgeForMember \o killOrphanBhyveProcess \o Clean({"tap"})) \o
  Make({"tap"}) \o Try("up")
destroyTapSafe == Logged(Try("deletem")) \o Drop({"tap"})
cleanupTaps == {"tap"}
restoreTapDevices == Ensure({"tap"}) \o Try("up") \o Maybe(ensureBridge \o attachToBridge)

ensureNATBridge == Ensure({"bridge"}) \o Try("address") \o Logged(Try("forwarding"))
isProcessRunning == Try("the pid is dnsmasq's")
dnsmasqArgs == Try("dnsmasq")
ensureDNSMasq == Try("dnsmasq is installed") \o Maybe(isProcessRunning) \o Maybe(dnsmasqArgs)
initFirewall == Try("backend, persisted rules applied")
bhyveDefaultInterface == Try("route get default")
setupNATForVM ==
  ensureNATBridge \o attachToBridge \o initFirewall \o Try("DHCP pass rule") \o
  bhyveDefaultInterface \o Ensure({"nat"}) \o Logged(ensureDNSMasq)
teardownNATForVM == Logged(initFirewall \o Drop({"nat"}))
setupIPv6NATForVM ==
  Try("prefix") \o Logged(Try("forwarding")) \o bhyveDefaultInterface \o Ensure({"nat6"})
teardownIPv6NATForVM == Logged(initFirewall \o Drop({"nat6"}))
ensureVLANBridge == Ensure({"bridge"}) \o Try("up")
setupVLANForTap ==
  Try("1..4094") \o bhyveDefaultInterface \o Ensure({"vlanif"}) \o Try("vlandev") \o
  ensureVLANBridge \o attachToBridge \o attachToBridge
teardownVLANForTap == Clean({"vlanif"})

-----------------------------------------------------------------------------
(* The disks and the firmware. *)

parseImageSource == Try("not empty")
confinedImage == Try("inside the image directory")
resolveISOPath == Try("find") \o confinedImage
resolveCloudImagePath == Try("find") \o confinedImage
storage == Try("backend")
createZVOL == Unless("zvol", storage \o Ensure({"zvol"}))
validatePhysicalDisk == Try("in the list of allowed disks")
createRawDisk(r) == Ensure(r)
cleanupZVOLs == {"zvol"}
zfsDestroyCleanup(r) == r
isXZCompressed == Try("magic number")
deployCloudImage == Try("qemu-img") \o isXZCompressed \o Maybe(Try("xzcat")) \o Try("convert")
findZFSPartitionInZVOL == Try("a GPT whose ZFS partition lies inside the volume")
injectFreeBSDGuestConfig ==
  findZFSPartitionInZVOL \o Try("dd out") \o
  Finally({"md", "pool"}, Make({"md"}) \o Try("mkdir") \o Make({"pool"}) \o Logged(Try("mount")) \o
    Logged(Try("rc.conf, loader.conf")) \o Drop({"pool"}) \o Try("dd back"))
generateCloudInitISO == Try("mkdir") \o Try("sizes, files") \o Try("makefs")
copyUEFIVars == Try("copy the template")
ensureNICMACs == Try("random address")

-----------------------------------------------------------------------------
(* The life of a VM. *)

\* A directory without vm.conf is what an interrupted creation left.
ClaimDirectory ==
  Refuse("config") \o Clean(VMDir) \o Try("mkdir")
ResolveImage == Maybe(parseImageSource \o Either(resolveISOPath, resolveCloudImagePath))
CreateDisks ==
  Maybe(validatePhysicalDisk) \o createZVOL \o
  OnError(cleanupZVOLs, Maybe(deployCloudImage \o Logged(injectFreeBSDGuestConfig)) \o
                        getBhyveDiskDriver \o Maybe(generateCloudInitISO))
\* setupNATForVM undoes nothing of its own, and counts only once it succeeded.
CreateNetworks ==
  OnError(cleanupZVOLs,
    createTapDevice \o
    OnError(cleanupTaps,
      IfElse("nat", setupNATForVM, Maybe(ensureBridge \o attachToBridge))))
SaveInstance ==
  Maybe(copyUEFIVars) \o applyProviderConfig \o When("vlan", setupVLANForTap) \o
  When("ipv6", When("nat", initFirewall \o setupIPv6NATForVM)) \o
  saveVMConfig({}) \o saveVMState({})
CreateInstance ==
  Enter \o validateBootloader \o ClaimDirectory \o
  OnError(VMDir,
    ResolveImage \o CreateDisks \o CreateNetworks \o
    OnError({"nat"} \cup cleanupTaps \cup cleanupZVOLs, SaveInstance))

\* Mutant of StopInstance: a graceful stop that times out is not escalated.
MutStopGently ==
  Enter \o loadVMState \o Logged(GetInstanceState(Nothing, Return)) \o
  Try("reload") \o When("paused", Logged(Try("SIGCONT"))) \o pidIsBhyveVM(waitForProcessExit) \o
  Drop(Recorded) \o When("config", When("tpm", stopSwtpm))

\* A VM taken for stopped is left as it is.  The second bhyvectl releases the vmm of a
\* guest that went by itself.
StopInstance ==
  Enter \o loadVMState \o Logged(GetInstanceState(Nothing, Return)) \o Try("reload") \o
  When("paused", Logged(Try("SIGCONT"))) \o
  pidIsBhyveVM(waitForProcessExit) \o
  When("bhyve", bhyvectlDestroy \o pidIsBhyveVM(Clean({"bhyve"}))) \o
  bhyvectlDestroy \o Drop(Recorded) \o
  When("config", When("tpm", stopSwtpm))

\* Mutant of DeleteInstance: the stop is trusted to have worked.
MutDeleteTrusting ==
  Enter \o Logged(Running(Call(StopInstance))) \o
  When("config", When("tpm", stopSwtpm) \o Logged(destroyTapSafe)) \o
  Clean({"zvol"}) \o Drop(VMDir)

\* What depends on the configuration is torn down when it can be read.
DeleteInstance ==
  Enter \o
  Logged(Running(Call(StopInstance))) \o
  bhyvectlDestroy \o killOrphanBhyveProcess \o
  When("config",
    When("tpm", stopSwtpm) \o
    When("nat", teardownNATForVM \o When("ipv6", teardownIPv6NATForVM)) \o
    When("vlan", teardownVLANForTap) \o Logged(destroyTapSafe)) \o
  Clean({"zvol"}) \o Drop(VMDir)

RestoreNetwork ==
  restoreTapDevices \o When("vlan", setupVLANForTap) \o When("nat", setupNATForVM) \o
  When("ipv6", When("nat", initFirewall \o setupIPv6NATForVM))
buildBhyveArgs == validateRuntimeConfig \o Try("no PCI slot above 30")
\* Over a VM that was taken for stopped bhyve finds its device busy and exits: the
\* start fails, and superviseBhyve takes the VM down and marks it stopped.
Collide ==
  saveVMState({"said", "stale"}) \o bhyvectlDestroy \o Logged(Drop(Recorded)) \o Fail
\* The state is saved before the guest is known to have survived its first second; the
\* PID of a record that could not be corrected is stale until then.
Launch ==
  ensureNICMACs \o Maybe(saveVMConfig({})) \o buildBhyveArgs \o Try("bhyve.log") \o
  When("bhyve", Collide) \o When("said", Note({"stale"})) \o
  Ensure({"bhyve", "vmm"}) \o OnError({"bhyve"}, saveVMState({"said"})) \o Forget({"stale"}) \o
  Need("bhyve") \o Try("not canceled")
StartInstance ==
  Enter \o loadVMConfig \o mergeRuntimePassthrough \o validateRuntimeConfig \o
  Running(Fail) \o
  When("tpm", startSwtpm) \o OnError({"swtpm"}, RestoreNetwork \o Launch)

RestartInstance == Enter \o Call(StopInstance) \o StartInstance
ListInstances == Try("read the directory") \o Logged(Running(Nothing))
Shutdown == ListInstances \o Logged(Running(Logged(Call(StopInstance))))

SetInstanceResources == Enter \o loadVMConfig \o Try("limits") \o saveVMConfig({})

-----------------------------------------------------------------------------
(* Suspension and checkpoints. *)

PauseInstance ==
  Enter \o loadVMState \o Need("said") \o Refuse("paused") \o
  Try("ps") \o Need("bhyve") \o Refuse("stale") \o Try("SIGSTOP") \o saveVMState({"paused"})
ResumeInstance ==
  Enter \o loadVMState \o Need("paused") \o
  Try("ps") \o Need("bhyve") \o Refuse("stale") \o Try("SIGCONT") \o Drop({"paused"})
bhyvectlSupportsCheckpoint == Try("--suspend")
CheckpointInstance ==
  Enter \o loadVMState \o Need("said") \o Refuse("paused") \o Try("mkdir") \o
  bhyvectlSupportsCheckpoint \o Need("bhyve") \o Ensure({"ckpt"}) \o
  Forget({"bhyve", "vmm"}) \o Drop({"said", "stale"})
\* The guest comes back without its taps being restored, and nothing supervises it.
\* Only vm.state is asked whether the VM runs: if it does, the PID of a bhyve that finds
\* its device busy is recorded.
RestoreCheckpoint ==
  Enter \o Need("ckpt") \o loadVMState \o Refuse("said") \o loadVMConfig \o buildBhyveArgs \o
  Try("bhyve.log") \o
  IfElse("bhyve", saveVMState({"said", "stale"}),
                  Ensure({"bhyve", "vmm"}) \o OnError({"bhyve"}, saveVMState({"said"})))
DeleteCheckpoint == Try("valid names") \o Need("ckpt") \o Drop({"ckpt"})
ListCheckpoints == Try("read the directory")

(* Starting with the host. *)

SetAutoStart == Need("config") \o Try("priority") \o Try("write, sync") \o Ensure({"auto"})
GetAutoStart == Try("read, decode")
ListAutoStartInstances == Try("read the directory") \o Logged(GetAutoStart)
GetAutoStartInfo == GetAutoStart \o Logged(Running(Nothing))
StartAutoStartInstances ==
  ListAutoStartInstances \o
  When("auto", GetAutoStart \o Try("delay") \o Logged(Running(Return)) \o StartInstance)

-----------------------------------------------------------------------------
LifeOps ==
  [create |-> CreateInstance, start |-> StartInstance, stop |-> StopInstance,
   restart |-> RestartInstance, delete |-> DeleteInstance, shutdown |-> Shutdown]
Life ==
  [options |-> {{}, {"nat"}, {"nat", "ipv6"}, {"vlan"}, {"tpm"}},
   starts |-> {{}},
   guest |-> {"bhyve"},
   memory |-> {},
   volatile |-> {"bhyve", "vmm", "tap", "vlanif", "nat6", "swtpm", "bridge"},
   shared |-> {"bridge"},
   record |-> {"config"},
   gives |-> [create |-> {"config", "state", "zvol", "tap"}, start |-> {"bhyve", "said"},
              restart |-> {"bhyve", "said"}],
   takes |-> [stop |-> {"bhyve", "vmm", "said", "swtpm"},
              delete |-> VMDir \cup {"zvol", "tap", "vlanif", "nat", "nat6", "swtpm", "vmm", "bhyve"}],
   additive |-> {"create", "start"},
   certain |-> [stop |-> {"config"}, delete |-> {}],
   known |-> {<<"create", "state">>, <<"create", "zvol">>, <<"create", "tap">>, <<"create", "nat">>,
              <<"create", "nat6">>, <<"create", "vlanif">>, <<"start", "tap">>, <<"start", "vlanif">>,
              <<"start", "nat">>, <<"start", "nat6">>, <<"start", "vmm">>, <<"start", "bhyve">>,
              <<"start", "said">>, <<"start", "stale">>, <<"start", "swtpm">>, <<"start", "paused">>, <<"stop", "swtpm">>, <<"stop", "vmm">>,
              <<"stop", "stuck">>, <<"delete", "tap">>, <<"delete", "vlanif">>,
              <<"delete", "nat">>, <<"delete", "nat6">>}]

PowerOps ==
  [start |-> StartInstance, stop |-> StopInstance, pause |-> PauseInstance,
   resume |-> ResumeInstance, checkpoint |-> CheckpointInstance, restore |-> RestoreCheckpoint,
   forget |-> DeleteCheckpoint, auto |-> SetAutoStart, boot |-> StartAutoStartInstances,
   resources |-> SetInstanceResources, query |-> OneOf(<<ListCheckpoints, GetAutoStartInfo>>)]
Power ==
  [options |-> {{}, {"tpm"}},
   \* stale: the supervisor relaunched the guest and could not record its PID
   starts |-> LET made == {"config", "state", "zvol", "tap"}
              IN {made, made \cup {"bhyve", "vmm", "said", "stale"}},
   guest |-> {"bhyve"},
   memory |-> {},
   volatile |-> {"bhyve", "vmm", "tap", "swtpm", "bridge"},
   shared |-> {"bridge"},
   record |-> {"config"},
   gives |-> [start |-> {"bhyve", "said"}, pause |-> {"paused"}, checkpoint |-> {"ckpt"},
              restore |-> {"bhyve", "said"}, auto |-> {"auto"}],
   takes |-> [stop |-> {"bhyve", "vmm", "said", "paused", "swtpm"},
              resume |-> {"paused"}, checkpoint |-> {"bhyve", "said"}, forget |-> {"ckpt"}],
   additive |-> {"start", "pause", "checkpoint", "restore", "auto", "resources"},
   certain |-> [stop |-> {"config"}],
   known |-> {<<"start", "tap">>, <<"start", "vmm">>, <<"start", "bhyve">>, <<"start", "said">>, <<"start", "stale">>,
              <<"start", "swtpm">>, <<"start", "paused">>, <<"stop", "swtpm">>, <<"stop", "vmm">>,
              <<"checkpoint", "ckpt">>, <<"checkpoint", "bhyve">>, <<"checkpoint", "vmm">>,
              <<"restore", "vmm">>, <<"restore", "bhyve">>}]
=============================================================================
