---------------------------- MODULE JailProvider ----------------------------
(***************************************************************************)
(* The jail provider (pkg/provider/jail): what its operations do to the    *)
(* host, written as procedures (module Procedures), each under the name of *)
(* its function.                                                           *)
(*                                                                         *)
(* Resources of a jail: its dataset and its JSON file (config), the jail   *)
(* itself (jail), nullfs and fstab mounts (mounts), the fstab file, the    *)
(* epair of its network and the name of it in the file (recorded), the pf  *)
(* rules and the persisted port mappings (rules, ports), the rctl rules    *)
(* (limits), its hook scripts (hooks) and the host's bridge.               *)
(* Options: networks and volumes, as the jail was created.                 *)
(***************************************************************************)
EXTENDS Procedures

\* Every operation validates the name and takes the instance's lock first.
Enter == Try("valid name, lock")

-----------------------------------------------------------------------------
(* The configuration file. *)

saveJailConfig(r) == Ensure(r)
loadJailConfig == Need("config") \o Try("read and decode")
\* A file whose dataset is gone is removed, and the name is free again.
jailExists ==
  When("config", Try("zfs list") \o
                 IfElse("dataset", Fail, Clean({"config", "recorded"})))
ensureJailDirectories == Need("dataset") \o Try("mkdir")

(* Hooks: only those that run before an operation can stop it. *)

validateHookPath == Try("inside a hooks directory, owned by root")
executeHook == Try("run, within the timeout")
runDiscoveredHook == validateHookPath \o executeHook
executeHooksFromDir == Maybe(runDiscoveredHook)
executeConfigHooks == When("config", Maybe(validateHookPath \o executeHook))
ExecuteHooks ==
  All(<<executeHooksFromDir, executeHooksFromDir, executeConfigHooks>>)

(* ZFS *)

ensureOwnDataset == Try("below the parent of the jails or of the volumes")
ensureOwnDatasetOrSnapshot == Try("valid snapshot name") \o ensureOwnDataset
ensureOwnSnapshot == ensureOwnDatasetOrSnapshot
ensureOwnDatasetOrParent == Maybe(ensureOwnDataset)
datasetFor == Try("the dataset of the handle is the jail's own")
snapshotFor == ensureOwnSnapshot \o Try("the snapshot is the instance's own")
createZFSDataset(r) == ensureOwnDatasetOrParent \o Make(r)
ensureZFSDataset(r) == ensureOwnDatasetOrParent \o Ensure(r)
\* Mutant of destroyZFSDataset: a dataset that is gone already is an error.
MutDestroyRefuses(r) == ensureOwnDataset \o Need("dataset") \o Drop(r)
\* A dataset that is not there is fine, a busy one is destroyed by force.
destroyZFSDataset(r) == ensureOwnDataset \o Drop(r)
destroyZFSDatasetCleanup(r) == r
zfsDestroyCleanup(r) == r
getZFSMountpoint == Try("zfs get mountpoint")
applyZFSQuotas == ensureOwnDatasetOrParent \o Try("zfs set quota") \o Logged(Try("refquota"))

-----------------------------------------------------------------------------
(* The base system of a new jail. *)

digestFromManifest == Try("fetch MANIFEST") \o Try("the archive is listed")
verifyArchiveDigest == Try("sha256")
DownloadBaseSystem ==
  Ensure({"tmp"}) \o Finally({"tmp"},
    Try("fetch") \o Maybe(digestFromManifest) \o verifyArchiveDigest \o Try("tar -x"))
extractBaseSystem == Try("find the image") \o Try("tar -x")
getQEMUBinaryPath == Try("a static qemu for the architecture")
setupCrossArchEmulation ==
  Maybe(getQEMUBinaryPath \o Try("copy it into the jail") \o Logged(Try("copy rescue binaries")))

ensureSysrc == Try("sysrc")
setSysctlIfNotSet == Try("sysctl")
ensureLinuxCompatibility ==
  Try("kldload") \o Logged(ensureSysrc) \o Logged(setSysctlIfNotSet)
tryExtractPrebuiltRootfs == Try("tar -x")
debootstrapArch == Try("architecture is supported")
validateMirrorScheme == Try("https mirror")
debootstrapBase ==
  Try("debootstrap, release") \o validateMirrorScheme \o Try("keyring") \o debootstrapArch
    \o Try("debootstrap")
installDebianBase == debootstrapBase
installUbuntuBase == debootstrapBase
installRHELBase == Try("dnf") \o Try("signing key") \o Try("repository, rpm --initdb") \o Try("dnf install")
verifyAlpineDigest == Try("fetch .sha256") \o verifyArchiveDigest
installAlpineBase ==
  Ensure({"tmp"}) \o Finally({"tmp"},
    Try("fetch") \o verifyAlpineDigest \o Try("tar -x") \o Try("apk repositories"))
installLinuxBase ==
  Either(tryExtractPrebuiltRootfs,
  Either(Either(installDebianBase, installUbuntuBase),
  Either(installRHELBase,
  Either(installAlpineBase, Fail))))
copyResolvConf == Try("copy resolv.conf")
fixupDebianFamily == Logged(Try("apt.conf.d"))
fixupLinuxJail == Logged(copyResolvConf) \o Maybe(fixupDebianFamily)
setupLinuxJail == ensureLinuxCompatibility \o installLinuxBase \o Try("mkdir") \o fixupLinuxJail
configureLinuxMounts == Ensure({"fstab"})

-----------------------------------------------------------------------------
(* The network of a jail that starts. *)

initFirewall == Try("backend, persisted rules applied")
CleanupFirewallRules == initFirewall \o Drop({"rules", "ports"})
EnableIPForwarding == Try("sysctl") \o Logged(Try("sysctl inet6"))
ConfigureNAT == initFirewall \o Try("external interface") \o Ensure({"rules"})
ConfigureGateway == Try("rc.conf")
ConfigureDNS == Try("resolv.conf")
ApplyPortForwards == initFirewall \o When("ports", Ensure({"rules"}))
\* Nothing of it fails a start.
SetupNetworking ==
  All(<<Logged(EnableIPForwarding), Logged(ConfigureNAT), Logged(ConfigureGateway),
        Logged(ConfigureDNS), Logged(ApplyPortForwards)>>)

CheckIPConflicts == Try("ifconfig -a")
DetectAndWarnIPConflicts == Logged(CheckIPConflicts) \o Try("the gateway is nobody else's")
\* A bridge that cannot be brought up stays: the next start finds it.
EnsureBridge ==
  Try("valid name") \o
  Unless("bridge", Ensure({"bridge"}) \o Try("up")) \o
  Maybe(DetectAndWarnIPConflicts \o Logged(Try("gateway alias")))
bringUpInterface == Try("ifconfig up")
DestroyVNetInterface(r) == Drop(r)
attachInterfaceToBridge == Try("bridge, VLAN") \o Try("addm") \o Try("flags")
\* Mutant of CreateVNetInterface: an epair that cannot be attached stays.
MutEpairLeaks(r) == Make(r) \o Logged(Try("mtu")) \o bringUpInterface \o attachInterfaceToBridge
CreateVNetInterface(r) ==
  Make(r) \o Logged(Try("mtu")) \o OnError(r, bringUpInterface \o attachInterfaceToBridge)
EnsureGatewayOnBridge == Try("ifconfig alias")
ConfigureVNetJailNetwork ==
  Try("valid names") \o Logged(Try("lo0")) \o Need("jail") \o Try("address") \o
  Maybe(Logged(EnsureGatewayOnBridge) \o Logged(Try("default route")))
renameJailInterface == Logged(Try("ifconfig name"))

addressesInUse == Try("read the other configurations")
refuseAddressInUse == addressesInUse \o Try("nobody holds the address")
parseIPPool == Logged(Try("parse"))
allocateDHCPAddress == addressesInUse \o parseIPPool \o Try("an address is free")

-----------------------------------------------------------------------------
(* Mounts and limits. *)

addToJailFstab(r) == Ensure(r)
applyMounts ==
  When("volumes", Try("mount point") \o Ensure({"mounts"}) \o Logged(addToJailFstab({"fstab"})))
    \o When("fstab", Ensure({"mounts"}))
jailMounts == Try("mount -p")
\* Only a jail whose file can be read is unmounted.
umountJail == When("config", Logged(jailMounts \o Clean({"mounts"})))

getResourceLimitsLocked == Try("rctl -l")
removeResourceLimitsLocked == Drop({"limits"})
restoreResourceLimits == {"limits"}
replaceLimits ==
  getResourceLimitsLocked \o removeResourceLimitsLocked \o
  Restoring(restoreResourceLimits, Ensure({"limits"}))
applyRCTLLimits == Try("in range, RACCT enabled") \o replaceLimits
isValidRctlResource == Try("known resource")
isValidRctlAction == Try("known action")
rctlCombinationError == Try("rctl supports the combination")
SetResourceLimits ==
  Enter \o isValidRctlResource \o isValidRctlAction \o rctlCombinationError \o replaceLimits
RemoveResourceLimits == Enter \o removeResourceLimitsLocked
GetResourceLimits == Enter \o getResourceLimitsLocked
SetCPUPriority == Enter \o Need("jail") \o Try("ps") \o Try("renice")
GetCPUPriority == Enter \o Need("jail") \o Try("ps") \o Try("nice value")

-----------------------------------------------------------------------------
(* The life of a jail. *)

\* The lookup of the mountpoint is the one step whose failure leaves the dataset.
InstallBase ==
  Either(setupLinuxJail \o setupCrossArchEmulation \o configureLinuxMounts,
         extractBaseSystem \o setupCrossArchEmulation)
FinishCreate == Logged(ConfigureDNS) \o Logged(ExecuteHooks)
CreateInstance ==
  Enter \o Call(jailExists) \o refuseAddressInUse \o ExecuteHooks \o
  Refuse("dataset") \o createZFSDataset({"dataset"}) \o getZFSMountpoint \o
  OnError(destroyZFSDatasetCleanup({"dataset"}), InstallBase \o saveJailConfig({"config"})) \o
  FinishCreate

StartNetworks ==
  Maybe(allocateDHCPAddress \o saveJailConfig({"config"})) \o refuseAddressInUse \o
  EnsureBridge \o CreateVNetInterface({"epair"}) \o SetupNetworking \o
  Logged(saveJailConfig({"recorded"}))

\* What the deferred function of StartInstance undoes depends on how far it got.
ValidateJailParameters == Try("every number in its range")
ToJailArgs == Try("valid commands, users and paths")
ConfigureNetworks ==
  Try("not canceled") \o ConfigureVNetJailNetwork \o renameJailInterface \o
  Logged(ConfigureDNS) \o Logged(Try("exec.start"))
StartJail ==
  ToJailArgs \o
  OnError({"mounts"},
    applyMounts \o Make({"jail"}) \o OnError({"jail"}, When("networks", ConfigureNetworks)))
FinishStart == Logged(applyZFSQuotas) \o Logged(applyRCTLLimits) \o Logged(ExecuteHooks)

StartInstance ==
  Enter \o Refuse("jail") \o loadJailConfig \o ExecuteHooks \o ensureJailDirectories \o
  IfElse("networks", StartNetworks \o OnError({"epair", "rules", "ports"}, StartJail),
         StartJail) \o
  FinishStart

\* A jail that is not running is left as it is.  The epairs are destroyed, and the
\* file is written even when that failed.
StopInstance ==
  Enter \o Unless("jail", Return) \o ExecuteHooks \o Drop({"jail"}) \o
  umountJail \o
  When("recorded", Logged(DestroyVNetInterface({"epair"})) \o Unless("epair", Logged(Drop({"recorded"})))) \o
  Logged(ExecuteHooks)

RestartInstance == Enter \o Call(StopInstance) \o Try("not canceled") \o StartInstance

DeleteInstance ==
  Enter \o ExecuteHooks \o Logged(CleanupFirewallRules) \o
  When("jail", Call(StopInstance)) \o
  umountJail \o When("recorded", Logged(DestroyVNetInterface({"epair"}))) \o
  datasetFor \o destroyZFSDataset({"dataset"}) \o
  Drop({"config", "recorded"}) \o Clean({"hooks", "fstab"}) \o
  Logged(ExecuteHooks)

Reconfigure ==
  Enter \o loadJailConfig \o ValidateJailParameters \o saveJailConfig({"config"})

GetInstanceState == Need("config")
UpgradeInstance ==
  Enter \o GetInstanceState \o Refuse("jail") \o loadJailConfig \o
  Try("freebsd-update upgrade") \o Try("freebsd-update install") \o saveJailConfig({"config"})

\* The configuration names the jails that start with the host.
SetAutoStart == Try("priority, delay") \o loadJailConfig \o saveJailConfig({"config", "auto"})
GetAutoStart == loadJailConfig
getAutoStartInstances == Try("read the state directory")
StartAutoStartInstances ==
  getAutoStartInstances \o When("auto", Unless("jail", Try("not canceled") \o StartInstance))

CreateHookScript == Enter \o Try("valid script") \o Ensure({"hooks"})
DeleteHookScript == Enter \o Drop({"hooks"})
SetInstanceResources == Enter \o loadJailConfig \o saveJailConfig({"config"}) \o
  When("jail", Logged(applyRCTLLimits))
\* The firewall manager keeps the mapping; module Firewall has what pf is told.
ExposePort == Need("config") \o Try("add to the backend") \o Ensure({"ports"})

-----------------------------------------------------------------------------
(* The life of one jail, from the moment nothing of it is there. *)
LifeOps ==
  [create |-> CreateInstance, start |-> StartInstance, stop |-> StopInstance,
   restart |-> RestartInstance, delete |-> DeleteInstance,
   expose |-> ExposePort, limits |-> SetResourceLimits]
Life ==
  [options |-> SUBSET {"networks", "volumes"},
   starts |-> {{}},
   guest |-> {"jail"},
   memory |-> {},
   volatile |-> {"jail", "mounts", "epair", "bridge", "limits", "rules"},
   shared |-> {"bridge", "tmp"},
   record |-> {"config"},
   gives |-> [create |-> {"dataset", "config"}, start |-> {"jail"}, stop |-> {},
              restart |-> {"jail"}, delete |-> {}, expose |-> {"ports"},
              limits |-> {"limits"}],
   takes |-> [create |-> {}, start |-> {}, stop |-> {"jail"}, restart |-> {},
              delete |-> {"dataset", "config", "recorded", "jail", "mounts", "epair", "fstab",
                          "hooks", "rules", "ports", "limits"},
              expose |-> {}, limits |-> {}],
   additive |-> {"create", "start", "expose", "limits"},
   certain |-> [stop |-> {}, delete |-> {}],
   known |-> {<<"create", "dataset">>, <<"create", "fstab">>, <<"create", "config">>,
              <<"create", "recorded">>, <<"start", "fstab">>, <<"start", "ports">>,
              <<"start", "rules">>, <<"start", "mounts">>, <<"start", "recorded">>,
              <<"delete", "limits">>, <<"delete", "mounts">>, <<"delete", "epair">>}]
=============================================================================
