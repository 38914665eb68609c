--------------------------- MODULE PodmanProvider ---------------------------
(***************************************************************************)
(* The Podman provider (pkg/provider/podman).                              *)
(*                                                                         *)
(* Podman itself keeps the containers.  Resources: the container (ctr) and *)
(* whether it runs (run) or is paused (paused); what it was created with   *)
(* besides its image and its labels (settings); the entry in the           *)
(* provider's map (cached), which a restart rebuilds; the autostart file   *)
(* (auto) and the restart policy (policy); a snapshot's image (snap); what *)
(* was written since (written).  ctr_c is a copy, image_c the image it is  *)
(* made from (image_n while it is made); bak the container RestoreSnapshot *)
(* set aside.                                                              *)
(***************************************************************************)
EXTENDS Procedures

Named == Try("valid name")
Inspect(p) == Need("ctr") \o Try("podman inspect, decode") \o p

\* The status Podman reports.
GetInstanceState(running, paused, stopped) ==
  Named \o Inspect(IfElse("run", running, IfElse("paused", paused, stopped)))
publishedPortSpecs == Maybe(Try("bindings"))
GetInstanceInfo == Named \o Inspect(publishedPortSpecs)
containerExists == Need("ctr") \o Try("podman container exists")
refreshContainerInfo == Inspect(Note({"cached"}))
syncContainersLocked ==
  Try("podman ps -a") \o Forget({"cached"}) \o When("ctr", Note({"cached"}))
ListInstances == syncContainersLocked

-----------------------------------------------------------------------------
(* Creation. *)

ValidateImageSource == Try("not empty, known form")
checkPodmanVolumeUnder == Try("source below an allowed root")
checkPodmanVolume == checkPodmanVolumeUnder
podmanVolumeStrings == Maybe(checkPodmanVolume)
validatePodmanPortSpec == Try("ports and protocol")
checkPortRange == Try("1..65535")
portNumber == Try("a whole number")
normalizePortProtocol == Try("tcp or udp")
portForwardArg == portNumber \o checkPortRange \o normalizePortProtocol
envValue == Try("a scalar")
buildCreateArgs ==
  Try("networks") \o podmanVolumeStrings \o Maybe(validatePodmanPortSpec) \o
  Maybe(portForwardArg) \o Maybe(envValue) \o Try("command and entrypoint are strings")
\* On FreeBSD a Linux image is tried when there is none for the host.
pullImageIfNeeded == Unless("image", Either(Ensure({"image"}), Ensure({"image"})))
extractContainerID == Try("an identifier in the output")

SetAutoStart ==
  Named \o Try("priority") \o Need("ctr") \o Ensure({"policy"}) \o Try("mkdir, encode") \o Ensure({"auto"})
\* The name is reserved in the map while Podman creates the container.
CreateInstance ==
  Named \o When("cached", containerExists \o Fail) \o
  Note({"cached"}) \o
  OnError({"cached"},
    ValidateImageSource \o buildCreateArgs \o pullImageIfNeeded \o
    Make({"ctr"}) \o Note({"settings"}) \o extractContainerID) \o
  Maybe(Logged(SetAutoStart))

StartInstance == Named \o Need("ctr") \o Refuse("paused") \o Ensure({"run"})
StopInstance == Named \o Need("ctr") \o Drop({"run", "paused"})
RestartInstance ==
  Named \o Need("ctr") \o Drop({"run", "paused"}) \o Ensure({"run"})
forgetInstance == Forget({"cached"})
\* Without force the container is stopped first, and podman rm refuses one that runs.
DeleteInstance ==
  Named \o IfElse("ctr",
    Either(Logged(Drop({"run", "paused"})) \o Refuse("run") \o Refuse("paused"), Nothing) \o
    Drop({"ctr", "run", "paused", "policy", "settings", "written"}), Try("no such container")) \o
  forgetInstance
SetInstanceResources == Named \o Need("ctr") \o Try("podman update")

PauseInstance == Named \o Need("run") \o Ensure({"paused"}) \o Forget({"run"})
ResumeInstance == Named \o Need("paused") \o Drop({"paused"}) \o Note({"run"})

GetAutoStart == Named \o Try("read, decode")
ListAutoStartInstances == Try("read the directory") \o Logged(GetAutoStart)
StartAutoStartInstances ==
  ListAutoStartInstances \o
  When("auto", GetAutoStart \o Try("delay") \o
               Logged(GetInstanceState(Return, Nothing, Nothing)) \o StartInstance)

-----------------------------------------------------------------------------
(* Snapshots are images with two labels. *)

snapshotImageFor == Try("an image of this instance's prefix, or an image ID")
snapshotContainerFor == Try("names the same container")
imageIsSnapshotOf == Need("snap") \o Try("inspect, labels")
isPodmanImageAbsent == Try("exit status 1")
CreateSnapshot ==
  Named \o containerExists \o Try("valid name") \o Refuse("snap") \o isPodmanImageAbsent \o Make({"snap"})
DeleteSnapshot == snapshotImageFor \o imageIsSnapshotOf \o Drop({"snap"})
\* The new container has the image and the labels of the old one and nothing else;
\* the old one is renamed back when it cannot be created.
RestoreSnapshot ==
  Named \o snapshotImageFor \o imageIsSnapshotOf \o containerExists \o
  GetInstanceState(Drop({"run"}), Drop({"paused"}), Nothing) \o
  Inspect(Clean({"bak"})) \o Ensure({"bak"}) \o Forget({"ctr"}) \o
  Restoring({"ctr"}, OnError({"bak"}, Make({"ctr"}))) \o Forget({"settings", "written", "policy"}) \o
  Clean({"bak"}) \o refreshContainerInfo
ListSnapshots == Named \o Try("podman images, decode")

(* Copies. *)

containerResourceLimits == Logged(Try("inspect, decode"))
imageDefaults == Logged(Try("podman image inspect, decode"))
recreateSpec == imageDefaults
createClone ==
  containerResourceLimits \o buildCreateArgs \o Make({"ctr_c"}) \o
  OnError({"ctr_c"}, extractContainerID \o Need("ctr_c") \o Try("inspect, decode") \o Note({"cached_c"}))
CloneInstance ==
  Named \o containerExists \o Ensure({"image_n"}) \o
  OnError({"image_n"}, GetInstanceInfo \o recreateSpec \o createClone) \o
  Note({"image_c"}) \o Forget({"image_n"})
CloneFromSnapshot ==
  Named \o snapshotContainerFor \o snapshotImageFor \o imageIsSnapshotOf \o
  Logged(GetInstanceInfo \o recreateSpec) \o createClone
Copy == [ctr |-> "ctr_c", cached |-> "cached_c", run |-> "run_c", paused |-> "paused_c",
         policy |-> "policy_c", settings |-> "settings_c", written |-> "written_c",
         auto |-> "auto_c", image |-> "image_c"]
DeleteCopy == For(Copy, DeleteInstance)

\* moved: the container has its new name.
RenameInstance ==
  Named \o Refuse("cached_c") \o GetInstanceState(Fail, Fail, Nothing) \o
  Ensure({"moved"}) \o When("cached", Forget({"cached"}) \o Note({"cached_c"}))

validateExportPath == Try("absolute, inside the data directory, no link")
ExportInstance ==
  Named \o validateExportPath \o
  Maybe(GetInstanceState(StopInstance, Nothing, Nothing)) \o Try("mkdir") \o
  Need("ctr") \o Ensure({"archive"}) \o Logged(GetInstanceInfo \o Ensure({"meta"}))
\* The image stays when the new container does not start.
ImportInstance ==
  validateExportPath \o Logged(Try("read the metadata")) \o Named \o
  Need("archive") \o Ensure({"image_c"}) \o
  OnError({"image_c"}, For(Copy, CreateInstance)) \o
  Maybe(For(Copy, StartInstance))

-----------------------------------------------------------------------------
(* Inside the container, and around it. *)

ExecCommand == Named \o Need("run") \o Try("podman exec, timeout")
ExecInteractive == Named \o Need("run") \o Try("podman exec -it")
ExecCommandStream == Named \o Need("run") \o Try("podman exec, timeout")
GetConsole == Named \o GetInstanceState(Nothing, Fail, Fail) \o Try("pipes, podman exec -i")
InstanceAddresses == Named \o Inspect(Nothing)
GetInstanceMetrics == Named \o Need("ctr") \o Try("podman stats, decode")
hasHealthCheck == Inspect(Nothing)
getHealthCheckStatus == Inspect(Try("a health status"))
CheckInstanceHealth ==
  Named \o Logged(GetInstanceState(hasHealthCheck \o Maybe(getHealthCheckStatus), Nothing, Nothing))
HealthCheck == Try("podman version")
Initialize ==
  Try("podman or podman-remote") \o Try("podman version") \o Try("mkdir") \o
  Logged(syncContainersLocked)

-----------------------------------------------------------------------------
LifeOps ==
  [initialize |-> Initialize, create |-> CreateInstance, start |-> StartInstance,
   stop |-> StopInstance, restart |-> RestartInstance, delete |-> DeleteInstance,
   pause |-> PauseInstance, resume |-> ResumeInstance, auto |-> SetAutoStart,
   boot |-> StartAutoStartInstances, resources |-> SetInstanceResources, list |-> ListInstances]
Life ==
  [options |-> {{}}, starts |-> {{}}, guest |-> {"run"}, memory |-> {"cached"},
   volatile |-> {"run", "paused"}, shared |-> {"image"}, record |-> {"ctr"},
   gives |-> [create |-> {"ctr", "cached"}, start |-> {"run"}, restart |-> {"run"},
              pause |-> {"paused"}, resume |-> {"run"}, auto |-> {"auto", "policy"}],
   takes |-> [stop |-> {"run", "paused"}, resume |-> {"paused"}, pause |-> {"run"},
              delete |-> {"ctr", "run", "paused", "policy", "cached", "auto"}],
   additive |-> {"create", "start", "pause", "resume", "auto", "resources"},
   certain |-> [stop |-> {"ctr"}, delete |-> {}],
   known |-> {<<"create", "ctr">>, <<"create", "settings">>, <<"auto", "policy">>, <<"delete", "auto">>}]

Ctr ==
  [Life EXCEPT !.starts = {{"ctr", "cached", "settings", "written"},
                           {"ctr", "cached", "settings", "written", "run"}},
     !.gives = <<>>, !.takes = <<>>, !.additive = {}, !.certain = <<>>, !.known = {}]

CopiesOps ==
  [snapshot |-> CreateSnapshot, unsnapshot |-> DeleteSnapshot, restore |-> RestoreSnapshot,
   clone |-> CloneInstance, cloneSnapshot |-> CloneFromSnapshot, delete |-> DeleteCopy]
Copies ==
  [Ctr EXCEPT
     !.gives = [snapshot |-> {"snap"}, clone |-> {"ctr_c", "cached_c", "image_c"},
                cloneSnapshot |-> {"ctr_c", "cached_c"}, restore |-> {"ctr"}],
     !.takes = [unsnapshot |-> {"snap"}, restore |-> {"written"}, delete |-> {"ctr_c", "cached_c", "image_c"}],
     !.memory = {"cached", "cached_c"}, !.shared = {"image_n", "bak"},
     !.additive = {"snapshot", "clone", "cloneSnapshot", "restore"},
     !.certain = [delete |-> {}],
     !.known = {<<"delete", "image_c">>, <<"restore", "run">>, <<"restore", "settings">>,
                <<"restore", "written">>}]

TransferOps ==
  [rename |-> RenameInstance, export |-> ExportInstance, import |-> ImportInstance,
   delete |-> DeleteCopy,
   query |-> OneOf(<<ExecCommand, ExecInteractive, ExecCommandStream, GetConsole, InstanceAddresses,
                     GetInstanceMetrics, CheckInstanceHealth, HealthCheck, ListSnapshots>>)]
Transfer ==
  [Ctr EXCEPT
     !.gives = [rename |-> {"moved"}, export |-> {"archive"}, import |-> {"ctr_c"}],
     !.takes = [delete |-> {"ctr_c", "image_c"}],
     !.memory = {"cached", "cached_c"},
     !.additive = {"rename", "export", "import"},
     !.known = {<<"export", "run">>, <<"delete", "image_c">>, <<"import", "image_c">>,
                <<"import", "ctr_c">>, <<"import", "settings_c">>, <<"import", "cached_c">>,
                <<"import", "policy_c">>, <<"import", "auto_c">>}]
=============================================================================
