----------------------------- MODULE JailStorage -----------------------------
(***************************************************************************)
(* Snapshots, clones, rename, export and import of jails, and the volumes  *)
(* that are mounted into them (pkg/provider/jail).                         *)
(*                                                                         *)
(* snap is a snapshot a user asked for and source_snap the one a clone is  *)
(* made from: with a linked clone it stays as its origin.  clone and       *)
(* clone_config are the dataset and the file of the copy.                  *)
(***************************************************************************)
EXTENDS JailProvider

GetInstanceInfo == Need("config") \o Try("read and decode, jls")
Stopped == Refuse("jail")

(* Snapshots. *)

CreateSnapshot == Try("valid names") \o datasetFor \o Need("dataset") \o Make({"snap"})
\* zfs refuses to destroy the origin of a clone.
DeleteSnapshot == snapshotFor \o Refuse("from_snap") \o Need("snap") \o Drop({"snap"})
RestoreSnapshot ==
  Enter \o Try("snapshot of this jail") \o GetInstanceInfo \o Stopped \o snapshotFor \o
  Need("snap") \o Try("zfs rollback -r")
ListSnapshots == Try("valid name") \o datasetFor \o Try("zfs list -t snapshot")

(* Clones. *)

finalizeClone(undo) == OnError(undo, saveJailConfig({"clone_config"}))
\* The send and the receive of a full copy destroy the target when one of them fails.
FullClone ==
  OnError({"source_snap"}, Try("pipe, start zfs receive")) \o
  OnError({"clone", "source_snap"}, Make({"clone"})) \o Clean({"source_snap"}) \o
  OnError({"clone"}, getZFSMountpoint) \o finalizeClone({"clone"})
LinkedClone ==
  OnError({"source_snap"}, Make({"clone"})) \o
  OnError({"clone", "source_snap"}, getZFSMountpoint) \o
  finalizeClone({"clone", "source_snap"}) \o
  Forget({"source_snap"}) \o Note({"origin"})
CloneInstance ==
  Enter \o datasetFor \o GetInstanceInfo \o Stopped \o Ensure({"source_snap"}) \o
  Either(LinkedClone, FullClone)
CloneFromSnapshot ==
  snapshotFor \o Enter \o Need("snap") \o Make({"clone"}) \o
  OnError({"clone"}, getZFSMountpoint \o GetInstanceInfo) \o finalizeClone({"clone"}) \o
  Note({"from_snap"})
DeleteClone ==
  For([dataset |-> "clone", config |-> "clone_config", jail |-> "clone_jail"], DeleteInstance)
    \o Forget({"origin", "from_snap"})

(* Rename: dataset_new says that the dataset has the new name. *)

updateFstabParameter == Try("load and save the configuration")
renameJailFstab ==
  When("fstab", Ensure({"new_fstab"}) \o Drop({"fstab"}) \o updateFstabParameter)
RenameConf == When("conf", Ensure({"new_conf"}) \o Drop({"conf"}))
RenameInstance ==
  Enter \o GetInstanceState \o Stopped \o Refuse("new_config") \o
  When("dataset", Make({"dataset_new"})) \o
  OnError({"dataset_new"}, loadJailConfig \o saveJailConfig({"new_config"})) \o
  Logged(Drop({"config"})) \o Logged(RenameConf) \o Logged(renameJailFstab)

(* Export and import. *)

listZFSSnapshots == Try("zfs list -t snapshot")
assertSafeTarEntries == Try("every entry stays inside the directory")
ExportStream ==
  Maybe(Logged(listZFSSnapshots)) \o Ensure({"export_snap"}) \o
  OnError({"export_snap"}, Try("zfs send, gzip"))
ExportArchive ==
  Try("manifest.json") \o Note({"partial"}) \o Ensure({"archive"}) \o Forget({"partial"})
ExportInstance ==
  Try("valid name") \o loadJailConfig \o Maybe(When("jail", Call(StopInstance))) \o
  Ensure({"tmp"}) \o
  Finally({"tmp"}, Try("config.json") \o
    IfElse("dataset", ExportStream \o OnError({"export_snap"}, ExportArchive) \o Clean({"export_snap"}),
           Try("tar") \o ExportArchive))
\* Only what is received or created completely is destroyed again.
ReceiveRootfs ==
  Either(Make({"dataset"}) \o OnError({"dataset"}, getZFSMountpoint),
         createZFSDataset({"dataset"}) \o
         OnError({"dataset"}, getZFSMountpoint \o Maybe(Try("tar -x, cp -a"))))
FinishImport ==
  OnError({"dataset"}, Try("load its configuration") \o saveJailConfig({"config"})) \o
  Maybe(StartInstance)
ImportInstance ==
  Need("archive") \o Ensure({"tmp"}) \o
  Finally({"tmp"}, assertSafeTarEntries \o Try("tar -x, manifest, valid name") \o
    Refuse("dataset") \o Refuse("config") \o ReceiveRootfs \o
    FinishImport)

-----------------------------------------------------------------------------
(* Volumes: meta is the metadata file, mounted the entry of the jail in it. *)

storage == Try("initialise the backend")
validateZFSSize == Try("a size such as 10G")
saveVolumeMetadata(r) == Ensure(r)
loadVolumeMetadata == When("meta", Try("read and decode"))
updateVolumeFromZFS == Logged(Try("zfs get"))
GetVolume == Try("valid name") \o Need("vol") \o loadVolumeMetadata \o updateVolumeFromZFS
ListVolumes == Try("zfs list -r") \o Logged(GetVolume)
CreateVolume ==
  Try("valid name, compression") \o storage \o validateZFSSize \o Make({"vol"}) \o
  Maybe(OnError({"vol"}, getZFSMountpoint)) \o Logged(saveVolumeMetadata({"meta"}))
ResizeVolume ==
  validateZFSSize \o GetVolume \o Try("zfs set quota") \o Logged(saveVolumeMetadata({"meta"}))

jailMountTarget == Try("inside the root of the jail")
undoMount == {"mounts"}
removeFromJailFstab == Drop({"fstab"})
RecordMount(undo) ==
  OnError(undo, addToJailFstab({"fstab"})) \o
  OnError(undo \cup {"fstab"}, saveVolumeMetadata({"meta", "mounted"}))
MountVolumeToJail ==
  Try("valid names and path") \o GetVolume \o loadJailConfig \o jailMountTarget \o
  Refuse("mounted") \o Try("mkdir") \o Try("jls") \o
  IfElse("jail", Ensure({"mounts"}) \o RecordMount(undoMount), RecordMount({}))
UnmountVolumeFromJail ==
  GetVolume \o Need("mounted") \o loadJailConfig \o jailMountTarget \o Try("jls") \o
  When("jail", Drop({"mounts"})) \o removeFromJailFstab \o Drop({"mounted"})
DeleteVolume ==
  GetVolume \o
  Either(Refuse("mounted"), When("mounted", Logged(UnmountVolumeFromJail))) \o
  storage \o Drop({"vol"}) \o Clean({"meta", "mounted"})
SnapshotVolume == Try("valid names") \o GetVolume \o Make({"vol_snap"})
CloneVolume == Try("valid names") \o GetVolume \o Need("vol_snap") \o Make({"vol2"}) \o
  For([vol |-> "vol2", meta |-> "meta2"], GetVolume)

AttachDisk ==
  Try("valid name") \o loadJailConfig \o jailMountTarget \o Try("mkdir") \o Try("jls") \o
  When("jail", Ensure({"mounts"})) \o addToJailFstab({"fstab"})
DetachDisk ==
  Try("valid name") \o loadJailConfig \o Need("fstab") \o Try("jls") \o
  When("jail", Drop({"mounts"})) \o removeFromJailFstab

-----------------------------------------------------------------------------
CopiesOps ==
  [snapshot |-> CreateSnapshot, unsnapshot |-> DeleteSnapshot, restore |-> RestoreSnapshot,
   clone |-> CloneInstance, clonesnap |-> CloneFromSnapshot, unclone |-> DeleteClone,
   query |-> OneOf(<<ListSnapshots, GetInstanceInfo>>)]
Copies ==
  [options |-> {{}},
   starts |-> {{"dataset", "config"}, {"dataset", "config", "jail"}},
   guest |-> {"jail"}, memory |-> {}, volatile |-> {"jail"}, shared |-> {"source_snap"},
   record |-> {"config"},
   gives |-> [snapshot |-> {"snap"}, clone |-> {"clone", "clone_config"},
              clonesnap |-> {"clone", "clone_config"}],
   takes |-> [unsnapshot |-> {"snap"}, unclone |-> {"clone", "clone_config", "origin"}],
   additive |-> {"snapshot", "restore", "clone", "clonesnap", "query"},
   certain |-> [unclone |-> {}],
   known |-> {<<"clone", "clone">>}]

RenamingOps ==
  [rename |-> RenameInstance, delete |-> DeleteInstance, upgrade |-> UpgradeInstance]
Renaming ==
  [options |-> {{}},
   starts |-> {{"dataset", "config"}, {"dataset", "config", "fstab"},
               {"dataset", "config", "fstab", "conf"}, {"config"}},
   guest |-> {"jail"}, memory |-> {}, volatile |-> {"jail"}, shared |-> {}, record |-> {"config"},
   gives |-> [rename |-> {"new_config"}],
   takes |-> [rename |-> {"config", "fstab", "conf"}],
   additive |-> {"rename", "upgrade"},
   certain |-> [delete |-> {}],
   known |-> {<<"rename", "dataset_new">>}]

TransferOps ==
  [export |-> ExportInstance, import |-> ImportInstance, delete |-> DeleteInstance]
Transfer ==
  [options |-> {{}},
   starts |-> {{"dataset", "config"}, {"dataset", "config", "jail"}},
   guest |-> {"jail"}, memory |-> {}, volatile |-> {"jail"},
   shared |-> {"tmp", "export_snap"}, record |-> {"config"},
   gives |-> [export |-> {"archive"}, import |-> {"dataset", "config"}],
   takes |-> [delete |-> {"dataset", "config"}],
   additive |-> {"export", "import"},
   certain |-> [delete |-> {}],
   known |-> {<<"export", "jail">>, <<"export", "partial">>, <<"import", "dataset">>, <<"import", "config">>}]

VolumesOps ==
  [create |-> CreateVolume, delete |-> DeleteVolume, mount |-> MountVolumeToJail,
   unmount |-> UnmountVolumeFromJail, start |-> StartInstance, stop |-> StopInstance,
   snapshot |-> SnapshotVolume, clone |-> CloneVolume, resize |-> ResizeVolume,
   query |-> ListVolumes]
Volumes ==
  [options |-> {{}},
   starts |-> {{"dataset", "config"}},
   guest |-> {"jail"}, memory |-> {}, volatile |-> {"jail", "mounts"},
   shared |-> {}, record |-> {"config"},
   gives |-> [create |-> {"vol"}, mount |-> {"mounted", "fstab"}, snapshot |-> {"vol_snap"},
              clone |-> {"vol2"}],
   takes |-> [delete |-> {"vol", "meta", "mounted", "fstab", "mounts"},
              unmount |-> {"mounted", "fstab"}],
   additive |-> {"create", "mount", "snapshot", "clone", "resize", "query"},
   certain |-> [unmount |-> {"vol", "mounted", "meta"}],
   known |-> {<<"clone", "vol2">>, <<"delete", "fstab">>, <<"delete", "mounts">>, <<"mount", "fstab">>,
              <<"mount", "mounts">>}]

DisksOps ==
  [attach |-> AttachDisk, detach |-> DetachDisk, start |-> StartInstance, stop |-> StopInstance]
Disks ==
  [options |-> {{}}, starts |-> {{"dataset", "config"}},
   guest |-> {"jail"}, memory |-> {}, volatile |-> {"jail", "mounts"},
   shared |-> {}, record |-> {"config"},
   gives |-> [attach |-> {"fstab"}],
   takes |-> [detach |-> {"fstab"}],
   additive |-> {"attach"}, certain |-> [stop |-> {}],
   known |-> {<<"attach", "mounts">>}]
=============================================================================
