---------------------------- MODULE TypedClients ----------------------------
(***************************************************************************)
(* The generated clients of pkg/generated: for each of 19 kinds a typed    *)
(* client that turns a method call into one REST request, and a fake that  *)
(* turns it into an action on the object tracker used by the unit tests.   *)
(* Every file is the same nine methods over a resource name, a scope and   *)
(* the presence of UpdateStatus; a definition here stands for one file.    *)
(*                                                                         *)
(* A call is a record [verb, name, obj, fresh, sel, sub]: fresh says that  *)
(* the object carries the current resource version, sel that the list      *)
(* options carry a label selector, sub is the subresource of a Patch.      *)
(***************************************************************************)

\* Methods of every client, and the one generated only for types with a Status.
CommonVerbs == {"Get", "List", "Watch", "Create", "Update", "Delete",
                "DeleteCollection", "Patch"}
NoMethod == [http |-> "none"]

HTTP == [Get |-> "GET", List |-> "GET", Watch |-> "GET", Create |-> "POST",
         Update |-> "PUT", UpdateStatus |-> "PUT", Delete |-> "DELETE",
         DeleteCollection |-> "DELETE", Patch |-> "PATCH"]

NameOf(c) ==
  CASE c.verb \in {"Get", "Delete", "Patch"} -> c.name
    [] c.verb \in {"Update", "UpdateStatus"} -> c.obj.name
    [] OTHER -> ""

SubResource(c) ==
  CASE c.verb = "UpdateStatus" -> "status"
    [] c.verb = "Patch" -> c.sub
    [] OTHER -> ""

\* client is the group's REST client: the group version it was configured with.
Request(client, ns, resource, c) ==
  [http |-> HTTP[c.verb], gv |-> client, ns |-> ns, resource |-> resource,
   name |-> NameOf(c), sub |-> SubResource(c), watch |-> c.verb = "Watch",
   sel |-> c.sel, body |-> c.obj, fresh |-> c.fresh]

WithStatus(client, ns, resource, c) == Request(client, ns, resource, c)

NoStatus(client, ns, resource, c) ==
  IF c.verb \in CommonVerbs THEN Request(client, ns, resource, c) ELSE NoMethod

-----------------------------------------------------------------------------
(* kubevirt.io/v1                                                          *)

kubeVirts(client, ns, c) == WithStatus(client, ns, "kubevirts", c)
virtualMachines(client, ns, c) == WithStatus(client, ns, "virtualmachines", c)
virtualMachineInstances(client, ns, c) ==
  WithStatus(client, ns, "virtualmachineinstances", c)
virtualMachineInstanceMigrations(client, ns, c) ==
  WithStatus(client, ns, "virtualmachineinstancemigrations", c)
virtualMachineInstancePresets(client, ns, c) ==
  NoStatus(client, ns, "virtualmachineinstancepresets", c)
virtualMachineInstanceReplicaSets(client, ns, c) ==
  WithStatus(client, ns, "virtualmachineinstancereplicasets", c)

\* The getters of KubevirtV1Client.
KubevirtV1(client, kind, ns, c) ==
  CASE kind = "KubeVirt" -> kubeVirts(client, ns, c)
    [] kind = "VirtualMachine" -> virtualMachines(client, ns, c)
    [] kind = "VirtualMachineInstance" -> virtualMachineInstances(client, ns, c)
    [] kind = "VirtualMachineInstanceMigration" ->
         virtualMachineInstanceMigrations(client, ns, c)
    [] kind = "VirtualMachineInstancePreset" ->
         virtualMachineInstancePresets(client, ns, c)
    [] kind = "VirtualMachineInstanceReplicaSet" ->
         virtualMachineInstanceReplicaSets(client, ns, c)

-----------------------------------------------------------------------------
(* cdi.kubevirt.io/v1beta1                                                 *)

cDIs(client, c) == WithStatus(client, "", "cdis", c)
cDIConfigs(client, c) == WithStatus(client, "", "cdiconfigs", c)
dataImportCrons(client, ns, c) == WithStatus(client, ns, "dataimportcrons", c)
dataSources(client, ns, c) == WithStatus(client, ns, "datasources", c)
dataVolumes(client, ns, c) == WithStatus(client, ns, "datavolumes", c)
objectTransfers(client, c) == WithStatus(client, "", "objecttransfers", c)
storageProfiles(client, c) == WithStatus(client, "", "storageprofiles", c)
volumeCloneSources(client, ns, c) == NoStatus(client, ns, "volumeclonesources", c)
volumeImportSources(client, ns, c) ==
  WithStatus(client, ns, "volumeimportsources", c)
volumeUploadSources(client, ns, c) ==
  WithStatus(client, ns, "volumeuploadsources", c)

\* The getters of CdiV1beta1Client.
CdiV1beta1(client, kind, ns, c) ==
  CASE kind = "CDI" -> cDIs(client, c)
    [] kind = "CDIConfig" -> cDIConfigs(client, c)
    [] kind = "DataImportCron" -> dataImportCrons(client, ns, c)
    [] kind = "DataSource" -> dataSources(client, ns, c)
    [] kind = "DataVolume" -> dataVolumes(client, ns, c)
    [] kind = "ObjectTransfer" -> objectTransfers(client, c)
    [] kind = "StorageProfile" -> storageProfiles(client, c)
    [] kind = "VolumeCloneSource" -> volumeCloneSources(client, ns, c)
    [] kind = "VolumeImportSource" -> volumeImportSources(client, ns, c)
    [] kind = "VolumeUploadSource" -> volumeUploadSources(client, ns, c)

-----------------------------------------------------------------------------
(* snapshot.storage.k8s.io/v1                                              *)

volumeSnapshots(client, ns, c) == WithStatus(client, ns, "volumesnapshots", c)
volumeSnapshotClasses(client, c) ==
  NoStatus(client, "", "volumesnapshotclasses", c)
volumeSnapshotContents(client, c) ==
  WithStatus(client, "", "volumesnapshotcontents", c)

\* The getters of SnapshotV1Client.
SnapshotV1(client, kind, ns, c) ==
  CASE kind = "VolumeSnapshot" -> volumeSnapshots(client, ns, c)
    [] kind = "VolumeSnapshotClass" -> volumeSnapshotClasses(client, c)
    [] kind = "VolumeSnapshotContent" -> volumeSnapshotContents(client, c)
=============================================================================
