---------------------------- MODULE FakeClients -----------------------------
(***************************************************************************)
(* The generated fakes of pkg/generated and the object tracker behind them *)
(* (vendored client-go/testing), which the unit tests run the driver on.   *)
(* As in TypedClients a definition stands for one generated file: it turns *)
(* a call into an action on the tracker.                                   *)
(***************************************************************************)
EXTENDS TypedClients, Functions

KubevirtGV == "kubevirt.io/v1"
CdiGV == "cdi.kubevirt.io/v1beta1"
SnapshotGV == "snapshot.storage.k8s.io/v1"

\* The action a fake method hands to Invokes.
Action(gv, ns, resource, c) ==
  [verb |-> c.verb, gv |-> gv, ns |-> ns, resource |-> resource,
   name |-> NameOf(c), obj |-> c.obj, sel |-> c.sel]

FakeWithStatus(gv, ns, resource, c) == Action(gv, ns, resource, c)

FakeNoStatus(gv, ns, resource, c) ==
  IF c.verb \in CommonVerbs THEN Action(gv, ns, resource, c)
  ELSE [verb |-> "none"]

-----------------------------------------------------------------------------
(* kubevirt.io/v1                                                          *)

FakeKubeVirts(ns, c) == FakeWithStatus(KubevirtGV, ns, "kubevirts", c)
FakeVirtualMachines(ns, c) ==
  FakeWithStatus(KubevirtGV, ns, "virtualmachines", c)
FakeVirtualMachineInstances(ns, c) ==
  FakeWithStatus(KubevirtGV, ns, "virtualmachineinstances", c)
FakeVirtualMachineInstanceMigrations(ns, c) ==
  FakeWithStatus(KubevirtGV, ns, "virtualmachineinstancemigrations", c)
FakeVirtualMachineInstancePresets(ns, c) ==
  FakeNoStatus(KubevirtGV, ns, "virtualmachineinstancepresets", c)
FakeVirtualMachineInstanceReplicaSets(ns, c) ==
  FakeWithStatus(KubevirtGV, ns, "virtualmachineinstancereplicasets", c)

FakeKubevirtV1(kind, ns, c) ==
  CASE kind = "KubeVirt" -> FakeKubeVirts(ns, c)
    [] kind = "VirtualMachine" -> FakeVirtualMachines(ns, c)
    [] kind = "VirtualMachineInstance" -> FakeVirtualMachineInstances(ns, c)
    [] kind = "VirtualMachineInstanceMigration" ->
         FakeVirtualMachineInstanceMigrations(ns, c)
    [] kind = "VirtualMachineInstancePreset" ->
         FakeVirtualMachineInstancePresets(ns, c)
    [] kind = "VirtualMachineInstanceReplicaSet" ->
         FakeVirtualMachineInstanceReplicaSets(ns, c)

-----------------------------------------------------------------------------
(* cdi.kubevirt.io/v1beta1                                                 *)

FakeCDIs(c) == FakeWithStatus(CdiGV, "", "cdis", c)
FakeCDIConfigs(c) == FakeWithStatus(CdiGV, "", "cdiconfigs", c)
FakeDataImportCrons(ns, c) == FakeWithStatus(CdiGV, ns, "dataimportcrons", c)
\* Mutant of FakeDataSources: the resource of its neighbour.
FakeDataSourcesPasted(ns, c) == FakeWithStatus(CdiGV, ns, "dataimportcrons", c)

FakeDataSources(ns, c) == FakeWithStatus(CdiGV, ns, "datasources", c)
FakeDataVolumes(ns, c) == FakeWithStatus(CdiGV, ns, "datavolumes", c)
FakeObjectTransfers(c) == FakeWithStatus(CdiGV, "", "objecttransfers", c)
FakeStorageProfiles(c) == FakeWithStatus(CdiGV, "", "storageprofiles", c)
FakeVolumeCloneSources(ns, c) ==
  FakeNoStatus(CdiGV, ns, "volumeclonesources", c)
FakeVolumeImportSources(ns, c) ==
  FakeWithStatus(CdiGV, ns, "volumeimportsources", c)
FakeVolumeUploadSources(ns, c) ==
  FakeWithStatus(CdiGV, ns, "volumeuploadsources", c)

FakeCdiV1beta1(kind, ns, c) ==
  CASE kind = "CDI" -> FakeCDIs(c)
    [] kind = "CDIConfig" -> FakeCDIConfigs(c)
    [] kind = "DataImportCron" -> FakeDataImportCrons(ns, c)
    [] kind = "DataSource" -> FakeDataSources(ns, c)
    [] kind = "DataVolume" -> FakeDataVolumes(ns, c)
    [] kind = "ObjectTransfer" -> FakeObjectTransfers(c)
    [] kind = "StorageProfile" -> FakeStorageProfiles(c)
    [] kind = "VolumeCloneSource" -> FakeVolumeCloneSources(ns, c)
    [] kind = "VolumeImportSource" -> FakeVolumeImportSources(ns, c)
    [] kind = "VolumeUploadSource" -> FakeVolumeUploadSources(ns, c)

-----------------------------------------------------------------------------
(* snapshot.storage.k8s.io/v1                                              *)

FakeVolumeSnapshots(ns, c) ==
  FakeWithStatus(SnapshotGV, ns, "volumesnapshots", c)
FakeVolumeSnapshotClasses(c) ==
  FakeNoStatus(SnapshotGV, "", "volumesnapshotclasses", c)
FakeVolumeSnapshotContents(c) ==
  FakeWithStatus(SnapshotGV, "", "volumesnapshotcontents", c)

FakeSnapshotV1(kind, ns, c) ==
  CASE kind = "VolumeSnapshot" -> FakeVolumeSnapshots(ns, c)
    [] kind = "VolumeSnapshotClass" -> FakeVolumeSnapshotClasses(c)
    [] kind = "VolumeSnapshotContent" -> FakeVolumeSnapshotContents(c)

-----------------------------------------------------------------------------
(* The object tracker: a store is a function from the keys of the objects  *)
(* that exist to the objects.                                              *)

Nil == [name |-> "nil", lab |-> FALSE, spec |-> 0, status |-> 0]
Key(gv, resource, ns, name) == <<gv, resource, ns, name>>
Put(store, k, obj) ==
  [x \in {k} \union DOMAIN store |-> IF x = k THEN obj ELSE store[x]]
Drop(store, ks) == Restrict(store, DOMAIN store \ ks)
Answer(store, err, val) == [store |-> store, err |-> err, val |-> val]

\* The objects of one resource in one namespace; "" stands for all of them.
InScope(store, gv, resource, ns) ==
  {k \in DOMAIN store : k[1] = gv /\ k[2] = resource /\ (ns = "" \/ k[3] = ns)}

\* tracker.add with and without replaceExisting: the whole object is stored as it
\* comes, whatever its resource version and whichever subresource it is for.
Add(store, a, replaceExisting) ==
  LET k == Key(a.gv, a.resource, a.ns, a.obj.name)
  IN CASE k \in DOMAIN store /\ ~replaceExisting ->
            Answer(store, "AlreadyExists", Nil)
       [] k \notin DOMAIN store /\ replaceExisting ->
            Answer(store, "NotFound", Nil)
       [] OTHER -> Answer(Put(store, k, a.obj), "", a.obj)

\* ObjectReaction, as NewSimpleClientset installs it for every verb and resource,
\* and the watch reactor. The watcher it returns tells of later changes only: of
\* the objects there are it says nothing. DeleteCollection has no case there:
\* Invokes falls through to its default and reports success.
React(store, a) ==
  LET k == Key(a.gv, a.resource, a.ns, a.name)
      scope == InScope(store, a.gv, a.resource, a.ns)
  IN CASE a.verb = "Get" ->
            IF k \in DOMAIN store THEN Answer(store, "", store[k])
            ELSE Answer(store, "NotFound", Nil)
       [] a.verb = "List" -> Answer(store, "", Restrict(store, scope))
       [] a.verb = "Watch" -> Answer(store, "", <<>>)
       [] a.verb = "Create" -> Add(store, a, FALSE)
       [] a.verb \in {"Update", "UpdateStatus"} -> Add(store, a, TRUE)
       [] a.verb = "Delete" ->
            IF k \in DOMAIN store THEN Answer(Drop(store, {k}), "", Nil)
            ELSE Answer(store, "NotFound", Nil)
       [] a.verb = "Patch" ->
            IF k \notin DOMAIN store THEN Answer(store, "NotFound", Nil)
            ELSE LET new == [store[k] EXCEPT !.spec = a.obj.spec,
                                             !.status = a.obj.status]
                 IN Answer(Put(store, k, new), "", new)
       [] a.verb = "DeleteCollection" -> Answer(store, "", Nil)

\* Mutant of FakeResult: List returns what the tracker holds.
FakeResultUnfiltered(a, ans) == ans

\* What the fake makes of the reaction: its List applies the label selector.
FakeResult(a, ans) ==
  IF a.verb = "List"
  THEN [ans EXCEPT !.val = Restrict(@, {k \in DOMAIN @ : a.sel => @[k].lab})]
  ELSE ans
=============================================================================
