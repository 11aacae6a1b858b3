-------------------------- MODULE ClientsetProofs ---------------------------
(***************************************************************************)
(* Proofs about Clientset for every set of object names and any pair of    *)
(* namespaces.                                                             *)
(***************************************************************************)
EXTENDS Clientset, TLAPS

\* The namespace part of what the client of the kind sends.
Scope == IF Kinds[kind].namespaced THEN Namespace ELSE ""

\* The request and the action of a call, whichever generated file builds them.
Sent(c) == Request(Kinds[kind].gv, Scope, Kinds[kind].plural, c)
Invoked(c) == Action(Kinds[kind].gv, Scope, Kinds[kind].plural, c)

\* Where the objects of the clusters can be.
Keys ==
  {KeyOf(x, ns, name) : x \in DOMAIN Kinds, ns \in {Namespace, OtherNamespace},
                        name \in Called \union {Bystander}}

\* The inductive invariant: the shape of the state, and that every object of the
\* server is filed under its kind, so that a list of a kind holds no others.
IInv == TypeOK /\ DOMAIN server \subseteq Keys

-----------------------------------------------------------------------------
(* The 19 kinds.                                                           *)

KubevirtKinds ==
  {"KubeVirt", "VirtualMachine", "VirtualMachineInstance",
   "VirtualMachineInstanceMigration", "VirtualMachineInstancePreset",
   "VirtualMachineInstanceReplicaSet"}
CdiKinds ==
  {"CDI", "CDIConfig", "DataImportCron", "DataSource", "DataVolume",
   "ObjectTransfer", "StorageProfile", "VolumeCloneSource", "VolumeImportSource",
   "VolumeUploadSource"}
SnapshotKinds == {"VolumeSnapshot", "VolumeSnapshotClass", "VolumeSnapshotContent"}

\* The kinds, group by group.
LEMMA KindGroups ==
  /\ DOMAIN Kinds = KubevirtKinds \union CdiKinds \union SnapshotKinds
  /\ \A k \in KubevirtKinds : Kinds[k].gv = KubevirtGV
  /\ \A k \in CdiKinds : Kinds[k].gv = CdiGV
  /\ \A k \in SnapshotKinds : Kinds[k].gv = SnapshotGV
  /\ KubevirtGV # CdiGV /\ KubevirtGV # SnapshotGV /\ CdiGV # SnapshotGV
  <1>1. DOMAIN Kinds = KubevirtKinds \union CdiKinds \union SnapshotKinds
    BY DEF Kinds, KubevirtKinds, CdiKinds, SnapshotKinds
  <1>2. \A k \in KubevirtKinds : Kinds[k].gv = KubevirtGV
    BY DEF Kinds, KubevirtKinds, Row
  <1>3. \A k \in CdiKinds : Kinds[k].gv = CdiGV
    BY DEF Kinds, CdiKinds, Row
  <1>4. \A k \in SnapshotKinds : Kinds[k].gv = SnapshotGV
    BY DEF Kinds, SnapshotKinds, Row
  <1>5. KubevirtGV # CdiGV /\ KubevirtGV # SnapshotGV /\ CdiGV # SnapshotGV
    BY DEF KubevirtGV, CdiGV, SnapshotGV
  <1> QED
    BY <1>1, <1>2, <1>3, <1>4, <1>5

\* The kind a plural belongs to.
KindOf ==
  [kubevirts |-> "KubeVirt", virtualmachines |-> "VirtualMachine",
   virtualmachineinstances |-> "VirtualMachineInstance",
   virtualmachineinstancemigrations |-> "VirtualMachineInstanceMigration",
   virtualmachineinstancepresets |-> "VirtualMachineInstancePreset",
   virtualmachineinstancereplicasets |-> "VirtualMachineInstanceReplicaSet",
   cdis |-> "CDI", cdiconfigs |-> "CDIConfig", dataimportcrons |-> "DataImportCron",
   datasources |-> "DataSource", datavolumes |-> "DataVolume",
   objecttransfers |-> "ObjectTransfer", storageprofiles |-> "StorageProfile",
   volumeclonesources |-> "VolumeCloneSource",
   volumeimportsources |-> "VolumeImportSource",
   volumeuploadsources |-> "VolumeUploadSource", volumesnapshots |-> "VolumeSnapshot",
   volumesnapshotclasses |-> "VolumeSnapshotClass",
   volumesnapshotcontents |-> "VolumeSnapshotContent"]

\* No two kinds share a plural.
LEMMA PluralsDiffer ==
  ASSUME NEW j \in DOMAIN Kinds, NEW k \in DOMAIN Kinds,
         Kinds[j].plural = Kinds[k].plural
  PROVE  j = k
  <1>1. \A x \in KubevirtKinds : KindOf[Kinds[x].plural] = x
    BY DEF Kinds, KubevirtKinds, KindOf, Row
  <1>2. \A x \in CdiKinds : KindOf[Kinds[x].plural] = x
    BY DEF Kinds, CdiKinds, KindOf, Row
  <1>3. \A x \in SnapshotKinds : KindOf[Kinds[x].plural] = x
    BY DEF Kinds, SnapshotKinds, KindOf, Row
  <1>4. KindOf[Kinds[j].plural] = j /\ KindOf[Kinds[k].plural] = k
    BY <1>1, <1>2, <1>3, KindGroups
  <1> QED
    BY <1>4

\* What the typed clients and the fakes have to agree with.
HasRow(k, gv, plural, namespaced, status) ==
  /\ Kinds[k].gv = gv /\ Kinds[k].plural = plural
  /\ Kinds[k].namespaced <=> namespaced
  /\ Kinds[k].status <=> status

\* The kinds of kubevirt.io.
LEMMA KubevirtRows ==
  /\ HasRow("KubeVirt", KubevirtGV, "kubevirts", TRUE, TRUE)
  /\ HasRow("VirtualMachine", KubevirtGV, "virtualmachines", TRUE, TRUE)
  /\ HasRow("VirtualMachineInstance", KubevirtGV, "virtualmachineinstances", TRUE, TRUE)
  /\ HasRow("VirtualMachineInstanceMigration", KubevirtGV,
            "virtualmachineinstancemigrations", TRUE, TRUE)
  /\ HasRow("VirtualMachineInstancePreset", KubevirtGV,
            "virtualmachineinstancepresets", TRUE, FALSE)
  /\ HasRow("VirtualMachineInstanceReplicaSet", KubevirtGV,
            "virtualmachineinstancereplicasets", TRUE, TRUE)
  BY DEF HasRow, Kinds, Row

\* The kinds of cdi.kubevirt.io.
LEMMA CdiRows ==
  /\ HasRow("CDI", CdiGV, "cdis", FALSE, TRUE)
  /\ HasRow("CDIConfig", CdiGV, "cdiconfigs", FALSE, TRUE)
  /\ HasRow("DataImportCron", CdiGV, "dataimportcrons", TRUE, TRUE)
  /\ HasRow("DataSource", CdiGV, "datasources", TRUE, TRUE)
  /\ HasRow("DataVolume", CdiGV, "datavolumes", TRUE, TRUE)
  /\ HasRow("ObjectTransfer", CdiGV, "objecttransfers", FALSE, TRUE)
  /\ HasRow("StorageProfile", CdiGV, "storageprofiles", FALSE, TRUE)
  /\ HasRow("VolumeCloneSource", CdiGV, "volumeclonesources", TRUE, FALSE)
  /\ HasRow("VolumeImportSource", CdiGV, "volumeimportsources", TRUE, TRUE)
  /\ HasRow("VolumeUploadSource", CdiGV, "volumeuploadsources", TRUE, TRUE)
  BY DEF HasRow, Kinds, Row

\* The kinds of snapshot.storage.k8s.io.
LEMMA SnapshotRows ==
  /\ HasRow("VolumeSnapshot", SnapshotGV, "volumesnapshots", TRUE, TRUE)
  /\ HasRow("VolumeSnapshotClass", SnapshotGV, "volumesnapshotclasses", FALSE, FALSE)
  /\ HasRow("VolumeSnapshotContent", SnapshotGV, "volumesnapshotcontents", FALSE, TRUE)
  BY DEF HasRow, Kinds, Row

\* The call has a method in the generated client of the kind.
HasMethod(c) == c.verb \in CommonVerbs \/ Kinds[kind].status

\* Every typed client sends the kind's own resource, scope and group version.
LEMMA RequestIs ==
  ASSUME kind \in DOMAIN Kinds, clients = setConfigDefaults, NEW c, HasMethod(c)
  PROVE  RequestOf(c) = Sent(c)
  <1>0. /\ clients.kubevirtV1 = KubevirtGV /\ clients.cdiV1beta1 = CdiGV
        /\ clients.snapshotV1 = SnapshotGV
    BY DEF setConfigDefaults
  <1>1. CASE kind \in KubevirtKinds
    <2>1. RequestOf(c) = KubevirtV1(KubevirtGV, kind, Namespace, c)
      BY <1>0, <1>1, KindGroups DEF RequestOf
    <2>2. KubevirtV1(KubevirtGV, kind, Namespace, c) = Sent(c)
      BY <1>1, KubevirtRows DEF KubevirtV1, KubevirtKinds, HasRow, Sent, Scope, HasMethod,
         WithStatus, NoStatus, kubeVirts, virtualMachines, virtualMachineInstances,
         virtualMachineInstanceMigrations, virtualMachineInstancePresets,
         virtualMachineInstanceReplicaSets
    <2> QED
      BY <2>1, <2>2
  <1>2. CASE kind \in CdiKinds
    <2>1. RequestOf(c) = CdiV1beta1(CdiGV, kind, Namespace, c)
      BY <1>0, <1>2, KindGroups DEF RequestOf
    <2>2. CdiV1beta1(CdiGV, kind, Namespace, c) = Sent(c)
      <3>1. CASE kind \in {"CDI", "CDIConfig", "DataImportCron", "DataSource"}
        BY <3>1, CdiRows DEF CdiV1beta1, HasRow, Sent, Scope, HasMethod, WithStatus,
           NoStatus, cDIs, cDIConfigs, dataImportCrons, dataSources
      <3>2. CASE kind \in {"DataVolume", "ObjectTransfer", "StorageProfile"}
        BY <3>2, CdiRows DEF CdiV1beta1, HasRow, Sent, Scope, HasMethod, WithStatus,
           NoStatus, dataVolumes, objectTransfers, storageProfiles
      <3>3. CASE kind \in {"VolumeCloneSource", "VolumeImportSource", "VolumeUploadSource"}
        BY <3>3, CdiRows DEF CdiV1beta1, HasRow, Sent, Scope, HasMethod, WithStatus,
           NoStatus, volumeCloneSources, volumeImportSources, volumeUploadSources
      <3> QED
        BY <1>2, <3>1, <3>2, <3>3 DEF CdiKinds
    <2> QED
      BY <2>1, <2>2
  <1>3. CASE kind \in SnapshotKinds
    <2>1. RequestOf(c) = SnapshotV1(SnapshotGV, kind, Namespace, c)
      BY <1>0, <1>3, KindGroups DEF RequestOf
    <2>2. SnapshotV1(SnapshotGV, kind, Namespace, c) = Sent(c)
      BY <1>3, SnapshotRows DEF SnapshotV1, SnapshotKinds, HasRow, Sent, Scope, HasMethod,
         WithStatus, NoStatus, volumeSnapshots, volumeSnapshotClasses,
         volumeSnapshotContents
    <2> QED
      BY <2>1, <2>2
  <1> QED
    BY <1>1, <1>2, <1>3, KindGroups

\* And every fake acts on the same resource and scope.
LEMMA ActionIs ==
  ASSUME kind \in DOMAIN Kinds, NEW c, HasMethod(c)
  PROVE  ActionOf(c) = Invoked(c)
  <1>1. CASE kind \in KubevirtKinds
    <2>1. ActionOf(c) = FakeKubevirtV1(kind, Namespace, c)
      BY <1>1, KindGroups DEF ActionOf
    <2>2. FakeKubevirtV1(kind, Namespace, c) = Invoked(c)
      BY <1>1, KubevirtRows DEF FakeKubevirtV1, KubevirtKinds, HasRow, Invoked, Scope,
         HasMethod, FakeWithStatus, FakeNoStatus, FakeKubeVirts, FakeVirtualMachines,
         FakeVirtualMachineInstances, FakeVirtualMachineInstanceMigrations,
         FakeVirtualMachineInstancePresets, FakeVirtualMachineInstanceReplicaSets
    <2> QED
      BY <2>1, <2>2
  <1>2. CASE kind \in CdiKinds
    <2>1. ActionOf(c) = FakeCdiV1beta1(kind, Namespace, c)
      BY <1>2, KindGroups DEF ActionOf
    <2>2. FakeCdiV1beta1(kind, Namespace, c) = Invoked(c)
      <3>1. CASE kind \in {"CDI", "CDIConfig", "DataImportCron", "DataSource"}
        BY <3>1, CdiRows DEF FakeCdiV1beta1, HasRow, Invoked, Scope, HasMethod,
           FakeWithStatus, FakeNoStatus,
           FakeCDIs, FakeCDIConfigs, FakeDataImportCrons, FakeDataSources
      <3>2. CASE kind \in {"DataVolume", "ObjectTransfer", "StorageProfile"}
        BY <3>2, CdiRows DEF FakeCdiV1beta1, HasRow, Invoked, Scope, HasMethod,
           FakeWithStatus, FakeNoStatus,
           FakeDataVolumes, FakeObjectTransfers, FakeStorageProfiles
      <3>3. CASE kind \in {"VolumeCloneSource", "VolumeImportSource", "VolumeUploadSource"}
        BY <3>3, CdiRows DEF FakeCdiV1beta1, HasRow, Invoked, Scope, HasMethod,
           FakeWithStatus, FakeNoStatus,
           FakeVolumeCloneSources, FakeVolumeImportSources, FakeVolumeUploadSources
      <3> QED
        BY <1>2, <3>1, <3>2, <3>3 DEF CdiKinds
    <2> QED
      BY <2>1, <2>2
  <1>3. CASE kind \in SnapshotKinds
    <2>1. ActionOf(c) = FakeSnapshotV1(kind, Namespace, c)
      BY <1>3, KindGroups DEF ActionOf
    <2>2. FakeSnapshotV1(kind, Namespace, c) = Invoked(c)
      BY <1>3, SnapshotRows DEF FakeSnapshotV1, SnapshotKinds, HasRow, Invoked, Scope,
         HasMethod, FakeWithStatus, FakeNoStatus, FakeVolumeSnapshots,
         FakeVolumeSnapshotClasses, FakeVolumeSnapshotContents
    <2> QED
      BY <2>1, <2>2
  <1> QED
    BY <1>1, <1>2, <1>3, KindGroups

-----------------------------------------------------------------------------
(* One call.                                                               *)

\* The key of the object a call names.
Own(c) == KeyOf(kind, Namespace, c.name)

\* The objects a list call selects.
Selected(store, c) ==
  {j \in InScope(store, Kinds[kind].gv, Kinds[kind].plural, Scope) : c.sel => store[j].lab}

\* The parts of a call.
LEMMA CallParts ==
  ASSUME kind \in DOMAIN Kinds, NEW c \in MethodCalls
  PROVE  /\ c.verb \in CommonVerbs \union {"UpdateStatus"} /\ HasMethod(c)
         /\ c.name \in Called /\ c.name # "" /\ c.obj.name = c.name
         /\ c.obj \in [name : Called, lab : BOOLEAN, spec : 0..1, status : 0..1]
         /\ c.sel \in BOOLEAN /\ c.fresh \in BOOLEAN /\ c.sub \in {"", "status"}
         /\ c.sub = "status" \/ c.verb = "UpdateStatus" => Kinds[kind].status
         /\ c.verb # "Patch" => c.sub = ""
  <1>1. /\ c.verb \in CommonVerbs \union {"UpdateStatus"} /\ c.name \in Called
        /\ c.obj \in [name : Called, lab : BOOLEAN, spec : 0..1, status : 0..1]
        /\ c.sel \in BOOLEAN /\ c.fresh \in BOOLEAN /\ c.sub \in {"", "status"}
    BY DEF MethodCalls, Calls
  <1>2. /\ c.obj.name = c.name
        /\ c.sub = "status" \/ c.verb = "UpdateStatus" => Kinds[kind].status
        /\ c.verb # "Patch" => c.sub = ""
    BY DEF MethodCalls, Distinct
  <1> QED
    BY <1>1, <1>2, ClientsetAssumption DEF HasMethod

\* The key of the request and of the action.
LEMMA OwnKey ==
  ASSUME kind \in DOMAIN Kinds, NEW c
  PROVE  Own(c) = Key(Kinds[kind].gv, Kinds[kind].plural, Scope, c.name)
  BY DEF Own, KeyOf, Scope

\* The API server knows every resource the typed clients ask for.
LEMMA AlwaysRouted ==
  ASSUME kind \in DOMAIN Kinds, NEW c \in MethodCalls
  PROVE  Routed(Sent(c)) /\ (HasStatus(Sent(c)) <=> Kinds[kind].status)
  <1>1. /\ Sent(c).gv = Kinds[kind].gv /\ Sent(c).resource = Kinds[kind].plural
        /\ Sent(c).ns = Scope /\ Sent(c).sub = SubResource(c)
    BY DEF Sent, Request
  <1>2. Kinds[kind].namespaced <=> Scope # ""
    BY ClientsetAssumption DEF Scope
  <1>3. SubResource(c) = "status" => Kinds[kind].status
    BY CallParts DEF SubResource
  <1>4. Routed(Sent(c))
    BY <1>1, <1>2, <1>3 DEF Routed
  <1>5. HasStatus(Sent(c)) <=> Kinds[kind].status
    BY <1>1, PluralsDiffer DEF HasStatus
  <1> QED
    BY <1>4, <1>5

\* An answer, part by part.
Gives(answer, store, err, val) ==
  answer.store = store /\ answer.err = err /\ answer.val = val

\* The parts of an answer.
LEMMA AnswerGives ==
  ASSUME NEW store, NEW err, NEW val
  PROVE  Gives(Answer(store, err, val), store, err, val)
  BY DEF Gives, Answer

\* The HTTP methods.
LEMMA Methods ==
  /\ HTTP["Get"] = "GET" /\ HTTP["List"] = "GET" /\ HTTP["Watch"] = "GET"
  /\ HTTP["Create"] = "POST" /\ HTTP["Update"] = "PUT" /\ HTTP["UpdateStatus"] = "PUT"
  /\ HTTP["Delete"] = "DELETE" /\ HTTP["DeleteCollection"] = "DELETE"
  /\ HTTP["Patch"] = "PATCH"
  BY DEF HTTP

\* The name in the path.
LEMMA Names ==
  ASSUME kind \in DOMAIN Kinds, NEW c \in MethodCalls
  PROVE  NameOf(c) = IF c.verb \in Lists \union {"Create"} THEN "" ELSE c.name
  <1>1. CASE c.verb \in {"Get", "Delete", "Patch"}
    BY <1>1 DEF NameOf, Lists
  <1>2. CASE c.verb \in {"Update", "UpdateStatus"}
    BY <1>2, CallParts DEF NameOf, Lists
  <1>3. CASE c.verb \in Lists \union {"Create"}
    BY <1>3 DEF NameOf, Lists
  <1> QED
    BY <1>1, <1>2, <1>3, CallParts DEF CommonVerbs, Lists

\* The typed client hands on an answer without an error.
LEMMA ReturnsValue ==
  ASSUME NEW c, NEW store, NEW val
  PROVE  Gives(Into(c, Answer(store, "", val)), store, "", val)
  <1>1. Gives(Answer(store, "", val), store, "", val)
    BY AnswerGives
  <1>2. Into(c, Answer(store, "", val)) = Answer(store, "", val)
    BY <1>1 DEF Into, Gives
  <1> QED
    BY <1>1, <1>2

\* The answer with another object in it.
LEMMA EmptyAnswer ==
  ASSUME NEW store, NEW err, NEW val
  PROVE  [Answer(store, err, val) EXCEPT !.val = Empty] = Answer(store, err, Empty)
  BY DEF Answer

\* With an error it returns the object allocated before the call.
LEMMA ReturnsError ==
  ASSUME NEW c, c.verb \notin Lists, NEW store, NEW err, err # "", NEW val
  PROVE  Gives(Into(c, Answer(store, err, val)), store, err, Empty)
  <1>1. Answer(store, err, val).err = err
    BY DEF Answer
  <1>2. [Answer(store, err, val) EXCEPT !.val = Empty] = Answer(store, err, Empty)
    BY EmptyAnswer
  <1>3. Into(c, Answer(store, err, val)) = Answer(store, err, Empty)
    BY <1>1, <1>2 DEF Into
  <1> QED
    BY <1>3, AnswerGives

\* The request the server sees.
LEMMA SentIs ==
  ASSUME kind \in DOMAIN Kinds, NEW c \in MethodCalls
  PROVE  /\ Sent(c).gv = Kinds[kind].gv /\ Sent(c).resource = Kinds[kind].plural
         /\ Sent(c).ns = Scope /\ Sent(c).sub = SubResource(c) /\ Sent(c).body = c.obj
         /\ Sent(c).name = NameOf(c) /\ Sent(c).http = HTTP[c.verb]
         /\ Sent(c).fresh = c.fresh /\ Sent(c).sel = c.sel
         /\ c.verb \notin Lists =>
              Key(Sent(c).gv, Sent(c).resource, Sent(c).ns,
                  IF Sent(c).http = "POST" THEN Sent(c).body.name ELSE Sent(c).name)
                = Own(c)
  <1>1. /\ Sent(c).gv = Kinds[kind].gv /\ Sent(c).resource = Kinds[kind].plural
        /\ Sent(c).ns = Scope /\ Sent(c).sub = SubResource(c) /\ Sent(c).body = c.obj
        /\ Sent(c).name = NameOf(c) /\ Sent(c).http = HTTP[c.verb]
        /\ Sent(c).fresh = c.fresh /\ Sent(c).sel = c.sel
    BY DEF Sent, Request
  <1>2. ASSUME c.verb \notin Lists
        PROVE  (IF Sent(c).http = "POST" THEN Sent(c).body.name ELSE Sent(c).name) = c.name
    <2>1. CASE c.verb = "Create"
      <3>1. Sent(c).http = "POST" /\ Sent(c).body.name = c.obj.name
        BY <1>1, <2>1, Methods
      <3>2. c.obj.name = c.name
        BY CallParts
      <3> QED
        BY <3>1, <3>2
    <2>2. CASE c.verb # "Create"
      <3>1. NameOf(c) = c.name
        BY <1>2, <2>2, Names
      <3>2. HTTP[c.verb] # "POST"
        BY <1>2, <2>2, Methods, CallParts DEF CommonVerbs, Lists
      <3> QED
        BY <1>1, <3>1, <3>2
    <2> QED
      BY <2>1, <2>2
  <1> QED
    BY <1>1, <1>2, OwnKey

\* What the server makes of a call that reads or deletes.
LEMMA RealReads ==
  ASSUME kind \in DOMAIN Kinds, clients = setConfigDefaults, NEW c \in MethodCalls
  PROVE  /\ c.verb \in {"List", "Watch"} =>
              Gives(Real(c), server, "", Restrict(server, Selected(server, c)))
         /\ c.verb = "DeleteCollection" =>
              Gives(Real(c), Drop(server, Selected(server, c)), "", <<>>)
         /\ c.verb = "Get" /\ Own(c) \in DOMAIN server =>
              Gives(Real(c), server, "", server[Own(c)])
         /\ c.verb = "Delete" /\ Own(c) \in DOMAIN server =>
              Gives(Real(c), Drop(server, {Own(c)}), "", <<>>)
         /\ c.verb \in {"Get", "Delete"} /\ Own(c) \notin DOMAIN server =>
              Gives(Real(c), server, "NotFound", Empty)
  <1>1. Real(c) = Into(c, Serve(server, Sent(c)))
    BY RequestIs, CallParts DEF Real
  <1>2. c.name # ""
    BY CallParts
  <1>3. Routed(Sent(c))
    BY AlwaysRouted
  <1>4. Selected(server, c) =
          {j \in InScope(server, Sent(c).gv, Sent(c).resource, Sent(c).ns) :
             Sent(c).sel => server[j].lab}
    BY SentIs DEF Selected
  <1>5. ASSUME c.verb \in {"List", "Watch"}
        PROVE  Gives(Real(c), server, "", Restrict(server, Selected(server, c)))
    <2>1. Sent(c).http = "GET" /\ Sent(c).name = ""
      BY <1>5, SentIs, Methods, Names DEF Lists
    <2>2. Serve(server, Sent(c)) = Answer(server, "", Restrict(server, Selected(server, c)))
      BY <1>3, <1>4, <2>1 DEF Serve
    <2>3. Gives(Into(c, Answer(server, "", Restrict(server, Selected(server, c)))),
                server, "", Restrict(server, Selected(server, c)))
      BY ReturnsValue
    <2> QED
      BY <1>1, <2>2, <2>3
  <1>6. ASSUME c.verb = "DeleteCollection"
        PROVE  Gives(Real(c), Drop(server, Selected(server, c)), "", <<>>)
    <2>1. Sent(c).http = "DELETE" /\ Sent(c).name = ""
      BY <1>6, SentIs, Methods, Names DEF Lists
    <2>2. Serve(server, Sent(c)) = Answer(Drop(server, Selected(server, c)), "", <<>>)
      BY <1>3, <1>4, <2>1 DEF Serve
    <2>3. Gives(Into(c, Answer(Drop(server, Selected(server, c)), "", <<>>)),
                Drop(server, Selected(server, c)), "", <<>>)
      BY ReturnsValue
    <2> QED
      BY <1>1, <2>2, <2>3
  <1>7. ASSUME c.verb = "Get"
        PROVE  IF Own(c) \in DOMAIN server
               THEN Gives(Real(c), server, "", server[Own(c)])
               ELSE Gives(Real(c), server, "NotFound", Empty)
    <2>0. c.verb \notin Lists
      BY <1>7 DEF Lists
    <2>1. Sent(c).http = "GET" /\ Sent(c).name = c.name
      BY <1>7, SentIs, Methods, Names DEF Lists
    <2>2. Serve(server, Sent(c)) = IF Own(c) \in DOMAIN server
                                   THEN Answer(server, "", server[Own(c)])
                                   ELSE Answer(server, "NotFound", <<>>)
      BY <1>2, <2>0, <2>1, SentIs, AlwaysRouted DEF Serve
    <2>4. CASE Own(c) \in DOMAIN server
      <3>1. Serve(server, Sent(c)) = Answer(server, "", server[Own(c)])
        BY <2>2, <2>4
      <3>2. Gives(Into(c, Answer(server, "", server[Own(c)])),
                  server, "", server[Own(c)])
        BY ReturnsValue
      <3> QED
        BY <1>1, <2>4, <3>1, <3>2
    <2>5. CASE Own(c) \notin DOMAIN server
      <3>1. Serve(server, Sent(c)) = Answer(server, "NotFound", <<>>)
        BY <2>2, <2>5
      <3>2. Gives(Into(c, Answer(server, "NotFound", <<>>)),
                  server, "NotFound", Empty)
        BY <2>0, ReturnsError
      <3> QED
        BY <1>1, <2>5, <3>1, <3>2
    <2> QED
      BY <2>4, <2>5
  <1>8. ASSUME c.verb = "Delete"
        PROVE  IF Own(c) \in DOMAIN server
               THEN Gives(Real(c), Drop(server, {Own(c)}), "", <<>>)
               ELSE Gives(Real(c), server, "NotFound", Empty)
    <2>0. c.verb \notin Lists
      BY <1>8 DEF Lists
    <2>1. Sent(c).http = "DELETE" /\ Sent(c).name = c.name
      BY <1>8, SentIs, Methods, Names DEF Lists
    <2>2. Serve(server, Sent(c)) = IF Own(c) \in DOMAIN server
                                   THEN Answer(Drop(server, {Own(c)}), "", <<>>)
                                   ELSE Answer(server, "NotFound", <<>>)
      BY <1>2, <2>0, <2>1, SentIs, AlwaysRouted DEF Serve
    <2>4. CASE Own(c) \in DOMAIN server
      <3>1. Serve(server, Sent(c)) = Answer(Drop(server, {Own(c)}), "", <<>>)
        BY <2>2, <2>4
      <3>2. Gives(Into(c, Answer(Drop(server, {Own(c)}), "", <<>>)),
                  Drop(server, {Own(c)}), "", <<>>)
        BY ReturnsValue
      <3> QED
        BY <1>1, <2>4, <3>1, <3>2
    <2>5. CASE Own(c) \notin DOMAIN server
      <3>1. Serve(server, Sent(c)) = Answer(server, "NotFound", <<>>)
        BY <2>2, <2>5
      <3>2. Gives(Into(c, Answer(server, "NotFound", <<>>)),
                  server, "NotFound", Empty)
        BY <2>0, ReturnsError
      <3> QED
        BY <1>1, <2>5, <3>1, <3>2
    <2> QED
      BY <2>4, <2>5
  <1> QED
    BY <1>5, <1>6, <1>7, <1>8

\* The object a write leaves in the server.
Stored(c) ==
  CASE c.verb = "Create" -> [c.obj EXCEPT !.status = 0]
    [] c.verb = "Update" -> IF Kinds[kind].status
                            THEN [c.obj EXCEPT !.status = server[Own(c)].status]
                            ELSE c.obj
    [] c.verb = "UpdateStatus" -> [server[Own(c)] EXCEPT !.status = c.obj.status]
    [] c.verb = "Patch" -> IF c.sub = "status"
                           THEN [server[Own(c)] EXCEPT !.status = c.obj.status]
                           ELSE [server[Own(c)] EXCEPT !.spec = c.obj.spec]

\* What the server makes of a call that writes.
LEMMA RealWrites ==
  ASSUME kind \in DOMAIN Kinds, clients = setConfigDefaults, NEW c \in MethodCalls
  PROVE  /\ c.verb = "Create" /\ Own(c) \in DOMAIN server =>
              Gives(Real(c), server, "AlreadyExists", Empty)
         /\ c.verb = "Create" /\ Own(c) \notin DOMAIN server =>
              Gives(Real(c), Put(server, Own(c), Stored(c)), "", Stored(c))
         /\ c.verb \in {"Update", "UpdateStatus", "Patch"} /\ Own(c) \notin DOMAIN server =>
              Gives(Real(c), server, "NotFound", Empty)
         /\ c.verb \in {"Update", "UpdateStatus"} /\ Own(c) \in DOMAIN server /\ ~c.fresh =>
              Gives(Real(c), server, "Conflict", Empty)
         /\ /\ c.verb \in {"Update", "UpdateStatus", "Patch"} /\ Own(c) \in DOMAIN server
            /\ c.verb = "Patch" \/ c.fresh
            => Gives(Real(c), Put(server, Own(c), Stored(c)), "", Stored(c))
  <1>1. Real(c) = Into(c, Serve(server, Sent(c)))
    BY RequestIs, CallParts DEF Real
  <1>2. c.name # ""
    BY CallParts
  <1>3. ASSUME c.verb = "Create"
        PROVE  IF Own(c) \in DOMAIN server
               THEN Gives(Real(c), server, "AlreadyExists", Empty)
               ELSE Gives(Real(c), Put(server, Own(c), Stored(c)), "", Stored(c))
    <2>0. c.verb \notin Lists
      BY <1>3 DEF Lists
    <2>1. Sent(c).http = "POST"
      BY <1>3, SentIs, Methods DEF Lists
    <2>2. Stored(c) = [Sent(c).body EXCEPT !.status = 0]
      BY <1>3, SentIs DEF Stored
    <2>3. Serve(server, Sent(c)) =
            IF Own(c) \in DOMAIN server THEN Answer(server, "AlreadyExists", <<>>)
            ELSE Answer(Put(server, Own(c), Stored(c)), "", Stored(c))
      BY <2>0, <2>1, <2>2, SentIs, AlwaysRouted DEF Serve
    <2>4. CASE Own(c) \in DOMAIN server
      <3>1. Serve(server, Sent(c)) = Answer(server, "AlreadyExists", <<>>)
        BY <2>3, <2>4
      <3>2. Gives(Into(c, Answer(server, "AlreadyExists", <<>>)),
                  server, "AlreadyExists", Empty)
        BY <2>0, ReturnsError
      <3> QED
        BY <1>1, <2>4, <3>1, <3>2
    <2>5. CASE Own(c) \notin DOMAIN server
      <3>1. Serve(server, Sent(c)) = Answer(Put(server, Own(c), Stored(c)), "", Stored(c))
        BY <2>3, <2>5
      <3>2. Gives(Into(c, Answer(Put(server, Own(c), Stored(c)), "", Stored(c))),
                  Put(server, Own(c), Stored(c)), "", Stored(c))
        BY ReturnsValue
      <3> QED
        BY <1>1, <2>5, <3>1, <3>2
    <2> QED
      BY <2>4, <2>5
  <1>4. ASSUME c.verb \in {"Update", "UpdateStatus", "Patch"}
        PROVE  IF Own(c) \notin DOMAIN server
               THEN Gives(Real(c), server, "NotFound", Empty)
               ELSE IF c.verb # "Patch" /\ ~c.fresh
               THEN Gives(Real(c), server, "Conflict", Empty)
               ELSE Gives(Real(c), Put(server, Own(c), Stored(c)), "", Stored(c))
    <2>0. c.verb \notin Lists
      BY <1>4 DEF Lists
    <2>1. /\ Sent(c).http = (IF c.verb = "Patch" THEN "PATCH" ELSE "PUT")
          /\ Sent(c).name = c.name
      BY <1>4, SentIs, Methods, Names DEF Lists
    <2>2. Written(Sent(c), server[Own(c)]) = Stored(c)
      BY <1>4, <2>1, SentIs, AlwaysRouted, CallParts DEF Written, Stored, SubResource
    <2>3. Serve(server, Sent(c)) =
            IF Own(c) \notin DOMAIN server THEN Answer(server, "NotFound", <<>>)
            ELSE IF c.verb # "Patch" /\ ~c.fresh THEN Answer(server, "Conflict", <<>>)
            ELSE Answer(Put(server, Own(c), Stored(c)), "", Stored(c))
      BY <1>2, <2>0, <2>1, <2>2, SentIs, AlwaysRouted DEF Serve
    <2>4. CASE Own(c) \notin DOMAIN server
      <3>1. Serve(server, Sent(c)) = Answer(server, "NotFound", <<>>)
        BY <2>3, <2>4
      <3>2. Gives(Into(c, Answer(server, "NotFound", <<>>)),
                  server, "NotFound", Empty)
        BY <2>0, ReturnsError
      <3> QED
        BY <1>1, <2>4, <3>1, <3>2
    <2>5. CASE Own(c) \in DOMAIN server /\ c.verb # "Patch" /\ ~c.fresh
      <3>1. Serve(server, Sent(c)) = Answer(server, "Conflict", <<>>)
        BY <2>3, <2>5
      <3>2. Gives(Into(c, Answer(server, "Conflict", <<>>)),
                  server, "Conflict", Empty)
        BY <2>0, ReturnsError
      <3> QED
        BY <1>1, <2>5, <3>1, <3>2
    <2>6. CASE Own(c) \in DOMAIN server /\ ~(c.verb # "Patch" /\ ~c.fresh)
      <3>1. Serve(server, Sent(c)) = Answer(Put(server, Own(c), Stored(c)), "", Stored(c))
        BY <2>3, <2>6
      <3>2. Gives(Into(c, Answer(Put(server, Own(c), Stored(c)), "", Stored(c))),
                  Put(server, Own(c), Stored(c)), "", Stored(c))
        BY ReturnsValue
      <3> QED
        BY <1>1, <2>6, <3>1, <3>2
    <2> QED
      BY <2>4, <2>5, <2>6
  <1> QED
    BY <1>3, <1>4

\* The action the tracker sees.
LEMMA InvokedIs ==
  ASSUME kind \in DOMAIN Kinds, NEW c \in MethodCalls
  PROVE  /\ Invoked(c).verb = c.verb /\ Invoked(c).gv = Kinds[kind].gv
         /\ Invoked(c).resource = Kinds[kind].plural /\ Invoked(c).ns = Scope
         /\ Invoked(c).name = NameOf(c) /\ Invoked(c).obj = c.obj
         /\ Invoked(c).sel = c.sel
         /\ Own(c) = Key(Invoked(c).gv, Invoked(c).resource, Invoked(c).ns,
                         Invoked(c).obj.name)
         /\ c.verb \notin Lists \union {"Create"} =>
              Own(c) = Key(Invoked(c).gv, Invoked(c).resource, Invoked(c).ns,
                           Invoked(c).name)
  <1>1. /\ Invoked(c).verb = c.verb /\ Invoked(c).gv = Kinds[kind].gv
        /\ Invoked(c).resource = Kinds[kind].plural /\ Invoked(c).ns = Scope
        /\ Invoked(c).name = NameOf(c) /\ Invoked(c).obj = c.obj
        /\ Invoked(c).sel = c.sel
    BY DEF Invoked, Action
  <1>2. c.obj.name = c.name
    BY CallParts
  <1>3. c.verb \notin Lists \union {"Create"} => NameOf(c) = c.name
    BY Names
  <1> QED
    BY <1>1, <1>2, <1>3, OwnKey

\* The object a Patch leaves in the tracker.
Patched(c) == [tracker[Own(c)] EXCEPT !.spec = c.obj.spec, !.status = c.obj.status]

\* What the fake makes of a call.
LEMMA FakeIs ==
  ASSUME kind \in DOMAIN Kinds, NEW c \in MethodCalls
  PROVE  /\ c.verb = "List" =>
              Gives(Fake(c), tracker, "", Restrict(tracker, Selected(tracker, c)))
         /\ c.verb = "Watch" => Gives(Fake(c), tracker, "", <<>>)
         /\ c.verb = "DeleteCollection" => Gives(Fake(c), tracker, "", Nil)
         /\ c.verb = "Get" /\ Own(c) \in DOMAIN tracker =>
              Gives(Fake(c), tracker, "", tracker[Own(c)])
         /\ c.verb = "Delete" /\ Own(c) \in DOMAIN tracker =>
              Gives(Fake(c), Drop(tracker, {Own(c)}), "", Nil)
         /\ c.verb = "Create" /\ Own(c) \in DOMAIN tracker =>
              Gives(Fake(c), tracker, "AlreadyExists", Nil)
         /\ c.verb = "Create" /\ Own(c) \notin DOMAIN tracker =>
              Gives(Fake(c), Put(tracker, Own(c), c.obj), "", c.obj)
         /\ c.verb \in {"Update", "UpdateStatus"} /\ Own(c) \in DOMAIN tracker =>
              Gives(Fake(c), Put(tracker, Own(c), c.obj), "", c.obj)
         /\ c.verb = "Patch" /\ Own(c) \in DOMAIN tracker =>
              Gives(Fake(c), Put(tracker, Own(c), Patched(c)), "", Patched(c))
         /\ /\ c.verb \in {"Get", "Delete", "Update", "UpdateStatus", "Patch"}
            /\ Own(c) \notin DOMAIN tracker
            => Gives(Fake(c), tracker, "NotFound", Nil)
  <1> DEFINE a == Invoked(c)
             scope == InScope(tracker, Kinds[kind].gv, Kinds[kind].plural, Scope)
  <1>1. Fake(c) = FakeResult(a, React(tracker, a))
    BY ActionIs, CallParts DEF Fake
  <1>2. c.verb # "List" => Fake(c) = React(tracker, a)
    BY <1>1, InvokedIs DEF FakeResult
  <1> HIDE DEF a
  <1>3. /\ a.verb = c.verb /\ a.obj = c.obj /\ a.sel = c.sel
        /\ scope = InScope(tracker, a.gv, a.resource, a.ns)
        /\ Own(c) = Key(a.gv, a.resource, a.ns, a.obj.name)
        /\ c.verb \notin Lists \union {"Create"} =>
             Own(c) = Key(a.gv, a.resource, a.ns, a.name)
    BY InvokedIs DEF a
  <1> HIDE DEF scope
  <1>4. ASSUME c.verb = "List"
        PROVE  Gives(Fake(c), tracker, "", Restrict(tracker, Selected(tracker, c)))
    <2>1. React(tracker, a) = Answer(tracker, "", Restrict(tracker, scope))
      BY <1>3, <1>4 DEF React
    <2>2. Restrict(Restrict(tracker, scope),
                   {k \in DOMAIN Restrict(tracker, scope) :
                      c.sel => Restrict(tracker, scope)[k].lab})
            = Restrict(tracker, Selected(tracker, c))
      BY DEF Restrict, Selected, scope
    <2>3. FakeResult(a, Answer(tracker, "", Restrict(tracker, scope)))
            = Answer(tracker, "", Restrict(tracker, Selected(tracker, c)))
      BY <1>3, <1>4, <2>2 DEF FakeResult, Answer
    <2>4. Gives(Answer(tracker, "", Restrict(tracker, Selected(tracker, c))),
                tracker, "", Restrict(tracker, Selected(tracker, c)))
      BY AnswerGives
    <2> QED
      BY <1>1, <2>1, <2>3, <2>4
  <1>5. ASSUME c.verb = "Watch"
        PROVE  Gives(Fake(c), tracker, "", <<>>)
    <2>1. React(tracker, a) = Answer(tracker, "", <<>>)
      BY <1>3, <1>5 DEF React
    <2>2. Gives(Answer(tracker, "", <<>>), tracker, "", <<>>)
      BY AnswerGives
    <2> QED
      BY <1>2, <1>5, <2>1, <2>2
  <1>6. ASSUME c.verb = "DeleteCollection"
        PROVE  Gives(Fake(c), tracker, "", Nil)
    <2>1. React(tracker, a) = Answer(tracker, "", Nil)
      BY <1>3, <1>6 DEF React
    <2>2. Gives(Answer(tracker, "", Nil),
                tracker, "", Nil)
      BY AnswerGives
    <2> QED
      BY <1>2, <1>6, <2>1, <2>2
  <1>7. ASSUME c.verb = "Get", Own(c) \in DOMAIN tracker
        PROVE  Gives(Fake(c), tracker, "", tracker[Own(c)])
    <2>1. React(tracker, a) = Answer(tracker, "", tracker[Own(c)])
      BY <1>3, <1>7 DEF React, Lists
    <2>2. Gives(Answer(tracker, "", tracker[Own(c)]),
                tracker, "", tracker[Own(c)])
      BY AnswerGives
    <2> QED
      BY <1>2, <1>7, <2>1, <2>2
  <1>8. ASSUME c.verb = "Delete", Own(c) \in DOMAIN tracker
        PROVE  Gives(Fake(c), Drop(tracker, {Own(c)}), "", Nil)
    <2>1. React(tracker, a) = Answer(Drop(tracker, {Own(c)}), "", Nil)
      BY <1>3, <1>8 DEF React, Lists
    <2>2. Gives(Answer(Drop(tracker, {Own(c)}), "", Nil),
                Drop(tracker, {Own(c)}), "", Nil)
      BY AnswerGives
    <2> QED
      BY <1>2, <1>8, <2>1, <2>2
  <1>9. ASSUME c.verb = "Create", Own(c) \in DOMAIN tracker
        PROVE  Gives(Fake(c), tracker, "AlreadyExists", Nil)
    <2>1. React(tracker, a) = Answer(tracker, "AlreadyExists", Nil)
      BY <1>3, <1>9 DEF React, Add
    <2>2. Gives(Answer(tracker, "AlreadyExists", Nil),
                tracker, "AlreadyExists", Nil)
      BY AnswerGives
    <2> QED
      BY <1>2, <1>9, <2>1, <2>2
  <1>10. ASSUME c.verb = "Create", Own(c) \notin DOMAIN tracker
        PROVE  Gives(Fake(c), Put(tracker, Own(c), c.obj), "", c.obj)
    <2>1. React(tracker, a) = Answer(Put(tracker, Own(c), c.obj), "", c.obj)
      BY <1>3, <1>10 DEF React, Add
    <2>2. Gives(Answer(Put(tracker, Own(c), c.obj), "", c.obj),
                Put(tracker, Own(c), c.obj), "", c.obj)
      BY AnswerGives
    <2> QED
      BY <1>2, <1>10, <2>1, <2>2
  <1>11. ASSUME c.verb \in {"Update", "UpdateStatus"}, Own(c) \in DOMAIN tracker
        PROVE  Gives(Fake(c), Put(tracker, Own(c), c.obj), "", c.obj)
    <2>1. React(tracker, a) = Answer(Put(tracker, Own(c), c.obj), "", c.obj)
      BY <1>3, <1>11 DEF React, Add
    <2>2. Gives(Answer(Put(tracker, Own(c), c.obj), "", c.obj),
                Put(tracker, Own(c), c.obj), "", c.obj)
      BY AnswerGives
    <2> QED
      BY <1>2, <1>11, <2>1, <2>2
  <1>12. ASSUME c.verb = "Patch", Own(c) \in DOMAIN tracker
        PROVE  Gives(Fake(c), Put(tracker, Own(c), Patched(c)), "", Patched(c))
    <2>1. React(tracker, a) = Answer(Put(tracker, Own(c), Patched(c)), "", Patched(c))
      BY <1>3, <1>12 DEF React, Lists, Patched
    <2>2. Gives(Answer(Put(tracker, Own(c), Patched(c)), "", Patched(c)),
                Put(tracker, Own(c), Patched(c)), "", Patched(c))
      BY AnswerGives
    <2> QED
      BY <1>2, <1>12, <2>1, <2>2
  <1>13. ASSUME c.verb \in {"Get", "Delete", "Update", "UpdateStatus", "Patch"},
                Own(c) \notin DOMAIN tracker
        PROVE  Gives(Fake(c), tracker, "NotFound", Nil)
    <2>1. React(tracker, a) = Answer(tracker, "NotFound", Nil)
      BY <1>3, <1>13 DEF React, Add, Lists
    <2>2. Gives(Answer(tracker, "NotFound", Nil),
                tracker, "NotFound", Nil)
      BY AnswerGives
    <2> QED
      BY <1>2, <1>13, <2>1, <2>2
  <1> QED
    BY <1>4, <1>5, <1>6, <1>7, <1>8, <1>9, <1>10, <1>11, <1>12, <1>13 DEF scope

-----------------------------------------------------------------------------
(* What a call leaves in a store.                                          *)

\* Every object is filed under its name and has its shape.
GoodStore(s) == \A k \in DOMAIN s : s[k] \in Objects /\ s[k].name = k[4]

\* Writing one object.
LEMMA PutStore ==
  ASSUME NEW s, NEW k, NEW o
  PROVE  /\ DOMAIN Put(s, k, o) = {k} \union DOMAIN s /\ Put(s, k, o)[k] = o
         /\ Changed(s, Put(s, k, o)) \subseteq {k}
         /\ GoodStore(s) /\ o \in Objects /\ o.name = k[4] => GoodStore(Put(s, k, o))
  <1>1. /\ DOMAIN Put(s, k, o) = {k} \union DOMAIN s /\ Put(s, k, o)[k] = o
        /\ \A x \in DOMAIN s : x # k => Put(s, k, o)[x] = s[x]
    BY DEF Put
  <1>2. Changed(s, Put(s, k, o)) \subseteq {k}
    BY <1>1 DEF Changed
  <1>3. GoodStore(s) /\ o \in Objects /\ o.name = k[4] => GoodStore(Put(s, k, o))
    BY <1>1 DEF GoodStore
  <1> QED
    BY <1>1, <1>2, <1>3

\* Removing some objects.
LEMMA DropStore ==
  ASSUME NEW s, NEW ks
  PROVE  /\ DOMAIN Drop(s, ks) \subseteq DOMAIN s
         /\ Changed(s, Drop(s, ks)) \subseteq ks
         /\ GoodStore(s) => GoodStore(Drop(s, ks))
  <1>1. /\ DOMAIN Drop(s, ks) = DOMAIN s \ ks
        /\ \A x \in DOMAIN s \ ks : Drop(s, ks)[x] = s[x]
    BY DEF Drop, Restrict
  <1>2. Changed(s, Drop(s, ks)) \subseteq ks
    BY <1>1 DEF Changed
  <1>3. GoodStore(s) => GoodStore(Drop(s, ks))
    BY <1>1 DEF GoodStore
  <1> QED
    BY <1>1, <1>2, <1>3

\* An object the server stores has its shape and its name.
LEMMA StoredObject ==
  ASSUME TypeOK, NEW c \in MethodCalls,
         c.verb \in {"Create", "Update", "UpdateStatus", "Patch"},
         c.verb # "Create" => Own(c) \in DOMAIN server
  PROVE  Stored(c) \in Objects /\ Stored(c).name = Own(c)[4]
  <1>1. /\ c.obj \in Objects /\ c.obj.name = c.name
    BY CallParts DEF TypeOK, Objects
  <1>2. Own(c)[4] = c.name
    BY DEF Own, KeyOf, Key
  <1>3. c.verb # "Create" => server[Own(c)] \in Objects /\ server[Own(c)].name = c.name
    BY <1>2 DEF TypeOK
  <1>4. CASE c.verb = "Create"
    BY <1>1, <1>2, <1>4 DEF Stored, Objects
  <1>5. CASE c.verb = "Update"
    BY <1>1, <1>2, <1>3, <1>5 DEF Stored, Objects
  <1>6. CASE c.verb = "UpdateStatus"
    BY <1>1, <1>2, <1>3, <1>6 DEF Stored, Objects
  <1>7. CASE c.verb = "Patch"
    BY <1>1, <1>2, <1>3, <1>7 DEF Stored, Objects
  <1> QED
    BY <1>4, <1>5, <1>6, <1>7

\* A call changes the server in one of four ways.
LEMMA ServerAfter ==
  ASSUME TypeOK, clients = setConfigDefaults, NEW c \in MethodCalls
  PROVE  \/ Real(c).store = server
         \/ c.verb = "DeleteCollection" /\ Real(c).store = Drop(server, Selected(server, c))
         \/ Real(c).store = Drop(server, {Own(c)})
         \/ /\ c.verb \in {"Create", "Update", "UpdateStatus", "Patch"}
            /\ c.verb # "Create" => Own(c) \in DOMAIN server
            /\ c.verb \in {"Update", "UpdateStatus"} => c.fresh
            /\ Real(c).store = Put(server, Own(c), Stored(c))
  <1>1. kind \in DOMAIN Kinds
    BY DEF TypeOK
  <1>2. c.verb \in {"List", "Watch"} => Real(c).store = server
    BY <1>1, RealReads DEF Gives
  <1>3. c.verb = "DeleteCollection" => Real(c).store = Drop(server, Selected(server, c))
    BY <1>1, RealReads DEF Gives
  <1>4. c.verb \in {"Get", "Delete"} =>
          Real(c).store = server \/ Real(c).store = Drop(server, {Own(c)})
    BY <1>1, RealReads DEF Gives
  <1>5. c.verb = "Create" =>
          Real(c).store = server \/ Real(c).store = Put(server, Own(c), Stored(c))
    BY <1>1, RealWrites DEF Gives
  <1>6. c.verb \in {"Update", "UpdateStatus", "Patch"} =>
          \/ Real(c).store = server
          \/ /\ Own(c) \in DOMAIN server /\ (c.verb = "Patch" \/ c.fresh)
             /\ Real(c).store = Put(server, Own(c), Stored(c))
    BY <1>1, RealWrites DEF Gives
  <1> QED
    BY <1>1, <1>2, <1>3, <1>4, <1>5, <1>6, CallParts DEF CommonVerbs

\* And the tracker in one of four.
LEMMA TrackerAfter ==
  ASSUME TypeOK, NEW c \in MethodCalls
  PROVE  \/ Fake(c).store = tracker
         \/ Fake(c).store = Drop(tracker, {Own(c)})
         \/ Fake(c).store = Put(tracker, Own(c), c.obj)
         \/ /\ Own(c) \in DOMAIN tracker
            /\ Fake(c).store = Put(tracker, Own(c), Patched(c))
  <1>1. kind \in DOMAIN Kinds
    BY DEF TypeOK
  <1>2. c.verb \in {"List", "Watch", "DeleteCollection"} => Fake(c).store = tracker
    BY <1>1, FakeIs DEF Gives
  <1>3. c.verb \in {"Get", "Delete"} =>
          Fake(c).store = tracker \/ Fake(c).store = Drop(tracker, {Own(c)})
    BY <1>1, FakeIs DEF Gives
  <1>4. c.verb \in {"Create", "Update", "UpdateStatus"} =>
          Fake(c).store = tracker \/ Fake(c).store = Put(tracker, Own(c), c.obj)
    BY <1>1, FakeIs DEF Gives
  <1>5. c.verb = "Patch" =>
          \/ Fake(c).store = tracker
          \/ /\ Own(c) \in DOMAIN tracker
             /\ Fake(c).store = Put(tracker, Own(c), Patched(c))
    BY <1>1, FakeIs DEF Gives
  <1> QED
    BY <1>1, <1>2, <1>3, <1>4, <1>5, CallParts DEF CommonVerbs

\* What a client's list selects are objects of its kind in its namespace.
LEMMA SelectedIsOwn ==
  ASSUME IInv, NEW c
  PROVE  Selected(server, c) \subseteq
           {KeyOf(kind, Namespace, name) : name \in Called \union {Bystander}}
  <1> SUFFICES ASSUME NEW k \in Selected(server, c)
               PROVE  \E name \in Called \union {Bystander} :
                        k = KeyOf(kind, Namespace, name)
    OBVIOUS
  <1>1. /\ k \in DOMAIN server /\ k[2] = Kinds[kind].plural
        /\ Scope = "" \/ k[3] = Scope
    BY DEF Selected, InScope
  <1>2. PICK x \in DOMAIN Kinds, ns \in {Namespace, OtherNamespace},
             name \in Called \union {Bystander} : k = KeyOf(x, ns, name)
    <2>1. k \in Keys
      BY <1>1 DEF IInv
    <2> QED
      BY <2>1 DEF Keys
  <1>3. x = kind
    <2>1. k[2] = Kinds[x].plural
      BY <1>2 DEF KeyOf, Key
    <2>2. kind \in DOMAIN Kinds /\ Kinds[x].plural = Kinds[kind].plural
      BY <1>1, <2>1 DEF IInv, TypeOK
    <2> QED
      BY <2>2, PluralsDiffer
  <1>4. KeyOf(kind, ns, name) = KeyOf(kind, Namespace, name)
    <2>1. CASE Kinds[kind].namespaced
      <3>1. Scope = Namespace /\ Scope # ""
        BY <2>1, ClientsetAssumption DEF Scope
      <3>2. k[3] = ns
        BY <1>2, <1>3, <2>1 DEF KeyOf, Key
      <3> QED
        BY <1>1, <3>1, <3>2
    <2>2. CASE ~Kinds[kind].namespaced
      BY <2>2 DEF KeyOf
    <2> QED
      BY <2>1, <2>2
  <1> QED
    BY <1>2, <1>3, <1>4

-----------------------------------------------------------------------------
(* The theorems.                                                           *)

\* A step keeps the invariant.
LEMMA Step == IInv /\ [Next]_vars => IInv'
  <1> SUFFICES ASSUME IInv, [Next]_vars PROVE IInv'
    OBVIOUS
  <1>1. CASE UNCHANGED vars
    BY <1>1 DEF vars, IInv, TypeOK, Keys, Objects
  <1>2. CASE New
    <2>1. clients' \in {NoClients, setConfigDefaults}
      BY <1>2 DEF New, NewForConfig
    <2> QED
      BY <1>2, <2>1 DEF New, IInv, TypeOK
  <1>3. ASSUME NEW c \in MethodCalls, Call(c)
        PROVE  IInv'
    <2>1. /\ clients = setConfigDefaults /\ clients' = clients /\ kind' = kind
          /\ server' = Real(c).store /\ tracker' = Fake(c).store
          /\ kind \in DOMAIN Kinds
      BY <1>3 DEF Call, IInv, TypeOK
    <2>2. GoodStore(server) /\ GoodStore(tracker) /\ DOMAIN server \subseteq Keys
      BY DEF IInv, TypeOK, GoodStore
    <2>3. Own(c) \in Keys /\ Own(c)[4] = c.name
      <3>1. c.name \in Called
        BY <2>1, CallParts
      <3>2. Own(c) \in Keys
        BY <2>1, <3>1 DEF Own, Keys
      <3>3. Own(c)[4] = c.name
        BY DEF Own, KeyOf, Key
      <3> QED
        BY <3>2, <3>3
    <2>4. GoodStore(server') /\ DOMAIN server' \subseteq Keys
      <3>1. CASE server' = server
        BY <2>2, <3>1
      <3>2. ASSUME NEW ks, server' = Drop(server, ks)
            PROVE  GoodStore(server') /\ DOMAIN server' \subseteq Keys
        BY <2>2, <3>2, DropStore
      <3>3. CASE /\ c.verb \in {"Create", "Update", "UpdateStatus", "Patch"}
                 /\ c.verb # "Create" => Own(c) \in DOMAIN server
                 /\ server' = Put(server, Own(c), Stored(c))
        <4>1. Stored(c) \in Objects /\ Stored(c).name = Own(c)[4]
          BY <3>3, StoredObject DEF IInv
        <4>2. DOMAIN server' = {Own(c)} \union DOMAIN server
          BY <3>3, PutStore
        <4>3. GoodStore(Put(server, Own(c), Stored(c)))
          BY <2>2, <4>1, PutStore
        <4> QED
          BY <2>2, <2>3, <3>3, <4>2, <4>3
      <3> QED
        BY <2>1, <3>1, <3>2, <3>3, ServerAfter DEF IInv
    <2>5. GoodStore(tracker')
      <3>0. c.obj \in Objects /\ c.obj.name = c.name
        BY <2>1, CallParts DEF Objects
      <3>1. CASE tracker' = tracker
        BY <2>2, <3>1
      <3>2. CASE tracker' = Drop(tracker, {Own(c)})
        BY <2>2, <3>2, DropStore
      <3>3. CASE tracker' = Put(tracker, Own(c), c.obj)
        BY <2>2, <2>3, <3>0, <3>3, PutStore
      <3>4. CASE Own(c) \in DOMAIN tracker /\ tracker' = Put(tracker, Own(c), Patched(c))
        <4>1. tracker[Own(c)] \in Objects /\ tracker[Own(c)].name = Own(c)[4]
          BY <2>2, <3>4 DEF GoodStore
        <4>2. Patched(c) \in Objects /\ Patched(c).name = Own(c)[4]
          BY <3>0, <4>1 DEF Patched, Objects
        <4> QED
          BY <2>2, <3>4, <4>2, PutStore
      <3> QED
        BY <2>1, <3>1, <3>2, <3>3, <3>4, TrackerAfter DEF IInv
    <2> QED
      BY <2>1, <2>4, <2>5 DEF IInv, TypeOK, GoodStore
  <1> QED
    BY <1>1, <1>2, <1>3 DEF Next

\* The invariant holds in every reachable state.
THEOREM Invariance == Spec => []IInv
  <1>1. Init => IInv
    <2> SUFFICES ASSUME Init PROVE IInv
      OBVIOUS
    <2>1. /\ DOMAIN Seeded \subseteq Keys
          /\ \A k \in DOMAIN Seeded : Seeded[k] = Object(Bystander)
      BY DEF Seeded, Keys
    <2>2. ASSUME NEW k \in DOMAIN Seeded PROVE k[4] = Bystander
      <3>1. PICK x \in DOMAIN Kinds, ns \in {Namespace, OtherNamespace} :
              k = KeyOf(x, ns, Bystander)
        BY <2>2 DEF Seeded
      <3> QED
        BY <3>1 DEF KeyOf, Key
    <2>3. Object(Bystander) \in Objects /\ Object(Bystander).name = Bystander
      BY DEF Object, Objects
    <2> QED
      BY <2>1, <2>2, <2>3 DEF Init, IInv, TypeOK
  <1> QED
    BY <1>1, Step, PTL DEF Spec

\* The clients are all built or none, and the stores hold well-formed objects under
\* their own names, whatever is called on whichever kind.
THEOREM TypeCorrect == Spec => []TypeOK
  <1>1. IInv => TypeOK
    BY DEF IInv
  <1> QED
    BY <1>1, Invariance, PTL

\* Of every kind, a client touches only its own objects.
THEOREM OwnOnly == Spec => OwnObjectsOnly
  <1> DEFINE A == /\ Changed(server, server') \subseteq
                       {KeyOf(kind, Namespace, name) : name \in Called \union {Bystander}}
                  /\ Changed(tracker, tracker') \subseteq
                       {KeyOf(kind, Namespace, name) : name \in Called}
  <1>1. IInv /\ [Next]_vars => [A]_vars
    <2> SUFFICES ASSUME IInv, Next PROVE A
      BY DEF vars
    <2>0. \A s : Changed(s, s) = {}
      BY DEF Changed
    <2>1. CASE New
      BY <2>0, <2>1 DEF New
    <2>2. ASSUME NEW c \in MethodCalls, Call(c)
          PROVE  A
      <3>1. /\ clients = setConfigDefaults /\ kind \in DOMAIN Kinds
            /\ server' = Real(c).store /\ tracker' = Fake(c).store
        BY <2>2 DEF Call, IInv, TypeOK
      <3>2. c.name \in Called /\ Own(c) = KeyOf(kind, Namespace, c.name)
        BY <3>1, CallParts DEF Own
      <3>3. Changed(server, server') \subseteq {Own(c)} \union Selected(server, c)
        <4>1. /\ Changed(server, server) = {}
              /\ \A ks : Changed(server, Drop(server, ks)) \subseteq ks
              /\ Changed(server, Put(server, Own(c), Stored(c))) \subseteq {Own(c)}
          BY <2>0, PutStore, DropStore
        <4>2. \/ server' = server
              \/ server' = Drop(server, Selected(server, c))
              \/ server' = Drop(server, {Own(c)})
              \/ server' = Put(server, Own(c), Stored(c))
          BY <3>1, ServerAfter DEF IInv
        <4> QED
          BY <4>1, <4>2
      <3>4. Changed(tracker, tracker') \subseteq {Own(c)}
        <4>1. /\ Changed(tracker, tracker) = {}
              /\ Changed(tracker, Drop(tracker, {Own(c)})) \subseteq {Own(c)}
              /\ \A o : Changed(tracker, Put(tracker, Own(c), o)) \subseteq {Own(c)}
          BY <2>0, PutStore, DropStore
        <4>2. \/ tracker' = tracker
              \/ tracker' = Drop(tracker, {Own(c)})
              \/ \E o : tracker' = Put(tracker, Own(c), o)
          BY <3>1, TrackerAfter DEF IInv
        <4> QED
          BY <4>1, <4>2
      <3> QED
        BY <3>2, <3>3, <3>4, SelectedIsOwn
    <2> QED
      BY <2>1, <2>2 DEF Next
  <1> QED
    BY <1>1, Invariance, PTL DEF Spec, OwnObjectsOnly

\* The call ends the same way through the typed client and through the fake.
Agree(c) ==
  /\ Real(c).err = Fake(c).err /\ Real(c).store = Fake(c).store
  /\ Real(c).err = "" /\ c.verb # "Delete" => Real(c).val = Fake(c).val
  /\ Real(c).err # "" => Real(c).val = Empty /\ Fake(c).val = Nil

\* What a portable write leaves in the server is what it leaves in the tracker.
LEMMA SameObject ==
  ASSUME TypeOK, server = tracker, NEW c \in MethodCalls, Portable(c)
  PROVE  /\ c.verb = "Create" => Stored(c) = c.obj
         /\ c.verb \in {"Update", "UpdateStatus"} /\ Own(c) \in DOMAIN server =>
              c.fresh /\ Stored(c) = c.obj
         /\ c.verb = "Patch" /\ Own(c) \in DOMAIN server => Stored(c) = Patched(c)
  <1>1. /\ c.obj \in Objects /\ c.obj.name = c.name
        /\ (c.verb # "Patch" => c.sub = "") /\ c.sub \in {"", "status"}
    BY CallParts DEF TypeOK, Objects
  <1>2. Own(c)[4] = c.name
    BY DEF Own, KeyOf, Key
  <1>3. ASSUME Own(c) \in DOMAIN server
        PROVE  server[Own(c)] \in Objects /\ server[Own(c)].name = c.name
    BY <1>2, <1>3 DEF TypeOK
  <1>4. ASSUME c.verb = "Create" PROVE Stored(c) = c.obj
    <2>1. c.obj.status = 0
      BY <1>1, <1>4 DEF Portable
    <2> QED
      BY <1>1, <1>4, <2>1 DEF Stored, Objects
  <1>5. ASSUME c.verb = "Update", Own(c) \in DOMAIN server
        PROVE  c.fresh /\ Stored(c) = c.obj
    <2>1. c.fresh /\ c.obj.status = server[Own(c)].status
      BY <1>1, <1>5 DEF Portable, Own
    <2> QED
      BY <1>1, <1>5, <2>1 DEF Stored, Objects
  <1>6. ASSUME c.verb = "UpdateStatus", Own(c) \in DOMAIN server
        PROVE  c.fresh /\ Stored(c) = c.obj
    <2>1. c.fresh /\ c.obj.spec = server[Own(c)].spec /\ c.obj.lab = server[Own(c)].lab
      BY <1>1, <1>6 DEF Portable, Own
    <2>2. Stored(c) = [server[Own(c)] EXCEPT !.status = c.obj.status]
      BY <1>6 DEF Stored
    <2> DEFINE old == server[Own(c)]
    <2>3. old \in Objects /\ old.name = c.obj.name
      BY <1>1, <1>3, <1>6
    <2> HIDE DEF old
    <2>4. [old EXCEPT !.status = c.obj.status] = c.obj
      BY <1>1, <2>1, <2>3 DEF Objects, old
    <2> QED
      BY <2>1, <2>2, <2>4 DEF old
  <1>7. ASSUME c.verb = "Patch", Own(c) \in DOMAIN server
        PROVE  Stored(c) = Patched(c)
    <2>1. CASE c.sub = "status"
      <3>1. c.obj.spec = server[Own(c)].spec
        BY <1>7, <2>1 DEF Portable, Own
      <3> QED
        BY <1>3, <1>7, <2>1, <3>1 DEF Stored, Patched, Objects
    <2>2. CASE c.sub = ""
      <3>1. c.obj.status = server[Own(c)].status
        BY <1>7, <2>2 DEF Portable, Own
      <3> QED
        BY <1>3, <1>7, <2>2, <3>1 DEF Stored, Patched, Objects
    <2> QED
      BY <1>1, <2>1, <2>2
  <1> QED
    BY <1>4, <1>5, <1>6, <1>7

\* For portable calls the fakes of all kinds behave like the typed clients on an API
\* server.
THEOREM Faithful == Spec => []FakeFaithful
  <1>1. IInv => FakeFaithful
    <2> SUFFICES ASSUME IInv, clients # NoClients, server = tracker,
                        NEW c \in MethodCalls, Portable(c)
                 PROVE  Agree(c)
      BY DEF FakeFaithful, Agree
    <2>1. TypeOK /\ clients = setConfigDefaults /\ kind \in DOMAIN Kinds
      BY DEF IInv, TypeOK
    <2>2. CASE c.verb = "List"
      BY <2>1, <2>2, RealReads, FakeIs DEF Agree, Gives
    <2>3. c.verb \notin {"Watch", "DeleteCollection"}
      BY <2>1, CallParts DEF Portable
    <2>5. CASE c.verb = "Get"
      BY <2>1, <2>5, RealReads, FakeIs DEF Agree, Gives
    <2>6. CASE c.verb = "Delete"
      BY <2>1, <2>6, RealReads, FakeIs DEF Agree, Gives
    <2>7. CASE c.verb = "Create"
      <3>1. Stored(c) = c.obj
        BY <2>1, <2>7, SameObject
      <3>2. CASE Own(c) \in DOMAIN server
        BY <2>1, <2>7, <3>1, <3>2, RealWrites, FakeIs DEF Agree, Gives
      <3>3. CASE Own(c) \notin DOMAIN server
        <4>1. Gives(Real(c), Put(server, Own(c), Stored(c)), "", Stored(c))
          BY <2>1, <2>7, <3>3, RealWrites
        <4>2. Gives(Fake(c), Put(tracker, Own(c), c.obj), "", c.obj)
          BY <2>1, <2>7, <3>3, FakeIs
        <4> QED
          BY <3>1, <4>1, <4>2 DEF Agree, Gives
      <3> QED
        BY <3>2, <3>3
    <2>8. CASE c.verb \in {"Update", "UpdateStatus"}
      <3>1. Own(c) \in DOMAIN server => c.fresh /\ Stored(c) = c.obj
        BY <2>1, <2>8, SameObject
      <3>2. CASE Own(c) \in DOMAIN server
        <4>1. Gives(Real(c), Put(server, Own(c), Stored(c)), "", Stored(c))
          BY <2>1, <2>8, <3>1, <3>2, RealWrites
        <4>2. Gives(Fake(c), Put(tracker, Own(c), c.obj), "", c.obj)
          BY <2>1, <2>8, <3>2, FakeIs
        <4> QED
          BY <3>1, <3>2, <4>1, <4>2 DEF Agree, Gives
      <3>3. CASE Own(c) \notin DOMAIN server
        BY <2>1, <2>8, <3>1, <3>3, RealWrites, FakeIs DEF Agree, Gives
      <3> QED
        BY <3>2, <3>3
    <2>9. CASE c.verb = "Patch"
      <3>1. Own(c) \in DOMAIN server => Stored(c) = Patched(c)
        BY <2>1, <2>9, SameObject
      <3>2. CASE Own(c) \in DOMAIN server
        <4>1. Gives(Real(c), Put(server, Own(c), Stored(c)), "", Stored(c))
          BY <2>1, <2>9, <3>1, <3>2, RealWrites
        <4>2. Gives(Fake(c), Put(tracker, Own(c), Patched(c)), "", Patched(c))
          BY <2>1, <2>9, <3>2, FakeIs
        <4> QED
          BY <3>1, <3>2, <4>1, <4>2 DEF Agree, Gives
      <3>3. CASE Own(c) \notin DOMAIN server
        BY <2>1, <2>9, <3>1, <3>3, RealWrites, FakeIs DEF Agree, Gives
      <3> QED
        BY <3>2, <3>3
    <2> QED
      BY <2>1, <2>2, <2>3, <2>5, <2>6, <2>7, <2>8, <2>9, CallParts DEF CommonVerbs
  <1> QED
    BY <1>1, Invariance, PTL
=============================================================================
