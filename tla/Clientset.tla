----------------------------- MODULE Clientset ------------------------------
(***************************************************************************)
(* The generated clientsets at work: the same method calls made through a  *)
(* typed client on the infra API server and through its fake on the object *)
(* tracker, as in production and in the unit tests. A behaviour follows    *)
(* one of the 19 kinds; objects of all others, and of the same kind in     *)
(* another namespace, stand by and must never change.                      *)
(***************************************************************************)
EXTENDS FakeClients, Naturals

CONSTANTS
  Namespace,      \* the namespace the clients are made for
  OtherNamespace, \* another one
  Called,         \* object names the calls use
  Bystander       \* the name of an object no call names

ASSUME ClientsetAssumption ==
  /\ Namespace # OtherNamespace /\ Namespace # ""
  /\ Bystander \notin Called /\ "" \notin Called

VARIABLES
  kind,     \* the kind this behaviour is about
  clients,  \* group version of each group's REST client, or NoClients
  server,   \* objects in the infra API server
  tracker   \* objects in the fake's tracker

vars == <<kind, clients, server, tracker>>

\* The kinds as the API server knows them: group version, plural, scope, and
\* whether the status is a subresource. The guess by which the tracker files the
\* objects a test starts with, UnsafeGuessKindToResource, has the same plurals.
Row(gv, plural, namespaced, status) ==
  [gv |-> gv, plural |-> plural, namespaced |-> namespaced, status |-> status]

Kinds ==
  [KubeVirt |-> Row(KubevirtGV, "kubevirts", TRUE, TRUE),
   VirtualMachine |-> Row(KubevirtGV, "virtualmachines", TRUE, TRUE),
   VirtualMachineInstance |->
     Row(KubevirtGV, "virtualmachineinstances", TRUE, TRUE),
   VirtualMachineInstanceMigration |->
     Row(KubevirtGV, "virtualmachineinstancemigrations", TRUE, TRUE),
   VirtualMachineInstancePreset |->
     Row(KubevirtGV, "virtualmachineinstancepresets", TRUE, FALSE),
   VirtualMachineInstanceReplicaSet |->
     Row(KubevirtGV, "virtualmachineinstancereplicasets", TRUE, TRUE),
   CDI |-> Row(CdiGV, "cdis", FALSE, TRUE),
   CDIConfig |-> Row(CdiGV, "cdiconfigs", FALSE, TRUE),
   DataImportCron |-> Row(CdiGV, "dataimportcrons", TRUE, TRUE),
   DataSource |-> Row(CdiGV, "datasources", TRUE, TRUE),
   DataVolume |-> Row(CdiGV, "datavolumes", TRUE, TRUE),
   ObjectTransfer |-> Row(CdiGV, "objecttransfers", FALSE, TRUE),
   StorageProfile |-> Row(CdiGV, "storageprofiles", FALSE, TRUE),
   VolumeCloneSource |-> Row(CdiGV, "volumeclonesources", TRUE, FALSE),
   VolumeImportSource |-> Row(CdiGV, "volumeimportsources", TRUE, TRUE),
   VolumeUploadSource |-> Row(CdiGV, "volumeuploadsources", TRUE, TRUE),
   VolumeSnapshot |-> Row(SnapshotGV, "volumesnapshots", TRUE, TRUE),
   VolumeSnapshotClass |-> Row(SnapshotGV, "volumesnapshotclasses", FALSE, FALSE),
   VolumeSnapshotContent |->
     Row(SnapshotGV, "volumesnapshotcontents", FALSE, TRUE)]

\* Where objects of kind k live when a client made for namespace ns handles them.
KeyOf(k, ns, name) ==
  Key(Kinds[k].gv, Kinds[k].plural, IF Kinds[k].namespaced THEN ns ELSE "", name)

Object(name) == [name |-> name, lab |-> FALSE, spec |-> 0, status |-> 0]

\* Every kind has a bystander in both namespaces (one, if it is cluster-scoped).
Seeded ==
  [k \in {KeyOf(x, ns, Bystander) : x \in DOMAIN Kinds,
                                    ns \in {Namespace, OtherNamespace}}
     |-> Object(Bystander)]

NoClients == [kubevirtV1 |-> "", cdiV1beta1 |-> "", snapshotV1 |-> ""]

Init ==
  /\ kind \in DOMAIN Kinds
  /\ clients = NoClients
  /\ server = Seeded
  /\ tracker = Seeded

-----------------------------------------------------------------------------
(* NewForConfig of the three clientsets on one rest.Config.                *)

Configs == [rateLimiter : BOOLEAN, qps : 0..1, burst : 0..1]

\* The group clients copy the configuration and set their own group version in it.
setConfigDefaults ==
  [kubevirtV1 |-> KubevirtGV, cdiV1beta1 |-> CdiGV, snapshotV1 |-> SnapshotGV]

\* Mutant of NewForConfig: one group's client is built without its defaults.
NewForConfigNoDefaults(config) ==
  IF ~config.rateLimiter /\ config.qps > 0 /\ config.burst <= 0
  THEN NoClients ELSE [setConfigDefaults EXCEPT !.snapshotV1 = ""]

NewForConfig(config) ==
  IF ~config.rateLimiter /\ config.qps > 0 /\ config.burst <= 0
  THEN NoClients ELSE setConfigDefaults

New ==
  /\ clients = NoClients
  /\ \E config \in Configs : clients' = NewForConfig(config)
  /\ UNCHANGED <<kind, server, tracker>>

-----------------------------------------------------------------------------
(* One call through the typed client and through the fake.                 *)

RequestOf(c) ==
  CASE Kinds[kind].gv = KubevirtGV ->
         KubevirtV1(clients.kubevirtV1, kind, Namespace, c)
    [] Kinds[kind].gv = CdiGV -> CdiV1beta1(clients.cdiV1beta1, kind, Namespace, c)
    [] Kinds[kind].gv = SnapshotGV ->
         SnapshotV1(clients.snapshotV1, kind, Namespace, c)

ActionOf(c) ==
  CASE Kinds[kind].gv = KubevirtGV -> FakeKubevirtV1(kind, Namespace, c)
    [] Kinds[kind].gv = CdiGV -> FakeCdiV1beta1(kind, Namespace, c)
    [] Kinds[kind].gv = SnapshotGV -> FakeSnapshotV1(kind, Namespace, c)

-----------------------------------------------------------------------------
(* The API server.                                                         *)

\* The kind a request is routed to, and whether its path fits the kind's scope:
\* without a namespace a namespaced kind can only be listed.
Routed(r) ==
  \E k \in DOMAIN Kinds :
    /\ Kinds[k].gv = r.gv /\ Kinds[k].plural = r.resource
    /\ \/ Kinds[k].namespaced <=> r.ns # ""
       \/ Kinds[k].namespaced /\ r.http = "GET" /\ r.name = ""
    /\ r.sub = "status" => Kinds[k].status

HasStatus(r) ==
  \E k \in DOMAIN Kinds : Kinds[k].plural = r.resource /\ Kinds[k].status

\* A write to the object keeps its status and a write to the status all else.
Written(r, old) ==
  CASE r.sub = "status" -> [old EXCEPT !.status = r.body.status]
    [] r.sub = "" /\ r.http = "PATCH" -> [old EXCEPT !.spec = r.body.spec]
    [] r.sub = "" /\ r.http = "PUT" ->
         IF HasStatus(r) THEN [r.body EXCEPT !.status = old.status] ELSE r.body

\* One request. A create never sets the status, a PUT with an old resource version
\* is a conflict, and a watch starts with the objects there are.
Serve(store, r) ==
  LET k == Key(r.gv, r.resource, r.ns,
               IF r.http = "POST" THEN r.body.name ELSE r.name)
      scope == {j \in InScope(store, r.gv, r.resource, r.ns) : r.sel => store[j].lab}
      Write(new) == Answer(Put(store, k, new), "", new)
  IN IF ~Routed(r) THEN Answer(store, "NotFound", <<>>)
     ELSE IF r.http = "GET" /\ r.name = "" THEN Answer(store, "", Restrict(store, scope))
     ELSE IF r.http = "DELETE" /\ r.name = "" THEN Answer(Drop(store, scope), "", <<>>)
     ELSE IF r.http = "POST"
     THEN IF k \in DOMAIN store THEN Answer(store, "AlreadyExists", <<>>)
          ELSE Write([r.body EXCEPT !.status = 0])
     ELSE IF k \notin DOMAIN store THEN Answer(store, "NotFound", <<>>)
     ELSE IF r.http = "PUT" /\ ~r.fresh THEN Answer(store, "Conflict", <<>>)
     ELSE CASE r.http = "GET" -> Answer(store, "", store[k])
            [] r.http = "DELETE" -> Answer(Drop(store, {k}), "", <<>>)
            [] r.http \in {"PUT", "PATCH"} -> Write(Written(r, store[k]))

Lists == {"List", "Watch", "DeleteCollection"}

Empty == Object("")

\* Do(ctx).Into(result): result was allocated before the call and is returned
\* also with an error, then still empty.
Into(c, answer) ==
  IF answer.err # "" /\ c.verb \notin Lists
  THEN [answer EXCEPT !.val = Empty] ELSE answer

Real(c) == Into(c, Serve(server, RequestOf(c)))
Fake(c) == FakeResult(ActionOf(c), React(tracker, ActionOf(c)))

Calls ==
  [verb : CommonVerbs \union {"UpdateStatus"}, name : Called,
   obj : [name : Called, lab : BOOLEAN, spec : 0..1, status : 0..1],
   fresh : BOOLEAN, sel : BOOLEAN, sub : {"", "status"}]

\* The calls that differ in what their method reads of them, with a status only for
\* the kinds that have one.
Distinct(c) ==
  /\ c.name = c.obj.name
  /\ c.verb \notin {"Update", "UpdateStatus"} => c.fresh
  /\ c.verb \notin Lists => ~c.sel
  /\ c.verb # "Patch" => c.sub = ""
  /\ c.verb \in Lists \union {"Get", "Delete"} => c.obj = Object(c.name)
  /\ c.verb \in {"Patch"} => ~c.obj.lab
  /\ c.obj.status = 1 => Kinds[kind].status
  /\ c.verb = "UpdateStatus" \/ c.sub = "status" => Kinds[kind].status

MethodCalls == {c \in Calls : Distinct(c)}

Call(c) ==
  /\ clients # NoClients
  /\ server' = Real(c).store
  /\ tracker' = Fake(c).store
  /\ UNCHANGED <<kind, clients>>

Next == New \/ \E c \in MethodCalls : Call(c)

Spec == Init /\ [][Next]_vars

-----------------------------------------------------------------------------
(* Properties                                                              *)

Objects == [name : Called \union {Bystander}, lab : BOOLEAN, spec : 0..1,
            status : 0..1]

\* The shape of the state.
TypeOK ==
  /\ kind \in DOMAIN Kinds
  /\ clients \in {NoClients, setConfigDefaults}
  /\ \A k \in DOMAIN server : server[k] \in Objects /\ server[k].name = k[4]
  /\ \A k \in DOMAIN tracker : tracker[k] \in Objects /\ tracker[k].name = k[4]

\* Calls a test on the fake can stand for. In all others the two differ: the fake's
\* watch keeps silent about the objects there are, it stores the status a create
\* carries, does not delete collections, takes stale updates, and lets a write to
\* the object change the status and the reverse.
Portable(c) ==
  LET k == KeyOf(kind, Namespace, c.name)
      Same(part) == k \in DOMAIN server => c.obj[part] = server[k][part]
  IN CASE c.verb \in {"Watch", "DeleteCollection"} -> FALSE
       [] c.verb = "Create" -> c.obj.status = 0
       [] c.verb = "UpdateStatus" \/ c.sub = "status" ->
            c.fresh /\ Same("spec") /\ Same("lab")
       [] c.verb = "Update" -> c.fresh /\ Same("status")
       [] c.verb = "Patch" /\ c.sub = "" -> Same("status")
       [] OTHER -> TRUE

\* The fakes are faithful for portable calls: from equal stores such a call ends in
\* the same error, the same answer and equal stores through the typed client and
\* through the fake, for every kind. One difference is left: with
\* an error the typed client's object is empty and the fake's is nil, which is
\* why no test on a fake can reach the dereference in removeVolumeFromVm.
FakeFaithful ==
  clients # NoClients /\ server = tracker =>
    \A c \in MethodCalls : Portable(c) =>
      LET real == Real(c)
          fake == Fake(c)
      IN /\ real.err = fake.err /\ real.store = fake.store
         /\ real.err = "" /\ c.verb # "Delete" => real.val = fake.val
         /\ real.err # "" => real.val = Empty /\ fake.val = Nil

Changed(old, new) ==
  {k \in DOMAIN old \union DOMAIN new :
     ~(k \in DOMAIN old /\ k \in DOMAIN new /\ old[k] = new[k])}

\* A client touches only objects of its kind in its namespace, and the bystander
\* there only with DeleteCollection on the server: a resource name, scope or
\* namespace that slipped in from another generated file shows here.
OwnObjectsOnly ==
  [][/\ Changed(server, server') \subseteq
          {KeyOf(kind, Namespace, name) : name \in Called \union {Bystander}}
     /\ Changed(tracker, tracker') \subseteq
          {KeyOf(kind, Namespace, name) : name \in Called}]_vars
=============================================================================
