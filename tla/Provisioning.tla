---------------------------- MODULE Provisioning ----------------------------
(***************************************************************************)
(* CreateVolume, DeleteVolume and ControllerExpandVolume of                *)
(* pkg/service/controller.go with the DataVolume and PVC calls of          *)
(* pkg/kubevirt/client.go: request validation, the storage class policy,   *)
(* idempotent creation, ownership by labels and name prefix, growth of the *)
(* infra PVC. One step is one API call; the external-provisioner and the   *)
(* external-resizer each run one RPC per volume at a time, independently of*)
(* each other, and repeat it until it succeeds.                            *)
(***************************************************************************)
EXTENDS Naturals, Sequences

CONSTANTS
  Names,        \* volume names, each used for one tenant PVC
  Prefixed,     \* the names that start with the driver's volumePrefix
  AdminNames,   \* names taken from the start by a labelled DataVolume that an
                \* infra admin made with spec.pvc, that is, no spec.storage
  Sizes,        \* requested sizes
  Expandable,   \* names whose tenant storage class allows volume expansion
  GrownSizes,   \* sizes their PVCs may be expanded to
  Classes,      \* infra storage classes
  NoClass,      \* no infraStorageClassName parameter: the infra default
  CapLists,     \* the capability lists PVCs lead to
  AllowAll, AllowDefault, AllowList,  \* storageClassEnforcement
  Snapshots,    \* snapshot ids
  Blank,        \* no content source
  MaxUid        \* bound on the objects created in the infra cluster

ASSUME ProvisioningAssumption ==
  /\ Sizes \subseteq Nat /\ GrownSizes \subseteq Nat /\ Expandable \subseteq Names
  /\ Prefixed \subseteq Names /\ AdminNames \subseteq Prefixed
  /\ AllowAll \in BOOLEAN /\ AllowDefault \in BOOLEAN
  /\ AllowList \subseteq Classes
  /\ NoClass \notin Classes
  /\ Blank \notin Names \union Snapshots
  /\ Names \intersect Snapshots = {}
  /\ MaxUid \in Nat \ {0}

VARIABLES
  dv,     \* dv[n]: the DataVolume called n, or NoDV
  snaps,  \* the driver's snapshots in the infra cluster
  uids,   \* number of uids the infra API server has handed out
  req,    \* req[n]: the CreateVolume request of the PVC, or NoReq
  phase,  \* phase[n]: where the external-provisioner is with n
  pv,     \* pv[n]: serial and size of the tenant's PV
  pc,     \* pc[n]: next API call of n's handler, or "idle"
  disk,   \* disk[n]: request of the infra PVC n and capacity of its PV, or NoDisk
  rs      \* rs[n]: next API call of n's ControllerExpandVolume, the size it was
          \* asked for and the PVC size it waits for

storage == <<disk, rs>>
vars == <<dv, snaps, uids, req, phase, pv, pc, disk, rs>>

NoDV == [uid |-> 0]
NoReq == [size |-> 0]
NoDisk == [req |-> 0]
NoExpand == [pc |-> "idle", want |-> 0, size |-> 0]
NoPV == [serial |-> 0, size |-> 0]   \* serial 0: the empty string

Exists(n) == dv[n] # NoDV

\* GetDataVolume accepts an object only with the labels and the name prefix.
Mine(n) == Exists(n) /\ dv[n].labelled /\ n \in Prefixed

Requests == [size : Sizes, class : Classes \union {NoClass}, caps : CapLists,
             src : Names \union Snapshots \union {Blank}]

Init ==
  /\ dv = [n \in Names |->
             IF n \in AdminNames
             THEN [uid |-> 1, labelled |-> TRUE, storage |-> FALSE, size |-> 0,
                   class |-> NoClass, rwx |-> FALSE, src |-> Blank]
             ELSE NoDV]
  /\ snaps = Snapshots
  /\ uids = 1
  /\ req = [n \in Names |-> NoReq]
  /\ phase = [n \in Names |-> "free"]
  /\ pv = [n \in Names |-> NoPV]
  /\ pc = [n \in Names |-> "idle"]
  /\ disk = [n \in Names |-> NoDisk]
  /\ rs = [n \in Names |-> NoExpand]

-----------------------------------------------------------------------------
(* validateCreateVolumeRequest                                             *)

\* A capability: block or filesystem, and the node part of its access mode
\* ("single", "multi", or a mode hasRWXCapabiltyAccessMode does not know).
IsBlock(caps) == \E i \in DOMAIN caps : caps[i].block

\* getAccessMode overwrites isRWX and err at every capability: the last counts.
LastMode(caps) == caps[Len(caps)].mode
IsRWX(caps) == LastMode(caps) = "multi"

\* Mutant of ClassAllowed: the default class slips through.
ClassAllowedAnyDefault(class) == AllowAll \/ class = NoClass \/ class \in AllowList

ClassAllowed(class) ==
  AllowAll \/ IF class = NoClass THEN AllowDefault ELSE class \in AllowList

Valid(r) ==
  /\ LastMode(r.caps) # "unknown"
  /\ IsRWX(r.caps) => IsBlock(r.caps)
  /\ ClassAllowed(r.class)

-----------------------------------------------------------------------------
(* How a handler moves on.                                                 *)

Goto(n, next) == pc' = [pc EXCEPT ![n] = next] /\ UNCHANGED <<phase, pv>>

Fail(n) == Goto(n, "idle")

\* Mutant of Created: CapacityBytes is left out of the response.
CreatedNoSize(n, serial) ==
  /\ pc' = [pc EXCEPT ![n] = "idle"]
  /\ phase' = [phase EXCEPT ![n] = "bound"]
  /\ pv' = [pv EXCEPT ![n] = [serial |-> serial]]

Created(n, serial) ==
  /\ pc' = [pc EXCEPT ![n] = "idle"]
  /\ phase' = [phase EXCEPT ![n] = "bound"]
  /\ pv' = [pv EXCEPT ![n] = [serial |-> serial, size |-> req[n].size]]

Deleted(n) ==
  /\ pc' = [pc EXCEPT ![n] = "idle"]
  /\ phase' = [phase EXCEPT ![n] = "gone"]
  /\ pv' = [pv EXCEPT ![n] = NoPV]

-----------------------------------------------------------------------------
(* CreateVolume                                                            *)

\* Validation needs no API call; determineDvSource then looks up the source.
CValidate(n) ==
  /\ pc[n] = "c_validate"
  /\ IF ~Valid(req[n]) THEN Fail(n)
     ELSE Goto(n, IF req[n].src = Blank THEN "c_get" ELSE "c_src")
  /\ UNCHANGED <<dv, snaps, uids, req, storage>>

CSource(n) ==
  /\ pc[n] = "c_src"
  /\ LET s == req[n].src
     IN IF s \in snaps \/ (s \in Names /\ Mine(s)) THEN Goto(n, "c_get") ELSE Fail(n)
  /\ UNCHANGED <<dv, snaps, uids, req, storage>>

\* Mutant of CGet: the answer is built from the request's own object.
CGetOwnObject(n) ==
  /\ pc[n] = "c_get"
  /\ IF ~Exists(n) THEN Goto(n, "c_post")
     ELSE IF ~Mine(n) THEN Fail(n)
     ELSE IF dv[n].storage /\ dv[n].size # req[n].size THEN Fail(n)
     ELSE Created(n, 0)
  /\ UNCHANGED <<dv, snaps, uids, req, storage>>

\* An existing DataVolume of ours with the same size is the answer; without a
\* spec.storage nothing is compared and dv stays the object built locally, whose
\* UID is empty.
CGet(n) ==
  /\ pc[n] = "c_get"
  /\ IF ~Exists(n) THEN Goto(n, "c_post")
     ELSE IF ~Mine(n) THEN Fail(n)
     ELSE IF ~dv[n].storage THEN Created(n, 0)
     ELSE IF dv[n].size # req[n].size THEN Fail(n)
     ELSE Created(n, dv[n].uid)
  /\ UNCHANGED <<dv, snaps, uids, req, storage>>

\* CreateDataVolume refuses a foreign prefix, the API server a taken name.
Creatable(n) == n \in Prefixed /\ ~Exists(n) /\ uids < MaxUid

Post(n) ==
  /\ uids' = uids + 1
  /\ dv' = [dv EXCEPT ![n] =
       [uid |-> uids + 1, labelled |-> TRUE, storage |-> TRUE,
        size |-> req[n].size, class |-> req[n].class,
        rwx |-> IsRWX(req[n].caps), src |-> req[n].src]]

CPost(n) ==
  /\ pc[n] = "c_post"
  /\ IF Creatable(n) THEN Post(n) /\ Created(n, uids + 1)
     ELSE UNCHANGED <<dv, uids>> /\ Fail(n)
  /\ UNCHANGED <<snaps, req, storage>>

\* The DataVolume is created, the answer is lost.
CPostLost(n) ==
  /\ pc[n] = "c_post"
  /\ Creatable(n) /\ Post(n) /\ Fail(n)
  /\ UNCHANGED <<snaps, req, storage>>

-----------------------------------------------------------------------------
(* DeleteVolume                                                            *)

\* Mutant of DGet: whatever is called n is taken for the volume.
DGetAnyone(n) ==
  /\ pc[n] = "d_get"
  /\ IF ~Exists(n) THEN Deleted(n) ELSE Goto(n, "d_del")
  /\ UNCHANGED <<dv, snaps, uids, req, storage>>

DGet(n) ==
  /\ pc[n] = "d_get"
  /\ IF ~Exists(n) THEN Deleted(n)
     ELSE IF Mine(n) THEN Goto(n, "d_del") ELSE Fail(n)
  /\ UNCHANGED <<dv, snaps, uids, req, storage>>

\* Delete by name, without a UID precondition; NotFound is an error here.
DDelete(n) ==
  /\ pc[n] = "d_del"
  /\ IF Exists(n) THEN dv' = [dv EXCEPT ![n] = NoDV] /\ Deleted(n)
     ELSE UNCHANGED dv /\ Fail(n)
  /\ UNCHANGED <<snaps, uids, req, storage>>

DDeleteLost(n) ==
  /\ pc[n] = "d_del"
  /\ Exists(n)
  /\ dv' = [dv EXCEPT ![n] = NoDV]
  /\ Fail(n)
  /\ UNCHANGED <<snaps, uids, req, storage>>

\* Mutant of Abort: DeleteVolume swallows the error of its API calls.
AbortSwallowed(n) ==
  /\ pc[n] # "idle"
  /\ IF pc[n] = "d_del" THEN Deleted(n) ELSE Fail(n)
  /\ UNCHANGED <<dv, snaps, uids, req, storage>>

\* A call fails without effect, the deadline passes or the process is killed.
Abort(n) ==
  /\ pc[n] # "idle"
  /\ Fail(n)
  /\ UNCHANGED <<dv, snaps, uids, req, storage>>

-----------------------------------------------------------------------------
(* ControllerExpandVolume                                                  *)

\* GetPersistentVolumeClaim checks ownership like GetDataVolume; CDI copies the
\* labels of a DataVolume to its PVC.
MyClaim(n) == disk[n] # NoDisk /\ disk[n].labelled /\ n \in Prefixed

XGoto(n, next, size) ==
  rs' = [rs EXCEPT ![n].pc = next, ![n].size = size]

XFail(n) == rs' = [rs EXCEPT ![n] = NoExpand]

\* Mutant of XGet: a claim that is large enough ends the call, as on a retry.
XGetDone(n) ==
  /\ rs[n].pc = "x_get"
  /\ IF MyClaim(n) /\ disk[n].req < rs[n].want
     THEN XGoto(n, "x_patch", 0) /\ UNCHANGED pv
     ELSE /\ XFail(n)
          /\ pv' = IF MyClaim(n) THEN [pv EXCEPT ![n].size = rs[n].want] ELSE pv
  /\ UNCHANGED <<dv, snaps, uids, req, phase, pc, disk>>

\* ExpandPersistentVolumeClaim: a claim that is large enough is left alone.
XGet(n) ==
  /\ rs[n].pc = "x_get"
  /\ IF ~MyClaim(n) THEN XFail(n)
     ELSE XGoto(n, IF disk[n].req >= rs[n].want THEN "x_read" ELSE "x_patch", 0)
  /\ UNCHANGED <<dv, snaps, uids, req, phase, pv, pc, disk>>

\* The API server knows the claim by its name only and never lets it shrink.
Patchable(n) == disk[n] # NoDisk /\ disk[n].req < rs[n].want

XPatch(n) ==
  /\ rs[n].pc = "x_patch"
  /\ IF Patchable(n)
     THEN disk' = [disk EXCEPT ![n].req = rs[n].want] /\ XGoto(n, "x_read", 0)
     ELSE UNCHANGED disk /\ XFail(n)
  /\ UNCHANGED <<dv, snaps, uids, req, phase, pv, pc>>

XPatchLost(n) ==
  /\ rs[n].pc = "x_patch" /\ Patchable(n)
  /\ disk' = [disk EXCEPT ![n].req = rs[n].want]
  /\ XFail(n)
  /\ UNCHANGED <<dv, snaps, uids, req, phase, pv, pc>>

\* EnsureControllerResize reads the claim once and waits for the size it found.
XRead(n) ==
  /\ rs[n].pc = "x_read"
  /\ IF MyClaim(n) THEN XGoto(n, "x_poll", disk[n].req) ELSE XFail(n)
  /\ UNCHANGED <<dv, snaps, uids, req, phase, pv, pc, disk>>

\* One poll of the PV; "not yet" leaves the handler here. On success the resizer
\* records the size of the response, the one asked for, in the tenant's PV.
XPoll(n) ==
  /\ rs[n].pc = "x_poll"
  /\ disk[n] # NoDisk => disk[n].cap >= rs[n].size
  /\ XFail(n)
  /\ pv' = IF disk[n] # NoDisk /\ phase[n] = "bound"
           THEN [pv EXCEPT ![n].size = rs[n].want] ELSE pv
  /\ UNCHANGED <<dv, snaps, uids, req, phase, pc, disk>>

\* A call fails, two minutes pass, or the process is killed.
XAbort(n) ==
  /\ rs[n].pc # "idle" /\ XFail(n)
  /\ UNCHANGED <<dv, snaps, uids, req, phase, pv, pc, disk>>

\* The tenant asks for more than the PV records, again after each failure.
COExpand(n) ==
  /\ phase[n] = "bound" /\ n \in Expandable /\ rs[n].pc = "idle"
  /\ \E s \in GrownSizes :
       /\ s > pv[n].size
       /\ rs' = [rs EXCEPT ![n] = [pc |-> "x_get", want |-> s, size |-> 0]]
  /\ UNCHANGED <<dv, snaps, uids, req, phase, pv, pc, disk>>

\* CDI makes and binds the PVC of a DataVolume, of its size or a little more.
Bind(n) ==
  /\ Exists(n) /\ disk[n] = NoDisk /\ n \in Expandable
  /\ \E s \in Sizes \union GrownSizes :
       /\ s >= dv[n].size
       /\ disk' = [disk EXCEPT ![n] =
            [req |-> dv[n].size, cap |-> s, labelled |-> dv[n].labelled]]
  /\ UNCHANGED <<dv, snaps, uids, req, phase, pv, pc, rs>>

\* The infra cluster's resizer grows the PV to what the claim asks for.
Grow(n) ==
  /\ disk[n] # NoDisk /\ disk[n].cap < disk[n].req
  /\ disk' = [disk EXCEPT ![n].cap = disk[n].req]
  /\ UNCHANGED <<dv, snaps, uids, req, phase, pv, pc, rs>>

\* The PVC follows its DataVolume some time after it was deleted.
Collect(n) ==
  /\ disk[n] # NoDisk /\ ~Exists(n)
  /\ disk' = [disk EXCEPT ![n] = NoDisk]
  /\ UNCHANGED <<dv, snaps, uids, req, phase, pv, pc, rs>>

-----------------------------------------------------------------------------
(* The external-provisioner and the rest of the infra cluster.             *)

\* The CO picks the request, and may come back under the same name with another
\* one as long as none has succeeded.
COClaim(n) ==
  /\ phase[n] \in {"free", "wanted"} /\ pc[n] = "idle"
  /\ phase' = [phase EXCEPT ![n] = "wanted"]
  /\ \E r \in Requests : r.src # n /\ req' = [req EXCEPT ![n] = r]
  /\ UNCHANGED <<dv, snaps, uids, pv, pc, storage>>

COCreate(n) ==
  /\ phase[n] = "wanted" /\ pc[n] = "idle"
  /\ Goto(n, "c_validate")
  /\ UNCHANGED <<dv, snaps, uids, req, storage>>

CORelease(n) ==
  /\ phase[n] = "bound"
  /\ phase' = [phase EXCEPT ![n] = "releasing"]
  /\ UNCHANGED <<dv, snaps, uids, req, pv, pc, storage>>

CODelete(n) ==
  /\ phase[n] = "releasing" /\ pc[n] = "idle"
  /\ Goto(n, "d_get")
  /\ UNCHANGED <<dv, snaps, uids, req, storage>>

\* Someone else in the infra namespace takes a free name.
Foreign(n) ==
  /\ ~Exists(n) /\ uids < MaxUid
  /\ uids' = uids + 1
  /\ \E s \in Sizes :
       dv' = [dv EXCEPT ![n] =
         [uid |-> uids + 1, labelled |-> FALSE, storage |-> TRUE, size |-> s,
          class |-> NoClass, rwx |-> FALSE, src |-> Blank]]
  /\ UNCHANGED <<snaps, req, phase, pv, pc, storage>>

SnapshotGone(s) ==
  /\ s \in snaps
  /\ snaps' = snaps \ {s}
  /\ UNCHANGED <<dv, uids, req, phase, pv, pc, storage>>

Next ==
  \/ \E n \in Names :
       \/ CValidate(n) \/ CSource(n) \/ CGet(n) \/ CPost(n) \/ CPostLost(n)
       \/ DGet(n) \/ DDelete(n) \/ DDeleteLost(n) \/ Abort(n)
       \/ COClaim(n) \/ COCreate(n) \/ CORelease(n) \/ CODelete(n)
       \/ XGet(n) \/ XPatch(n) \/ XPatchLost(n) \/ XRead(n) \/ XPoll(n) \/ XAbort(n)
       \/ COExpand(n) \/ Bind(n) \/ Grow(n) \/ Collect(n)
       \/ Foreign(n)
  \/ \E s \in Snapshots : SnapshotGone(s)

Spec == Init /\ [][Next]_vars

-----------------------------------------------------------------------------
(* Properties                                                              *)

\* The shape of the state.
TypeOK ==
  /\ dv \in [Names -> {NoDV} \union
              [uid : 1..MaxUid, labelled : BOOLEAN, storage : BOOLEAN,
               size : Sizes \union {0}, class : Classes \union {NoClass},
               rwx : BOOLEAN, src : Names \union Snapshots \union {Blank}]]
  /\ snaps \subseteq Snapshots
  /\ uids \in 1..MaxUid
  /\ req \in [Names -> {NoReq} \union Requests]
  /\ phase \in [Names -> {"free", "wanted", "bound", "releasing", "gone"}]
  /\ pv \in [Names -> [serial : 0..MaxUid, size : Sizes \union GrownSizes \union {0}]]
  /\ pc \in [Names -> {"idle", "c_validate", "c_src", "c_get", "c_post",
                       "d_get", "d_del"}]
  /\ disk \in [Names -> {NoDisk} \union
                 [req : Sizes \union GrownSizes \union {0}, labelled : BOOLEAN,
                  cap : Sizes \union GrownSizes]]
  /\ rs \in [Names -> [pc : {"idle", "x_get", "x_patch", "x_read", "x_poll"},
                        want : GrownSizes \union {0},
                        size : Sizes \union GrownSizes \union {0}]]

\* A PV names the DataVolume that is there: its serial, by which the node finds
\* the disk, is that object's UID, and it is no smaller than that object asks for,
\* also when the answer of the call that created it was lost and a later
\* CreateVolume adopted it. Only an adopted DataVolume without spec.storage is
\* exempt from the comparison.
BoundIsBacked ==
  \A n \in Names : phase[n] = "bound" =>
    /\ Mine(n)
    /\ dv[n].storage =>
         pv[n].serial = dv[n].uid /\ pv[n].size >= dv[n].size

\* The size a tenant's PV records is there: the infra PV under it has at least that
\* capacity, after any number of expansions that timed out, were repeated with
\* another size or had their patch applied and its answer lost.
RecordedIsProvisioned ==
  \A n \in Names :
    phase[n] = "bound" /\ dv[n].storage /\ disk[n] # NoDisk =>
      pv[n].size <= disk[n].cap

\* A DataVolume without the driver's labels is never deleted, also when it took
\* the name of a volume whose DeleteVolume is repeated after a lost answer.
ForeignUntouched ==
  [][\A n \in Names : Exists(n) /\ ~dv[n].labelled => dv'[n] = dv[n]]_vars

\* After a successful DeleteVolume no DataVolume of the driver is left behind.
GoneIsDeleted == \A n \in Names : phase[n] = "gone" => ~Mine(n)

\* The driver creates volumes only in storage classes the policy admits.
PolicyHolds ==
  \A n \in Names : Mine(n) /\ n \notin AdminNames =>
    \/ AllowAll
    \/ dv[n].class \in AllowList
    \/ dv[n].class = NoClass /\ AllowDefault

\* "non-block volume with RWX access mode is not supported": a volume that the
\* tenant may publish on several nodes is a block volume.
SharedIsBlock ==
  \A n \in Names : phase[n] = "bound" =>
    ((\E i \in DOMAIN req[n].caps : req[n].caps[i].mode = "multi")
       => IsBlock(req[n].caps))
=============================================================================
