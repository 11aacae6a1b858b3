-------------------------- MODULE SnapshotCreation --------------------------
(***************************************************************************)
(* CreateSnapshot and DeleteSnapshot of pkg/service/controller.go with the *)
(* VolumeSnapshot calls and the snapshot class policy of                   *)
(* pkg/kubevirt/client.go. One step is one API call; the csi-snapshotter   *)
(* sidecar runs one RPC per snapshot name at a time and repeats it until   *)
(* it succeeds, while the infra cluster cuts snapshots and volumes are     *)
(* deleted underneath.                                                     *)
(***************************************************************************)
EXTENDS Naturals, Sequences

CONSTANTS
  Snaps,          \* snapshot names
  Vols,           \* source volumes (DataVolume = PVC name)
  ClassOf,        \* ClassOf[v]: storage class of v's PVC, or None
  SnapClasses,    \* infra volume snapshot classes
  None,           \* no class (the empty string)
  Reject,         \* the policy's error
  AllowAll, AllowDefault, AllowList,  \* storageClassEnforcement
  Mapping,        \* storageSnapshotMapping: <<[storage, snap], ...>>
  Size            \* the size of every volume

ASSUME SnapshotAssumption ==
  /\ AllowAll \in BOOLEAN /\ AllowDefault \in BOOLEAN
  /\ None \notin SnapClasses /\ Reject \notin SnapClasses \union {None}
  /\ \A i \in DOMAIN Mapping : Mapping[i].snap \subseteq SnapClasses
  /\ Size \in Nat \ {0}

VARIABLES
  dvs,     \* volumes that exist
  snap,    \* snap[s]: the VolumeSnapshot called s, or NoSnap
  want,    \* want[s]: source and class the CO asks for
  phase,   \* phase[s]: where the csi-snapshotter is with s
  report,  \* report[s]: what CreateSnapshot returned
  pc       \* pc[s]: next API call of s's handler, or "idle"

vars == <<dvs, snap, want, phase, report, pc>>
infra == <<dvs, snap>>

NoSnap == [src |-> None]
NoReport == [src |-> None, ready |-> FALSE, size |-> 0]
Wants == [src : Vols, class : SnapClasses \union {None}]

Exists(s) == snap[s] # NoSnap
Mine(s) == Exists(s) /\ snap[s].labelled   \* GetVolumeSnapshot: labels only

Init ==
  /\ dvs = Vols
  /\ snap = [s \in Snaps |-> NoSnap]
  /\ want \in [Snaps -> Wants]
  /\ phase = [s \in Snaps |-> "wanted"]
  /\ report = [s \in Snaps |-> NoReport]
  /\ pc = [s \in Snaps |-> "idle"]

-----------------------------------------------------------------------------
(* getSnapshotClassNameFromVolumeClaimName                                 *)

\* The snapshot classes of the first group that lists the storage class.
MappedClasses(class) ==
  LET groups == {i \in DOMAIN Mapping : class \in Mapping[i].storage}
  IN UNION {Mapping[i].snap : i \in {i \in groups : \A j \in groups : i <= j}}

\* Mutant of SnapshotClass: a class no group lists is passed on.
SnapshotClassUnchecked(class, asked) ==
  IF AllowDefault THEN None
  ELSE IF class = None \/ (class \notin AllowList /\ ~AllowAll) THEN Reject
  ELSE asked

SnapshotClass(class, asked) ==
  IF AllowDefault THEN None
  ELSE IF class = None \/ (class \notin AllowList /\ ~AllowAll) THEN Reject
  ELSE IF asked \in MappedClasses(class) THEN asked
  ELSE IF ~AllowAll THEN Reject
  ELSE None

-----------------------------------------------------------------------------
Goto(s, next) == pc' = [pc EXCEPT ![s] = next] /\ UNCHANGED <<phase, report>>

Fail(s) == Goto(s, "idle")

\* createSnapshotResponse: ReadyToUse and RestoreSize as they are right now.
Respond(s) ==
  /\ pc' = [pc EXCEPT ![s] = "idle"]
  /\ phase' = [phase EXCEPT ![s] = "cut"]
  /\ report' = [report EXCEPT ![s] =
       [src |-> snap[s].src, ready |-> snap[s].ready,
        size |-> IF snap[s].ready THEN Size ELSE 0]]

Deleted(s) ==
  /\ pc' = [pc EXCEPT ![s] = "idle"]
  /\ phase' = [phase EXCEPT ![s] = "gone"]
  /\ report' = [report EXCEPT ![s] = NoReport]

-----------------------------------------------------------------------------
(* CreateSnapshot                                                          *)

\* Mutant of SGet: the source of an existing snapshot is not compared.
SGetAnySource(s) ==
  /\ pc[s] = "s_get"
  /\ IF ~Exists(s) THEN Goto(s, "s_src")
     ELSE IF Mine(s) THEN Respond(s) ELSE Fail(s)
  /\ UNCHANGED <<infra, want>>

\* Mutant of SGet: an existing snapshot is always an error.
SGetNotIdempotent(s) ==
  /\ pc[s] = "s_get"
  /\ IF ~Exists(s) THEN Goto(s, "s_src") ELSE Fail(s)
  /\ UNCHANGED <<infra, want>>

\* GetVolumeSnapshot: an existing snapshot of the same source is the answer,
\* ready or not.
SGet(s) ==
  /\ pc[s] = "s_get"
  /\ IF ~Exists(s) THEN Goto(s, "s_src")
     ELSE IF Mine(s) /\ snap[s].src = want[s].src THEN Respond(s) ELSE Fail(s)
  /\ UNCHANGED <<infra, want>>

\* verifySourceVolumeExists
SSource(s) ==
  /\ pc[s] = "s_src"
  /\ IF want[s].src \in dvs THEN Goto(s, "s_dv") ELSE Fail(s)
  /\ UNCHANGED <<infra, want>>

\* CreateVolumeSnapshot gets the DataVolume again ...
SGetDV(s) ==
  /\ pc[s] = "s_dv"
  /\ IF want[s].src \in dvs THEN Goto(s, "s_class") ELSE Fail(s)
  /\ UNCHANGED <<infra, want>>

Chosen(s) == SnapshotClass(ClassOf[want[s].src], want[s].class)

\* Mutant of SClass: the policy's error is not propagated.
SClassIgnored(s) ==
  /\ pc[s] = "s_class"
  /\ IF want[s].src \in dvs THEN Goto(s, "s_post") ELSE Fail(s)
  /\ UNCHANGED <<infra, want>>

\* ... and its PVC, whose storage class decides on the snapshot class ...
SClass(s) ==
  /\ pc[s] = "s_class"
  /\ IF want[s].src \in dvs /\ Chosen(s) # Reject THEN Goto(s, "s_post") ELSE Fail(s)
  /\ UNCHANGED <<infra, want>>

\* ... and creates the VolumeSnapshot, of a PVC that may be gone by now.
Post(s) ==
  /\ ~Exists(s)
  /\ snap' = [snap EXCEPT ![s] = [src |-> want[s].src, labelled |-> TRUE,
                                  class |-> Chosen(s), ready |-> FALSE]]
  /\ UNCHANGED dvs

SPost(s) ==
  /\ pc[s] = "s_post"
  /\ \/ Post(s) /\ Goto(s, "s_wait")
     \/ Exists(s) /\ UNCHANGED infra /\ Fail(s)
  /\ UNCHANGED want

\* Created, but the answer is lost.
SPostLost(s) ==
  /\ pc[s] = "s_post"
  /\ Post(s) /\ Fail(s)
  /\ UNCHANGED want

\* EnsureSnapshotReady polls; GetVolumeSnapshot then reads it once more.
SWait(s) ==
  /\ pc[s] = "s_wait"
  /\ Mine(s) /\ snap[s].ready
  /\ Goto(s, "s_reget")
  /\ UNCHANGED <<infra, want>>

SReget(s) ==
  /\ pc[s] = "s_reget"
  /\ IF Mine(s) THEN Respond(s) ELSE Fail(s)
  /\ UNCHANGED <<infra, want>>

\* The 2-minute poll expires, or the snapshot is not there.
SWaitTimeout(s) ==
  /\ pc[s] = "s_wait"
  /\ Fail(s)
  /\ UNCHANGED <<infra, want>>

-----------------------------------------------------------------------------
(* DeleteSnapshot                                                          *)

\* Mutant of XGet: labels are not looked at.
XGetAnyone(s) ==
  /\ pc[s] = "x_get"
  /\ IF ~Exists(s) THEN Deleted(s) ELSE Goto(s, "x_del")
  /\ UNCHANGED <<infra, want>>

XGet(s) ==
  /\ pc[s] = "x_get"
  /\ IF ~Exists(s) THEN Deleted(s)
     ELSE IF Mine(s) THEN Goto(s, "x_del") ELSE Fail(s)
  /\ UNCHANGED <<infra, want>>

XDelete(s) ==
  /\ pc[s] = "x_del"
  /\ IF Exists(s) THEN snap' = [snap EXCEPT ![s] = NoSnap] /\ Deleted(s)
     ELSE UNCHANGED snap /\ Fail(s)
  /\ UNCHANGED <<dvs, want>>

XDeleteLost(s) ==
  /\ pc[s] = "x_del"
  /\ Exists(s)
  /\ snap' = [snap EXCEPT ![s] = NoSnap]
  /\ Fail(s)
  /\ UNCHANGED <<dvs, want>>

\* A call fails without effect, the deadline passes or the process is killed.
Abort(s) ==
  /\ pc[s] \notin {"idle", "s_wait"}
  /\ Fail(s)
  /\ UNCHANGED <<infra, want>>

-----------------------------------------------------------------------------
(* The csi-snapshotter, the infra cluster, and everyone else.              *)

COCreate(s) ==
  /\ phase[s] = "wanted" /\ pc[s] = "idle"
  /\ Goto(s, "s_get")
  /\ UNCHANGED <<infra, want>>

\* The CO comes back under the same name for another volume.
COChange(s) ==
  /\ phase[s] = "wanted" /\ pc[s] = "idle"
  /\ \E w \in Wants \ {want[s]} : want' = [want EXCEPT ![s] = w]
  /\ UNCHANGED <<infra, phase, report, pc>>

CORelease(s) ==
  /\ phase[s] = "cut"
  /\ phase' = [phase EXCEPT ![s] = "releasing"]
  /\ UNCHANGED <<infra, want, report, pc>>

CODelete(s) ==
  /\ phase[s] = "releasing" /\ pc[s] = "idle"
  /\ Goto(s, "x_get")
  /\ UNCHANGED <<infra, want>>

\* The infra cluster cuts the snapshot; it needs the PVC for that.
Cut(s) ==
  /\ Exists(s) /\ ~snap[s].ready /\ snap[s].src \in dvs
  /\ snap' = [snap EXCEPT ![s].ready = TRUE]
  /\ UNCHANGED <<dvs, want, phase, report, pc>>

\* A source volume is deleted, whether or not a snapshot of it is under way.
VolumeGone(v) ==
  /\ v \in dvs
  /\ dvs' = dvs \ {v}
  /\ UNCHANGED <<snap, want, phase, report, pc>>

\* Someone else in the infra namespace takes a free name.
Foreign(s, v) ==
  /\ ~Exists(s)
  /\ snap' = [snap EXCEPT ![s] = [src |-> v, labelled |-> FALSE,
                                  class |-> None, ready |-> FALSE]]
  /\ UNCHANGED <<dvs, want, phase, report, pc>>

-----------------------------------------------------------------------------
Handler(s) ==
  \/ SGet(s) \/ SSource(s) \/ SGetDV(s) \/ SClass(s) \/ SPost(s) \/ SWait(s)
  \/ SWaitTimeout(s) \/ SReget(s) \/ XGet(s) \/ XDelete(s)

Fault(s) == Abort(s) \/ SPostLost(s) \/ XDeleteLost(s)

COCall(s) == COCreate(s) \/ CODelete(s)

Next ==
  \/ \E s \in Snaps :
       \/ Handler(s) \/ Fault(s) \/ COCall(s) \/ COChange(s) \/ CORelease(s)
       \/ Cut(s) \/ \E v \in Vols : Foreign(s, v)
  \/ \E v \in Vols : VolumeGone(v)

Spec == Init /\ [][Next]_vars

Fairness == \A s \in Snaps :
  WF_vars(Handler(s)) /\ WF_vars(COCall(s)) /\ WF_vars(Cut(s))

FairSpec == Spec /\ Fairness

-----------------------------------------------------------------------------
(* Properties                                                              *)

\* The shape of the state.
TypeOK ==
  /\ dvs \subseteq Vols
  /\ snap \in [Snaps -> {NoSnap} \union
                [src : Vols, labelled : BOOLEAN, ready : BOOLEAN,
                 class : SnapClasses \union {None}]]
  /\ want \in [Snaps -> Wants]
  /\ phase \in [Snaps -> {"wanted", "cut", "releasing", "gone"}]
  /\ report \in [Snaps -> [src : Vols \union {None}, ready : BOOLEAN,
                           size : {0, Size}]]
  /\ pc \in [Snaps -> {"idle", "s_get", "s_src", "s_dv", "s_class", "s_post",
                       "s_wait", "s_reget", "x_get", "x_del"}]

\* A snapshot reported as taken exists, is the driver's, and is one of the
\* volume that was asked for, whichever earlier attempt created it.
CutIsFaithful ==
  \A s \in Snaps : phase[s] = "cut" =>
    /\ Mine(s)
    /\ snap[s].src = want[s].src
    /\ report[s].src = want[s].src

\* A VolumeSnapshot without the driver's labels is never deleted.
ForeignUntouched ==
  [][\A s \in Snaps : Exists(s) /\ ~snap[s].labelled
                        => Exists(s)' /\ ~snap'[s].labelled]_vars

\* With neither allowAll nor allowDefault, every snapshot the driver creates has
\* a class that the configuration groups with its volume's storage class.
ClassIsMapped ==
  ~AllowAll /\ ~AllowDefault =>
    \A s \in Snaps : Mine(s) =>
      \E i \in DOMAIN Mapping : /\ ClassOf[snap[s].src] \in Mapping[i].storage
                                /\ snap[s].class \in Mapping[i].snap

FaultsCease == <>[][\A s \in Snaps : Fault(s) => Handler(s)]_vars

Admitted(s) == want[s].src \in dvs /\ Chosen(s) # Reject
NameTaken(s) == Exists(s) /\ ~(Mine(s) /\ snap[s].src = want[s].src)

\* Once faults cease, a request for a snapshot ends in a successful
\* CreateSnapshot unless the policy rejects it, its volume goes away or the name
\* is taken: a retry finds what a timed-out or lost attempt has created.
CreateCompletes ==
  FaultsCease => \A s \in Snaps :
    phase[s] = "wanted"
      ~> (phase[s] # "wanted" \/ ~Admitted(s) \/ NameTaken(s))

\* "Need to wait for the snapshot to be ready in the infra cluster so we can
\* properly report the size": a reported snapshot has its size.
ReportHasSize == \A s \in Snaps : phase[s] = "cut" => report[s].size = Size
=============================================================================
