---------------------------- MODULE NodeService ----------------------------
(***************************************************************************)
(* The node side of the driver, pkg/service/node.go: NodeStageVolume,      *)
(* NodeUnstageVolume, NodePublishVolume, NodeUnpublishVolume and           *)
(* NodeExpandVolume of one tenant node, over its disks, file systems and   *)
(* mount table, as the kubelet calls them.                                 *)
(*                                                                         *)
(* One step is one command or system call (lsblk, mkfs, stat, mkdir,       *)
(* mount, umount, RemoveAll, findmnt, resize) with the decision taken on   *)
(* its outcome. The handlers ignore the RPC's context: a call the kubelet  *)
(* has given up on runs to its end, and nobody hears its answer. Nothing   *)
(* in the driver keeps the next call for the same volume or target from    *)
(* running beside it.                                                      *)
(***************************************************************************)
EXTENDS Naturals, FiniteSets

CONSTANTS
  Vols,      \* volumes; a volume's serial identifies its disk
  Targets,   \* target paths, one per pod and volume
  VolOf,     \* VolOf[t]: the volume published at t
  Block,     \* the raw block volumes
  Calls,     \* call slots: how many calls for one object may run at a time
  NoCall,    \* no call is being waited for
  MaxSize    \* bound on disk sizes

ASSUME NodeAssumption ==
  /\ VolOf \in [Targets -> Vols]
  /\ Vols \intersect Targets = {}
  /\ Block \subseteq Vols
  /\ NoCall \notin Calls /\ IsFiniteSet(Calls)
  /\ MaxSize \in Nat \ {0}

VARIABLES
  plugged,  \* volumes whose disk is visible in the node
  size,     \* size[v]: size of the disk
  fs,       \* fs[v]: size of the file system on it, 0 for none
  data,     \* volumes that hold data of a pod
  path,     \* target paths that exist (directory, or file for block)
  mnt,      \* mnt[t]: number of mounts stacked on t
  phase,    \* phase[o]: where the kubelet is with a volume or a target
  grow,     \* targets for which the kubelet owes a NodeExpandVolume
  cur,      \* cur[o]: the call the kubelet waits for, or NoCall
  pc,       \* pc[o][c]: next step of call c for o, or "idle"
  mixed     \* history: objects with a call that was started beside a running
            \* one, until an unpublish or unstage has succeeded alone

disks == <<plugged, size, fs, data>>
node == <<disks, path, mnt>>
kubelet == <<phase, grow, cur>>
vars == <<plugged, size, fs, data, path, mnt, phase, grow, cur, pc, mixed>>

Objects == Vols \union Targets
TargetsOf(v) == {t \in Targets : VolOf[t] = v}
InUse(v) == \E t \in TargetsOf(v) : mnt[t] > 0

StageSteps == {"s_list", "s_mkfs", "x_done"}
TargetSteps == {"p_list", "p_check", "p_path", "p_mount", "r_need", "r_grow",
                "u_umount", "u_remove", "e_find"}

\* Disks are new, or come with a file system or raw data (a snapshot, another node).
Init ==
  /\ plugged = {}
  /\ size = [v \in Vols |-> 1]
  /\ fs \in [Vols -> {0, 1}] /\ \A v \in Block : fs[v] = 0
  /\ \E raw \in SUBSET Block : data = {v \in Vols : fs[v] # 0} \union raw
  /\ path = {}
  /\ mnt = [t \in Targets |-> 0]
  /\ phase = [o \in Objects |-> "none"]
  /\ grow = {}
  /\ cur = [o \in Objects |-> NoCall]
  /\ pc = [o \in Objects |-> [c \in Calls |-> "idle"]]
  /\ mixed = {}

-----------------------------------------------------------------------------
(* How a call moves on.                                                    *)

Alone(o, c) == \A d \in Calls \ {c} : pc[o][d] = "idle"

Goto(o, c, next) ==
  /\ pc' = [pc EXCEPT ![o][c] = next]
  /\ UNCHANGED <<kubelet, mixed>>

Done == [staging |-> "staged", unstaging |-> "none", publishing |-> "published",
         expanding |-> "published", unpublishing |-> "none"]

\* The kubelet hears of a result only while it waits for this very call.
Fail(o, c) ==
  /\ pc' = [pc EXCEPT ![o][c] = "idle"]
  /\ cur' = [cur EXCEPT ![o] = IF @ = c THEN NoCall ELSE @]
  /\ UNCHANGED <<phase, grow, mixed>>

Succeed(o, c) ==
  /\ pc' = [pc EXCEPT ![o][c] = "idle"]
  /\ cur' = [cur EXCEPT ![o] = IF @ = c THEN NoCall ELSE @]
  /\ phase' = [phase EXCEPT ![o] = IF cur[o] = c THEN Done[@] ELSE @]
  /\ grow' = IF cur[o] = c /\ phase[o] = "unpublishing" THEN grow \ {o} ELSE grow
  /\ mixed' = IF cur[o] = c /\ Done[phase[o]] = "none" /\ Alone(o, c)
              THEN mixed \ {o} ELSE mixed

-----------------------------------------------------------------------------
(* NodeStageVolume and NodeUnstageVolume                                   *)

\* Mutant of SList: the file system lsblk reports is not looked at.
SListNoCheck(v, c) ==
  /\ pc[v][c] = "s_list"
  /\ IF v \in Block THEN Succeed(v, c)
     ELSE IF v \notin plugged THEN Fail(v, c) ELSE Goto(v, c, "s_mkfs")
  /\ UNCHANGED node

\* getDeviceBySerialID with lsblk, which also reports the file system.
SList(v, c) ==
  /\ pc[v][c] = "s_list"
  /\ IF v \in Block THEN Succeed(v, c)
     ELSE IF v \notin plugged THEN Fail(v, c)
     ELSE IF fs[v] # 0 THEN Succeed(v, c)
     ELSE Goto(v, c, "s_mkfs")
  /\ UNCHANGED node

\* mkfs with the force flag; it refuses a mounted device all the same.
SMkfs(v, c) ==
  /\ pc[v][c] = "s_mkfs"
  /\ IF v \in plugged /\ ~InUse(v)
     THEN /\ fs' = [fs EXCEPT ![v] = size[v]]
          /\ data' = data \ {v}
          /\ Succeed(v, c)
     ELSE UNCHANGED <<fs, data>> /\ Fail(v, c)
  /\ UNCHANGED <<plugged, size, path, mnt>>

\* NodeUnstageVolume does nothing.
Unstage(v, c) ==
  /\ pc[v][c] = "x_done"
  /\ Succeed(v, c)
  /\ UNCHANGED node

-----------------------------------------------------------------------------
(* NodePublishVolume                                                       *)

PList(t, c) ==
  /\ pc[t][c] = "p_list"
  /\ IF VolOf[t] \in plugged THEN Goto(t, c, "p_check") ELSE Fail(t, c)
  /\ UNCHANGED node

\* What follows the mount: the file system is brought to the disk's size.
Mounted(t, c) ==
  IF VolOf[t] \in Block THEN Succeed(t, c) ELSE Goto(t, c, "r_need")

\* Mutant of PCheck: it mounts without looking.
PCheckBlind(t, c) ==
  /\ pc[t][c] = "p_check"
  /\ Goto(t, c, "p_path")
  /\ UNCHANGED node

\* Mutant of PCheck: an existing path is taken for a mount point.
PCheckPath(t, c) ==
  /\ pc[t][c] = "p_check"
  /\ IF t \notin path THEN Goto(t, c, "p_path") ELSE Mounted(t, c)
  /\ UNCHANGED node

\* Mutant of PCheck: what is mounted is not resized.
PCheckNoResize(t, c) ==
  /\ pc[t][c] = "p_check"
  /\ IF mnt[t] = 0 THEN Goto(t, c, "p_path") ELSE Succeed(t, c)
  /\ UNCHANGED node

\* IsLikelyNotMountPoint; a missing path is not a mount point.
PCheck(t, c) ==
  /\ pc[t][c] = "p_check"
  /\ IF mnt[t] = 0 THEN Goto(t, c, "p_path") ELSE Mounted(t, c)
  /\ UNCHANGED node

\* Mutant of PPath: Mkdir where MkdirAll should be.
PPathOnce(t, c) ==
  /\ pc[t][c] = "p_path"
  /\ path' = path \union {t}
  /\ IF t \in path THEN Fail(t, c) ELSE Goto(t, c, "p_mount")
  /\ UNCHANGED <<disks, mnt>>

\* ensureMountFileExists for block, MkdirAll otherwise.
PPath(t, c) ==
  /\ pc[t][c] = "p_path"
  /\ path' = path \union {t}
  /\ Goto(t, c, "p_mount")
  /\ UNCHANGED <<disks, mnt>>

PMount(t, c) ==
  /\ pc[t][c] = "p_mount"
  /\ IF t \in path /\ VolOf[t] \in plugged /\ (VolOf[t] \in Block \/ fs[VolOf[t]] # 0)
     THEN mnt' = [mnt EXCEPT ![t] = @ + 1] /\ Mounted(t, c)
     ELSE UNCHANGED mnt /\ Fail(t, c)
  /\ UNCHANGED <<disks, path>>

-----------------------------------------------------------------------------
(* resizeFs, also the second half of NodeExpandVolume                      *)

RNeed(t, c) ==
  /\ pc[t][c] = "r_need"
  /\ IF VolOf[t] \notin plugged THEN Fail(t, c)
     ELSE IF size[VolOf[t]] > fs[VolOf[t]] THEN Goto(t, c, "r_grow")
     ELSE Succeed(t, c)
  /\ UNCHANGED node

RGrow(t, c) ==
  /\ pc[t][c] = "r_grow"
  /\ IF VolOf[t] \in plugged
     THEN fs' = [fs EXCEPT ![VolOf[t]] = size[VolOf[t]]] /\ Succeed(t, c)
     ELSE UNCHANGED fs /\ Fail(t, c)
  /\ UNCHANGED <<plugged, size, data, path, mnt>>

\* NodeExpandVolume: findmnt --target names the device mounted at t, or, when
\* nothing is, the one t's parents are on, which needs no resize.
EFind(t, c) ==
  /\ pc[t][c] = "e_find"
  /\ IF VolOf[t] \in Block THEN Succeed(t, c)
     ELSE IF t \notin path THEN Fail(t, c)
     ELSE IF mnt[t] > 0 THEN Goto(t, c, "r_need") ELSE Succeed(t, c)
  /\ UNCHANGED node

-----------------------------------------------------------------------------
(* NodeUnpublishVolume                                                     *)

\* umount: "not mounted" is no error for Unmount, a missing path is.
UUmount(t, c) ==
  /\ pc[t][c] = "u_umount"
  /\ IF t \notin path THEN UNCHANGED mnt /\ Fail(t, c)
     ELSE /\ mnt' = [mnt EXCEPT ![t] = IF @ > 0 THEN @ - 1 ELSE 0]
          /\ Goto(t, c, "u_remove")
  /\ UNCHANGED <<disks, path>>

\* Mutant of URemove: the target path is left behind.
URemoveNothing(t, c) ==
  /\ pc[t][c] = "u_remove"
  /\ Succeed(t, c)
  /\ UNCHANGED node

\* os.RemoveAll: on a path that is still mounted it empties the file system
\* before it fails on the mount point itself.
URemove(t, c) ==
  /\ pc[t][c] = "u_remove"
  /\ IF mnt[t] = 0
     THEN path' = path \ {t} /\ UNCHANGED data /\ Succeed(t, c)
     ELSE /\ UNCHANGED path
          /\ data' = IF VolOf[t] \in Block THEN data ELSE data \ {VolOf[t]}
          /\ Fail(t, c)
  /\ UNCHANGED <<plugged, size, fs, mnt>>

-----------------------------------------------------------------------------
(* Faults                                                                  *)

\* A command or system call fails without effect.
StepError(o, c) ==
  /\ pc[o][c] \notin {"idle", "x_done"}
  /\ Fail(o, c)
  /\ UNCHANGED node

\* The kubelet's deadline passes, or it restarts; the call goes on.
Abandon(o) ==
  /\ cur[o] # NoCall
  /\ cur' = [cur EXCEPT ![o] = NoCall]
  /\ UNCHANGED <<node, phase, grow, pc, mixed>>

\* The driver's process dies with all its calls.
Crash ==
  /\ pc' = [o \in Objects |-> [c \in Calls |-> "idle"]]
  /\ cur' = [o \in Objects |-> NoCall]
  /\ UNCHANGED <<node, phase, grow, mixed>>

-----------------------------------------------------------------------------
(* The kubelet                                                             *)

\* It has at most one call per object that it waits for. One it gave up on may
\* still run.
Call(o, c, first) ==
  /\ cur[o] = NoCall /\ pc[o][c] = "idle"
  /\ cur' = [cur EXCEPT ![o] = c]
  /\ pc' = [pc EXCEPT ![o][c] = first]
  /\ mixed' = IF Alone(o, c) THEN mixed ELSE mixed \union {o}
  /\ UNCHANGED <<node, phase, grow>>

KubeletCall(o, c) ==
  \/ phase[o] = "staging" /\ Call(o, c, "s_list")
  \/ phase[o] = "unstaging" /\ Call(o, c, "x_done")
  \/ phase[o] = "publishing" /\ Call(o, c, "p_list")
  \/ phase[o] = "expanding" /\ Call(o, c, "e_find")
  \/ phase[o] = "unpublishing" /\ Call(o, c, "u_umount")

Decide(o, next) ==
  /\ cur[o] = NoCall
  /\ phase' = [phase EXCEPT ![o] = next]
  /\ UNCHANGED <<node, cur, pc, mixed>>

\* Pods come and go.
KubeletDecide(o) ==
  /\ \/ o \in Vols /\ phase[o] = "none" /\ Decide(o, "staging")
     \/ /\ o \in Vols /\ phase[o] \in {"staging", "staged"}
        /\ \A t \in TargetsOf(o) : phase[t] = "none"
        /\ Decide(o, "unstaging")
     \/ /\ o \in Targets /\ phase[o] = "none" /\ phase[VolOf[o]] = "staged"
        /\ Decide(o, "publishing")
     \/ /\ o \in Targets /\ phase[o] \in {"publishing", "published", "expanding"}
        /\ Decide(o, "unpublishing")
  /\ UNCHANGED grow

\* A finished controller expansion is followed up at every mounted target. The
\* call is for the size known now; a disk that grows meanwhile is owed another.
KubeletExpand(t) ==
  /\ phase[t] = "published" /\ t \in grow
  /\ Decide(t, "expanding")
  /\ grow' = grow \ {t}

-----------------------------------------------------------------------------
(* The world outside                                                       *)

\* ControllerPublishVolume's hot-plug reaches the guest, sooner or later.
DiskAppears(v) ==
  /\ v \notin plugged /\ phase[v] # "none"
  /\ plugged' = plugged \union {v}
  /\ UNCHANGED <<size, fs, data, path, mnt, kubelet, pc, mixed>>

DiskLeaves(v) ==
  /\ v \in plugged /\ phase[v] = "none"
  /\ plugged' = plugged \ {v}
  /\ UNCHANGED <<size, fs, data, path, mnt, kubelet, pc, mixed>>

\* ControllerExpandVolume has enlarged the disk. The kubelet follows up where
\* the volume is in use; elsewhere the next NodePublishVolume has to.
DiskGrows(v) ==
  /\ size[v] < MaxSize
  /\ size' = [size EXCEPT ![v] = @ + 1]
  /\ grow' = grow \union {t \in TargetsOf(v) : phase[t] # "none"}
  /\ UNCHANGED <<plugged, fs, data, path, mnt, phase, cur, pc, mixed>>

PodWrites(t) ==
  /\ phase[t] = "published" /\ mnt[t] > 0
  /\ data' = data \union {VolOf[t]}
  /\ UNCHANGED <<plugged, size, fs, path, mnt, kubelet, pc, mixed>>

-----------------------------------------------------------------------------
Handler(o, c) ==
  \/ /\ o \in Vols
     /\ SList(o, c) \/ SMkfs(o, c) \/ Unstage(o, c)
  \/ /\ o \in Targets
     /\ \/ PList(o, c) \/ PCheck(o, c) \/ PPath(o, c) \/ PMount(o, c)
        \/ RNeed(o, c) \/ RGrow(o, c) \/ EFind(o, c)
        \/ UUmount(o, c) \/ URemove(o, c)

Fault == Crash \/ \E o \in Objects : Abandon(o) \/ \E c \in Calls : StepError(o, c)

Next ==
  \/ \E o \in Objects :
       \/ \E c \in Calls : Handler(o, c) \/ KubeletCall(o, c)
       \/ KubeletDecide(o)
  \/ Fault
  \/ \E v \in Vols : DiskAppears(v) \/ DiskLeaves(v) \/ DiskGrows(v)
  \/ \E t \in Targets : PodWrites(t) \/ KubeletExpand(t)

Spec == Init /\ [][Next]_vars

Fairness ==
  /\ \A o \in Objects, c \in Calls :
       WF_vars(Handler(o, c)) /\ WF_vars(KubeletCall(o, c))
  /\ \A v \in Vols : WF_vars(DiskAppears(v))

FairSpec == Spec /\ Fairness

-----------------------------------------------------------------------------
(* Properties                                                              *)

\* The shape of the state. No target has more mounts than calls can overlap.
TypeOK ==
  /\ plugged \subseteq Vols /\ data \subseteq Vols
  /\ size \in [Vols -> 1..MaxSize] /\ fs \in [Vols -> 0..MaxSize]
  /\ path \subseteq Targets /\ grow \subseteq Targets /\ mixed \subseteq Objects
  /\ mnt \in [Targets -> 0..Cardinality(Calls)]
  /\ \A v \in Vols : phase[v] \in {"none", "staging", "staged", "unstaging"}
  /\ \A t \in Targets :
       phase[t] \in {"none", "publishing", "published", "expanding", "unpublishing"}
  /\ cur \in [Objects -> Calls \union {NoCall}]
  /\ \A o \in Objects, c \in Calls :
       pc[o][c] \in {"idle"} \union (IF o \in Vols THEN StageSteps ELSE TargetSteps)

\* After a successful NodePublishVolume the volume is mounted at its target,
\* whatever an earlier call that failed or died half-way left there. Only a target
\* whose calls have run side by side is exempt: the umount of an unpublish that the
\* kubelet gave up on may come after the next publish.
PublishedIsMounted ==
  \A t \in Targets : phase[t] = "published" /\ t \notin mixed => mnt[t] > 0

\* After a successful NodeUnpublishVolume nothing is mounted at the target and the
\* path is gone, also when calls before it failed half-way, and even when calls for
\* the target have overlapped, provided none still runs beside the unpublish.
UnpublishedIsClean ==
  \A t \in Targets : phase[t] = "none" /\ t \notin mixed => mnt[t] = 0 /\ t \notin path

\* Once NodePublishVolume or NodeExpandVolume has succeeded and no further
\* expansion is owed, the file system fills the disk, also when the mount
\* succeeded in one call and the resize in a later one, or the disk has grown in
\* between. Targets whose calls have overlapped are exempt.
FullSize ==
  \A t \in Targets :
    phase[t] = "published" /\ t \notin grow \union mixed /\ VolOf[t] \notin Block
      => fs[VolOf[t]] = size[VolOf[t]]

\* What a pod has written is destroyed only where calls for the volume, or for one
\* of its targets, have overlapped: a check made for one call (no file system, not
\* mounted, unmounted) is stale only because of another call for the same object,
\* never because of calls for other targets of the volume, a crash or a retry. With
\* overlaps it can be: the mount of an abandoned publish may come between the umount
\* and the RemoveAll of an unpublish, and of two stage calls that have both seen no
\* file system the second may format after a pod has written.
LossNeedsOverlap ==
  [][\A v \in data : v \in data' \/ mixed \intersect ({v} \union TargetsOf(v)) # {}]_vars

\* From some point on no call is failed, killed or given up from outside: a
\* step a fault could have caused is one that a handler takes by itself.
FaultsCease ==
  <>[][Fault => \E o \in Objects, c \in Calls : Handler(o, c)]_vars

\* Once faults cease, a target the kubelet wants published gets published: what
\* a failed call has left behind never stops the next one.
PublishCompletes ==
  FaultsCease => \A t \in Targets :
    phase[t] = "publishing" ~> phase[t] \in {"published", "unpublishing"}

\* csi-test's "should be idempotent": a repeated NodeUnpublishVolume succeeds.
UnpublishCompletes ==
  FaultsCease => \A t \in Targets :
    phase[t] = "unpublishing" ~> phase[t] = "none"
=============================================================================
