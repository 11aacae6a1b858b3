---------------------------- MODULE VolumeAttach ----------------------------
(***************************************************************************)
(* ControllerPublishVolume and ControllerUnpublishVolume of                *)
(* pkg/service/controller.go, with the client calls of                     *)
(* pkg/kubevirt/client.go they make, running against the KubeVirt API of   *)
(* the infra cluster and driven by the external-attacher sidecar.          *)
(*                                                                         *)
(* One step is one API call of a handler together with the decision taken  *)
(* on its answer, so every interleaving of handlers with each other and    *)
(* with the KubeVirt controllers is explored. The handlers of one          *)
(* controller process run concurrently, one per <<VM, volume>>.            *)
(***************************************************************************)
EXTENDS Naturals

CONSTANTS
  Vols,          \* DataVolumes (volume id = DataVolume name = disk name)
  VMs,           \* infra VMs (node id = namespace/VM name)
  RWX,           \* volumes published with a multi-node access mode
  Carried,       \* <<n, v>> hot-plugged at VMI level by an older driver
  Static,        \* <<n, v>> where v is a permanent disk of VM n
  Restartable,   \* VMs whose instance may stop and start
  Deletable,     \* VMs a cluster teardown may delete
  BackoffSteps   \* wait.Backoff.Steps of both retry loops (5 in the code)

ASSUME AttachAssumption ==
  /\ RWX \subseteq Vols
  /\ Carried \subseteq VMs \X Vols
  /\ Static \subseteq VMs \X Vols
  /\ Carried \intersect Static = {}
  /\ \A v \in Vols \ RWX : \A n, m \in VMs :
       <<n, v>> \in Carried /\ <<m, v>> \in Carried => n = m
  /\ Restartable \subseteq VMs
  /\ Deletable \subseteq VMs
  /\ BackoffSteps \in Nat \ {0}

VARIABLES
  dvs,    \* DataVolumes that exist
  vms,    \* VirtualMachine objects that exist
  vmis,   \* VirtualMachineInstance objects that exist
  spec,   \* spec[n][v]: v in VM n's spec.template.spec.volumes
  st,     \* st[n][v]: v's entry in VMI n's status.volumeStatus
  va,     \* va[n][v]: the CO's VolumeAttachment
  pc,     \* pc[n][v]: the next API call of the handler, or "idle"
  tries   \* tries[n][v]: failed attempts of its ExponentialBackoff loop

infra == <<dvs, vms, vmis, spec, st>>
vars == <<dvs, vms, vmis, spec, st, va, pc, tries>>

-----------------------------------------------------------------------------
(* What the objects can say about a volume.                                *)

SpecStates == {"absent",    \* no entry
               "hotplug",   \* DataVolume entry with Hotpluggable = true
               "static"}    \* entry of the VM's own definition

StStates == {"none",        \* no entry
             "pending",     \* hot-plug entry, Phase # Ready
             "ready",       \* hot-plug entry, Phase = Ready
             "carried",     \* Ready hot-plug entry the VM's spec never had
             "detaching",   \* hot-plug entry being unplugged
             "static"}      \* entry with HotplugVolume = nil

HotplugSt == {"pending", "ready", "carried", "detaching"}

PollPCs == {"p_wait", "p_waitvm", "u_wait", "u_waitvm"}
PublishPCs == {"p_check", "p_dv", "p_vm", "p_fast", "p_found", "p_add",
               "p_wait", "p_waitvm"}
UnpublishPCs == {"u_vm", "u_spec", "u_vmi", "u_rm", "u_put", "u_rmvmi",
                 "u_putvmi", "u_wait", "u_waitvm"}

\* Steps inside the retried functions addVolumeToVm and removeVolumeFromVm.
RetriedPCs == {"p_found", "p_add", "u_rm", "u_put", "u_rmvmi", "u_putvmi"}

InSpec(n, v) == n \in vms /\ spec[n][v] # "absent"
HotplugInSpec(n, v) == n \in vms /\ spec[n][v] = "hotplug"
InStatus(n, v) == n \in vmis /\ st[n][v] # "none"
HotplugInStatus(n, v) == n \in vmis /\ st[n][v] \in HotplugSt

\* The infra cluster has v hot-plugged into n, or will on the next VMI start.
Holds(n, v) == HotplugInSpec(n, v) \/ HotplugInStatus(n, v)

Init ==
  /\ dvs = Vols /\ vms = VMs /\ vmis = VMs
  /\ spec = [n \in VMs |-> [v \in Vols |->
               IF <<n, v>> \in Static THEN "static" ELSE "absent"]]
  /\ st = [n \in VMs |-> [v \in Vols |->
             IF <<n, v>> \in Static THEN "static"
             ELSE IF <<n, v>> \in Carried THEN "carried" ELSE "none"]]
  /\ va = [n \in VMs |-> [v \in Vols |->
             IF <<n, v>> \in Carried THEN "attached" ELSE "none"]]
  /\ pc = [n \in VMs |-> [v \in Vols |-> "idle"]]
  /\ tries = [n \in VMs |-> [v \in Vols |-> 0]]

-----------------------------------------------------------------------------
(* How a handler moves on.                                                 *)

Goto(n, v, next) ==
  /\ pc' = [pc EXCEPT ![n][v] = next]
  /\ UNCHANGED <<tries, va>>

\* The RPC returns an error; the CO keeps the VolumeAttachment as it is.
Fail(n, v) ==
  /\ pc' = [pc EXCEPT ![n][v] = "idle"]
  /\ tries' = [tries EXCEPT ![n][v] = 0]
  /\ UNCHANGED va

\* The RPC returns OK and the CO records the outcome.
Succeed(n, v, phase) ==
  /\ pc' = [pc EXCEPT ![n][v] = "idle"]
  /\ tries' = [tries EXCEPT ![n][v] = 0]
  /\ va' = [va EXCEPT ![n][v] = phase]

\* Mutant of RetryAt: one attempt too many.
RetryAtOneMore(n, v, first) ==
  IF tries[n][v] < BackoffSteps
  THEN /\ pc' = [pc EXCEPT ![n][v] = first]
       /\ tries' = [tries EXCEPT ![n][v] = @ + 1]
       /\ UNCHANGED va
  ELSE Fail(n, v)

\* wait.ExponentialBackoff: the attempt failed; start over at first, or give
\* up after BackoffSteps attempts.
RetryAt(n, v, first) ==
  IF tries[n][v] + 1 < BackoffSteps
  THEN /\ pc' = [pc EXCEPT ![n][v] = first]
       /\ tries' = [tries EXCEPT ![n][v] = @ + 1]
       /\ UNCHANGED va
  ELSE Fail(n, v)

AttemptStart(p) == IF p \in PublishPCs THEN "p_found" ELSE "u_rm"

-----------------------------------------------------------------------------
(* ControllerPublishVolume                                                 *)

\* IsVolumeAttachedToOtherVMI: any VMI but n's whose status lists v.
OnOtherVMI(n, v) == \E m \in VMs \ {n} : InStatus(m, v)

\* Mutant of PCheck: the access-mode test is the wrong way round.
PCheckInverted(n, v) ==
  /\ pc[n][v] = "p_check"
  /\ IF v \in RWX /\ OnOtherVMI(n, v) THEN Fail(n, v) ELSE Goto(n, v, "p_dv")
  /\ UNCHANGED infra

PCheck(n, v) ==
  /\ pc[n][v] = "p_check"
  /\ IF v \notin RWX /\ OnOtherVMI(n, v) THEN Fail(n, v) ELSE Goto(n, v, "p_dv")
  /\ UNCHANGED infra

PGetDV(n, v) ==
  /\ pc[n][v] = "p_dv"
  /\ IF v \in dvs THEN Goto(n, v, "p_vm") ELSE Fail(n, v)
  /\ UNCHANGED infra

PGetVM(n, v) ==
  /\ pc[n][v] = "p_vm"
  /\ IF n \in vms THEN Goto(n, v, "p_fast") ELSE Fail(n, v)
  /\ UNCHANGED infra

\* EnsureVolumeAvailableVM as the fast path: an entry in the VM's spec is
\* enough, whatever the VMI's status says.
PFastPath(n, v) ==
  /\ pc[n][v] = "p_fast"
  /\ IF InSpec(n, v) THEN Succeed(n, v, "attached") ELSE Goto(n, v, "p_found")
  /\ UNCHANGED infra

\* isVolumeAttached inside addVolumeToVm.
PFound(n, v) ==
  /\ pc[n][v] = "p_found"
  /\ IF n \notin vms THEN RetryAt(n, v, "p_found")
     ELSE Goto(n, v, IF HotplugInSpec(n, v) THEN "p_wait" ELSE "p_add")
  /\ UNCHANGED infra

\* AddVolumeToVM: virt-api's addvolume subresource puts the volume into the
\* VM's spec; it answers with an error when there is no VM or the name is taken.
PAdd(n, v) ==
  /\ pc[n][v] = "p_add"
  /\ IF n \in vms /\ spec[n][v] = "absent"
     THEN spec' = [spec EXCEPT ![n][v] = "hotplug"] /\ Goto(n, v, "p_wait")
     ELSE UNCHANGED spec /\ RetryAt(n, v, "p_found")
  /\ UNCHANGED <<dvs, vms, vmis, st>>

\* The same call, applied by the API server, whose answer is lost.
PAddLost(n, v) ==
  /\ pc[n][v] = "p_add"
  /\ n \in vms /\ spec[n][v] = "absent"
  /\ spec' = [spec EXCEPT ![n][v] = "hotplug"]
  /\ RetryAt(n, v, "p_found")
  /\ UNCHANGED <<dvs, vms, vmis, st>>

\* EnsureVolumeAvailable polls the VMI; a missing VMI is an error at once.
PWait(n, v) ==
  /\ pc[n][v] = "p_wait"
  /\ \/ n \notin vmis /\ Fail(n, v)
     \/ n \in vmis /\ st[n][v] \in {"ready", "carried"} /\ Goto(n, v, "p_waitvm")
  /\ UNCHANGED infra

\* ... and EnsureVolumeAvailableVM has the last word of a poll.
PWaitVM(n, v) ==
  /\ pc[n][v] = "p_waitvm"
  /\ IF InSpec(n, v) THEN Succeed(n, v, "attached") ELSE Goto(n, v, "p_wait")
  /\ UNCHANGED infra

-----------------------------------------------------------------------------
(* ControllerUnpublishVolume                                               *)

\* Mutant of UGetVM: the short circuit of kubevirt/csi-driver#83.
UGetVMShortCircuit(n, v) ==
  /\ pc[n][v] = "u_vm"
  /\ IF n \in vms THEN Goto(n, v, "u_spec") ELSE Succeed(n, v, "none")
  /\ UNCHANGED infra

\* volumeStillAttached, first call: is the VM object there?
UGetVM(n, v) ==
  /\ pc[n][v] = "u_vm"
  /\ Goto(n, v, IF n \in vms THEN "u_spec" ELSE "u_vmi")
  /\ UNCHANGED infra

\* Mutant of USpec: only the VMI is asked whether the volume is attached.
USpecSkipped(n, v) ==
  /\ pc[n][v] = "u_spec"
  /\ Goto(n, v, "u_vmi")
  /\ UNCHANGED infra

\* volumeStillAttached, EnsureVolumeRemovedVM.
USpec(n, v) ==
  /\ pc[n][v] = "u_spec"
  /\ Goto(n, v, IF InSpec(n, v) THEN "u_rm" ELSE "u_vmi")
  /\ UNCHANGED infra

\* volumeStillAttached, EnsureVolumeRemovedVMI: only hot-plug entries count.
UStatus(n, v) ==
  /\ pc[n][v] = "u_vmi"
  /\ IF HotplugInStatus(n, v) THEN Goto(n, v, "u_rm") ELSE Succeed(n, v, "none")
  /\ UNCHANGED infra

\* Mutant of URemoveVM: no upgrade carry-over, only the VM's spec is cleaned.
URemoveVMOnly(n, v) ==
  /\ pc[n][v] = "u_rm"
  /\ n \in vms
  /\ Goto(n, v, IF spec[n][v] = "hotplug" THEN "u_put" ELSE "u_wait")
  /\ UNCHANGED infra

\* Mutant of URemoveVM: DataVolume.Hotpluggable is not looked at.
URemoveVMAny(n, v) ==
  /\ pc[n][v] = "u_rm"
  /\ n \in vms
  /\ Goto(n, v, IF spec[n][v] # "absent" THEN "u_put" ELSE "u_rmvmi")
  /\ UNCHANGED infra

\* removeVolumeFromVm, first call. On NotFound the client returns an empty,
\* non-nil VirtualMachine whose Spec.Template is nil: evaluating
\* vm.Spec.Template.Spec.Volumes panics (see UPanic).
URemoveVM(n, v) ==
  /\ pc[n][v] = "u_rm"
  /\ n \in vms
  /\ Goto(n, v, IF spec[n][v] = "hotplug" THEN "u_put" ELSE "u_rmvmi")
  /\ UNCHANGED infra

\* No gRPC handler recovers: the process dies with every RPC in flight, and
\* the pod's restart policy brings it back.
UPanic(n, v) ==
  /\ pc[n][v] = "u_rm"
  /\ n \notin vms
  /\ pc' = [m \in VMs |-> [w \in Vols |-> "idle"]]
  /\ tries' = [m \in VMs |-> [w \in Vols |-> 0]]
  /\ UNCHANGED <<infra, va>>

\* RemoveVolumeFromVM: virt-api's removevolume on the VM edits its spec.
UPut(n, v) ==
  /\ pc[n][v] = "u_put"
  /\ IF HotplugInSpec(n, v)
     THEN spec' = [spec EXCEPT ![n][v] = "absent"] /\ Goto(n, v, "u_wait")
     ELSE UNCHANGED spec /\ RetryAt(n, v, "u_rm")
  /\ UNCHANGED <<dvs, vms, vmis, st>>

UPutLost(n, v) ==
  /\ pc[n][v] = "u_put"
  /\ HotplugInSpec(n, v)
  /\ spec' = [spec EXCEPT ![n][v] = "absent"]
  /\ RetryAt(n, v, "u_rm")
  /\ UNCHANGED <<dvs, vms, vmis, st>>

\* removeVolumeFromVm, the VMI's turn: nothing to do without a hot-plug entry.
URemoveVMI(n, v) ==
  /\ pc[n][v] = "u_rmvmi"
  /\ Goto(n, v, IF HotplugInStatus(n, v) THEN "u_putvmi" ELSE "u_wait")
  /\ UNCHANGED infra

\* RemoveVolumeFromVMI: virt-api's removevolume on the VMI starts the unplug.
UPutVMI(n, v) ==
  /\ pc[n][v] = "u_putvmi"
  /\ IF HotplugInStatus(n, v)
     THEN st' = [st EXCEPT ![n][v] = "detaching"] /\ Goto(n, v, "u_wait")
     ELSE UNCHANGED st /\ RetryAt(n, v, "u_rm")
  /\ UNCHANGED <<dvs, vms, vmis, spec>>

UPutVMILost(n, v) ==
  /\ pc[n][v] = "u_putvmi"
  /\ HotplugInStatus(n, v)
  /\ st' = [st EXCEPT ![n][v] = "detaching"]
  /\ RetryAt(n, v, "u_rm")
  /\ UNCHANGED <<dvs, vms, vmis, spec>>

\* Mutant of UWait: the VMI's status is not waited for.
UWaitNoStatus(n, v) ==
  /\ pc[n][v] = "u_wait"
  /\ Goto(n, v, "u_waitvm")
  /\ UNCHANGED infra

\* EnsureVolumeRemoved: any entry of the name keeps the poll going.
UWait(n, v) ==
  /\ pc[n][v] = "u_wait"
  /\ ~InStatus(n, v)
  /\ Goto(n, v, "u_waitvm")
  /\ UNCHANGED infra

\* Mutant of UWaitVM: an empty VMI status is taken as the end of it.
UWaitVMSkipped(n, v) ==
  /\ pc[n][v] = "u_waitvm"
  /\ Succeed(n, v, "none")
  /\ UNCHANGED infra

\* ... and then EnsureVolumeRemovedVM has the last word.
UWaitVM(n, v) ==
  /\ pc[n][v] = "u_waitvm"
  /\ IF InSpec(n, v) THEN Goto(n, v, "u_wait") ELSE Succeed(n, v, "none")
  /\ UNCHANGED infra

-----------------------------------------------------------------------------
(* What ends or disturbs a handler from outside.                           *)

\* The 2-minute poll of EnsureVolumeAvailable / EnsureVolumeRemoved expires,
\* or one of its calls fails, which ends the poll with that error.
PollTimeout(n, v) ==
  /\ pc[n][v] \in PollPCs
  /\ Fail(n, v)
  /\ UNCHANGED infra

\* An API call of a retried function fails without effect.
AttemptError(n, v) ==
  /\ pc[n][v] \in RetriedPCs
  /\ RetryAt(n, v, AttemptStart(pc[n][v]))
  /\ UNCHANGED infra

\* An API call outside the retry loops fails, the RPC's deadline passes, or
\* the controller process is killed under this RPC.
Abort(n, v) ==
  /\ pc[n][v] \notin PollPCs \union {"idle"}
  /\ Fail(n, v)
  /\ UNCHANGED infra

-----------------------------------------------------------------------------
(* The CO: attach-detach controller and external-attacher.                 *)

\* A VolumeAttachment is created; for an RWO volume only once every other one
\* is gone, that is, once its ControllerUnpublishVolume succeeded.
CORequest(n, v) ==
  /\ va[n][v] = "none"
  /\ v \notin RWX => \A m \in VMs : va[m][v] = "none"
  /\ va' = [va EXCEPT ![n][v] = "attaching"]
  /\ UNCHANGED <<infra, pc, tries>>

\* The VolumeAttachment gets a deletion timestamp. The external-attacher works
\* on one at a time, so a running ControllerPublishVolume ends first.
COCancel(n, v) ==
  /\ va[n][v] \in {"attaching", "attached"}
  /\ pc[n][v] = "idle"
  /\ va' = [va EXCEPT ![n][v] = "detaching"]
  /\ UNCHANGED <<infra, pc, tries>>

COPublish(n, v) ==
  /\ va[n][v] = "attaching" /\ pc[n][v] = "idle"
  /\ Goto(n, v, "p_check")
  /\ UNCHANGED infra

COUnpublish(n, v) ==
  /\ va[n][v] = "detaching" /\ pc[n][v] = "idle"
  /\ Goto(n, v, "u_vm")
  /\ UNCHANGED infra

\* The DataVolume of a volume nobody uses is deleted (DeleteVolume).
CODelete(v) ==
  /\ v \in dvs
  /\ \A n \in VMs : va[n][v] = "none"
  /\ dvs' = dvs \ {v}
  /\ UNCHANGED <<vms, vmis, spec, st, va, pc, tries>>

-----------------------------------------------------------------------------
(* KubeVirt: virt-controller, virt-handler and whoever runs the VMs.       *)

\* virt-controller brings the VMI in line with the VM's spec.
KVPlug(n, v) ==
  /\ HotplugInSpec(n, v) /\ n \in vmis /\ st[n][v] = "none"
  /\ st' = [st EXCEPT ![n][v] = "pending"]
  /\ UNCHANGED <<dvs, vms, vmis, spec, va, pc, tries>>

KVReady(n, v) ==
  /\ n \in vmis /\ st[n][v] = "pending"
  /\ st' = [st EXCEPT ![n][v] = "ready"]
  /\ UNCHANGED <<dvs, vms, vmis, spec, va, pc, tries>>

\* Needs the VM object: the VMI of a deleted VM keeps its hot-plugs.
KVUnplug(n, v) ==
  /\ n \in vms /\ n \in vmis
  /\ spec[n][v] = "absent" /\ st[n][v] \in {"pending", "ready"}
  /\ st' = [st EXCEPT ![n][v] = "detaching"]
  /\ UNCHANGED <<dvs, vms, vmis, spec, va, pc, tries>>

\* The hot-plug pod is gone.
KVUnplugged(n, v) ==
  /\ n \in vmis /\ st[n][v] = "detaching"
  /\ st' = [st EXCEPT ![n][v] = "none"]
  /\ UNCHANGED <<dvs, vms, vmis, spec, va, pc, tries>>

\* The instance goes away, with all its hot-plug pods.
KVStop(n) ==
  /\ n \in vmis
  /\ n \in Restartable \/ n \notin vms
  /\ vmis' = vmis \ {n}
  /\ st' = [st EXCEPT ![n] = [v \in Vols |-> "none"]]
  /\ UNCHANGED <<dvs, vms, spec, va, pc, tries>>

\* A new instance starts with the volumes the VM's spec names.
KVStart(n) ==
  /\ n \in vms \ vmis
  /\ vmis' = vmis \union {n}
  /\ st' = [st EXCEPT ![n] = [v \in Vols |->
              CASE spec[n][v] = "hotplug" -> "pending"
                [] spec[n][v] = "static"  -> "static"
                [] OTHER                  -> "none"]]
  /\ UNCHANGED <<dvs, vms, spec, va, pc, tries>>

\* The VM object is deleted; its VMI is collected later (KVStop), if ever.
KVDelete(n) ==
  /\ n \in Deletable \intersect vms
  /\ vms' = vms \ {n}
  /\ spec' = [spec EXCEPT ![n] = [v \in Vols |-> "absent"]]
  /\ UNCHANGED <<dvs, vmis, st, va, pc, tries>>

-----------------------------------------------------------------------------
Publish(n, v) ==
  \/ PCheck(n, v) \/ PGetDV(n, v) \/ PGetVM(n, v) \/ PFastPath(n, v)
  \/ PFound(n, v) \/ PAdd(n, v) \/ PWait(n, v) \/ PWaitVM(n, v)

Unpublish(n, v) ==
  \/ UGetVM(n, v) \/ USpec(n, v) \/ UStatus(n, v) \/ URemoveVM(n, v)
  \/ UPanic(n, v) \/ UPut(n, v) \/ URemoveVMI(n, v) \/ UPutVMI(n, v)
  \/ UWait(n, v) \/ UWaitVM(n, v)

Fault(n, v) ==
  \/ AttemptError(n, v) \/ Abort(n, v)
  \/ PAddLost(n, v) \/ UPutLost(n, v) \/ UPutVMILost(n, v)

KubeVirt(n, v) ==
  KVPlug(n, v) \/ KVReady(n, v) \/ KVUnplug(n, v) \/ KVUnplugged(n, v)

Handler(n, v) == Publish(n, v) \/ Unpublish(n, v) \/ PollTimeout(n, v)

COCall(n, v) == COPublish(n, v) \/ COUnpublish(n, v)

Next ==
  \/ \E n \in VMs, v \in Vols :
       \/ Handler(n, v) \/ Fault(n, v) \/ KubeVirt(n, v)
       \/ COCall(n, v) \/ CORequest(n, v) \/ COCancel(n, v)
  \/ \E v \in Vols : CODelete(v)
  \/ \E n \in VMs : KVStop(n) \/ KVStart(n) \/ KVDelete(n)

Spec == Init /\ [][Next]_vars

\* Handlers and KubeVirt's controllers keep working and the external-attacher
\* keeps calling; nothing obliges a fault, a VM restart or a VM deletion.
Fairness == \A n \in VMs, v \in Vols :
  WF_vars(Handler(n, v)) /\ WF_vars(KubeVirt(n, v)) /\ WF_vars(COCall(n, v))

FairSpec == Spec /\ Fairness

-----------------------------------------------------------------------------
(* Properties                                                              *)

\* The shape of the state: API objects, VolumeAttachments and handlers.
TypeOK ==
  /\ dvs \subseteq Vols /\ vms \subseteq VMs /\ vmis \subseteq VMs
  /\ spec \in [VMs -> [Vols -> SpecStates]]
  /\ st \in [VMs -> [Vols -> StStates]]
  /\ va \in [VMs -> [Vols -> {"none", "attaching", "attached", "detaching"}]]
  /\ pc \in [VMs -> [Vols -> PublishPCs \union UnpublishPCs \union {"idle"}]]
  /\ tries \in [VMs -> [Vols -> 0..BackoffSteps - 1]]

\* Once ControllerUnpublishVolume has reported success (kubevirt/csi-driver#83:
\* also for a VM that is gone while its VMI lives on), neither the VM's spec nor
\* the VMI's status holds the volume until the CO asks for it again.
DetachedIsReleased ==
  \A n \in VMs, v \in Vols : va[n][v] = "none" => ~Holds(n, v)

\* A ReadWriteOnce volume is never hot-plugged into two VMs: not in spec and
\* spec, not in spec and a leftover VMI entry, whatever calls failed before.
SingleAttach ==
  \A v \in Vols \ RWX : \A n, m \in VMs : Holds(n, v) /\ Holds(m, v) => n = m

\* The driver asks only for the removal of disks that were hot-plugged: a
\* permanent disk of the VM or of its VMI is never the subject of a removevolume
\* call, whatever was restarted between the look-up and the call.
RemovesOnlyHotplugs ==
  \A n \in VMs, v \in Vols :
    /\ pc[n][v] = "u_put" => spec[n][v] # "static"
    /\ pc[n][v] = "u_putvmi" => st[n][v] # "static"

\* ControllerUnpublishVolume never reports success while the VM's spec names the
\* disk in any way, not even while the VM is stopped and has no VMI to ask.
NoFalseDetach ==
  [][\A n \in VMs, v \in Vols :
       va[n][v] = "detaching" /\ va'[n][v] = "none" => ~InSpec(n, v)]_vars

Held == {p \in VMs \X Vols : Holds(p[1], p[2])}
Contract == INSTANCE AttachContract WITH held <- Held

\* The handlers, through failures and retries, implement AttachContract: volumes
\* are plugged only while being attached and success is reported only when due.
ImplementsContract == Contract!CSpec

\* From some point on no call is lost or aborted: a step that a fault could
\* have caused is one the handler takes by itself (a panic looks like an abort).
FaultsCease ==
  <>[][\A n \in VMs, v \in Vols : Fault(n, v) => Handler(n, v)]_vars

\* Once faults cease, a detach request ends in a successful
\* ControllerUnpublishVolume, whatever lost calls, restarts and carried-over
\* hot-plugs have left in spec and status, and also with a permanent disk of the
\* same volume on another VM. The request to detach a permanent disk itself is left
\* out: its removal is never asked for, and EnsureVolumeRemoved, which counts every
\* entry of the name, polls for ever.
DetachCompletes ==
  FaultsCease => \A n \in VMs, v \in Vols :
    <<n, v>> \notin Static => (va[n][v] = "detaching" ~> va[n][v] = "none")

\* Once faults cease, an attach request that the CO does not withdraw ends in a
\* successful ControllerPublishVolume, through VM restarts and poll timeouts.
AttachCompletes ==
  FaultsCease => \A n \in VMs, v \in Vols :
                   va[n][v] = "attaching" /\ v \in dvs
                     ~> va[n][v] \in {"attached", "detaching"}

\* The comments at removeVolumeFromVm: with the VM gone, a hot-plug of the VMI
\* that lives on "must be released to free the infra-side storage attachment".
OrphanReleased ==
  FaultsCease => \A n \in VMs, v \in Vols :
                   (va[n][v] = "detaching" /\ n \notin vms) ~> ~Holds(n, v)
=============================================================================
