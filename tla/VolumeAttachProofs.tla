------------------------- MODULE VolumeAttachProofs -------------------------
(***************************************************************************)
(* Proofs about VolumeAttach for every set of VMs and volumes, any mixture *)
(* of access modes, carried-over and permanent disks, and any number of    *)
(* attempts in the retry loops.                                            *)
(***************************************************************************)
EXTENDS VolumeAttach, TLAPS

PCs == PublishPCs \union UnpublishPCs \union {"idle"}
Phases == {"none", "attaching", "attached", "detaching"}

\* The steps of ControllerUnpublishVolume that come after it has seen, or made,
\* the VM's spec free of the volume.
SpecCleanPCs == {"u_vmi", "u_rmvmi", "u_putvmi", "u_wait", "u_waitvm"}

\* What holds of one <<VM, volume>>: a handler runs only for the phase of the
\* VolumeAttachment it serves; the spec, once clean, stays clean until the RPC
\* ends, and so does the VMI's status; a detached volume is released; permanent
\* disks stay where they were defined, are never a hot-plug of the VMI, and are
\* not the subject of a removal.
PairOK(n, v) ==
  /\ pc[n][v] \in PublishPCs => va[n][v] = "attaching"
  /\ pc[n][v] \in UnpublishPCs => va[n][v] = "detaching"
  /\ pc[n][v] \in SpecCleanPCs => ~HotplugInSpec(n, v)
  /\ pc[n][v] = "u_waitvm" => ~HotplugInStatus(n, v)
  /\ va[n][v] = "none" => ~Holds(n, v)
  /\ spec[n][v] = "static" => <<n, v>> \in Static /\ st[n][v] \notin HotplugSt
  /\ pc[n][v] \in {"u_put", "u_putvmi"} => spec[n][v] # "static"
  /\ pc[n][v] = "u_putvmi" => st[n][v] # "static"
  /\ pc[n][v] = "u_vmi" => ~InSpec(n, v)

\* The CO's discipline for RWO volumes.
OneAttachment ==
  \A v \in Vols \ RWX : \A n, m \in VMs :
    va[n][v] # "none" /\ va[m][v] # "none" => n = m

\* The inductive invariant.
IInv == /\ TypeOK
        /\ \A n \in VMs, v \in Vols : PairOK(n, v)
        /\ OneAttachment

-----------------------------------------------------------------------------
(* How a step of one handler changes the state, pair by pair.              *)

\* The handlers' own variables have their types.
CallsOK ==
  /\ va \in [VMs -> [Vols -> Phases]]
  /\ pc \in [VMs -> [Vols -> PCs]]
  /\ tries \in [VMs -> [Vols -> 0..BackoffSteps - 1]]

InfraOK ==
  /\ dvs \subseteq Vols /\ vms \subseteq VMs /\ vmis \subseteq VMs
  /\ spec \in [VMs -> [Vols -> SpecStates]]
  /\ st \in [VMs -> [Vols -> StStates]]

\* Only the handler of <<n, v>> moves.
OtherCallsSame(n, v) ==
  \A m \in VMs, w \in Vols :
    m # n \/ w # v => pc'[m][w] = pc[m][w] /\ va'[m][w] = va[m][w]

\* Only the volume v of VM n changes in the infra cluster.
OtherDisksSame(n, v) ==
  /\ vms' = vms /\ vmis' = vmis
  /\ \A m \in VMs, w \in Vols :
       m # n \/ w # v => spec'[m][w] = spec[m][w] /\ st'[m][w] = st[m][w]

\* The type invariant splits into the infra objects and the calls.
LEMMA TypeParts == TypeOK <=> InfraOK /\ CallsOK
  BY DEF TypeOK, InfraOK, CallsOK, PCs, Phases

\* Moving on to another API call keeps the calls well typed.
LEMMA GotoMoves ==
  ASSUME CallsOK, NEW n \in VMs, NEW v \in Vols, NEW p \in PCs, Goto(n, v, p)
  PROVE  /\ CallsOK' /\ OtherCallsSame(n, v)
         /\ pc'[n][v] = p /\ va'[n][v] = va[n][v]
  BY DEF CallsOK, OtherCallsSame, Goto

\* Returning an error keeps the calls well typed and ends this one.
LEMMA FailMoves ==
  ASSUME CallsOK, NEW n \in VMs, NEW v \in Vols, Fail(n, v)
  PROVE  /\ CallsOK' /\ OtherCallsSame(n, v)
         /\ pc'[n][v] = "idle" /\ va'[n][v] = va[n][v]
  BY AttachAssumption DEF CallsOK, OtherCallsSame, Fail, PCs

\* Returning OK does, and records the outcome in the VolumeAttachment.
LEMMA SucceedMoves ==
  ASSUME CallsOK, NEW n \in VMs, NEW v \in Vols, NEW a \in Phases,
         Succeed(n, v, a)
  PROVE  /\ CallsOK' /\ OtherCallsSame(n, v)
         /\ pc'[n][v] = "idle" /\ va'[n][v] = a
  BY AttachAssumption DEF CallsOK, OtherCallsSame, Succeed, PCs

\* The backoff loop keeps its counter below Steps.
LEMMA RetryMoves ==
  ASSUME CallsOK, NEW n \in VMs, NEW v \in Vols, NEW p \in PCs,
         RetryAt(n, v, p)
  PROVE  /\ CallsOK' /\ OtherCallsSame(n, v)
         /\ pc'[n][v] \in {p, "idle"} /\ va'[n][v] = va[n][v]
  <1>1. CASE tries[n][v] + 1 < BackoffSteps
    <2>1. tries[n][v] + 1 \in 0..BackoffSteps - 1
      BY <1>1, AttachAssumption DEF CallsOK
    <2>2. /\ pc' = [pc EXCEPT ![n][v] = p]
          /\ tries' = [tries EXCEPT ![n][v] = tries[n][v] + 1]
          /\ va' = va
      BY <1>1 DEF RetryAt
    <2>3. tries' \in [VMs -> [Vols -> 0..BackoffSteps - 1]]
      BY <2>1, <2>2 DEF CallsOK
    <2> QED
      BY <2>2, <2>3 DEF CallsOK, OtherCallsSame
  <1>2. CASE ~(tries[n][v] + 1 < BackoffSteps)
    BY <1>2, FailMoves DEF RetryAt
  <1> QED
    BY <1>1, <1>2

\* A step of one pair that keeps that pair in order keeps the invariant.
StepOK(n, v) ==
  /\ InfraOK' /\ CallsOK'
  /\ OtherCallsSame(n, v) /\ OtherDisksSame(n, v)
  /\ PairOK(n, v)'
  /\ va[n][v] = "none" => va'[n][v] = "none"

\* A step on one pair that keeps this pair in order, and does not make an
\* unattached pair hold anything new, keeps the whole invariant.
LEMMA LocalStep ==
  ASSUME IInv, NEW n \in VMs, NEW v \in Vols, StepOK(n, v)
  PROVE  IInv'
  <1>1. TypeOK'
    BY TypeParts DEF StepOK, TypeOK, InfraOK, CallsOK, PCs, Phases
  <1>2. ASSUME NEW m \in VMs, NEW w \in Vols PROVE PairOK(m, w)'
    BY DEF StepOK, IInv, PairOK, OtherCallsSame, OtherDisksSame, Holds,
           HotplugInSpec, HotplugInStatus, InSpec
  <1>3. OneAttachment'
    BY DEF StepOK, IInv, OneAttachment, OtherCallsSame
  <1> QED
    BY <1>1, <1>2, <1>3 DEF IInv

\* virt-api edits one volume of one VM's spec ...
LEMMA SpecEdit ==
  ASSUME InfraOK, NEW n \in VMs, NEW v \in Vols, NEW x \in SpecStates,
         spec' = [spec EXCEPT ![n][v] = x], UNCHANGED <<dvs, vms, vmis, st>>
  PROVE  InfraOK' /\ OtherDisksSame(n, v) /\ spec'[n][v] = x
  BY DEF InfraOK, OtherDisksSame

\* ... or one entry of a VMI's status.
LEMMA StatusEdit ==
  ASSUME InfraOK, NEW n \in VMs, NEW v \in Vols, NEW x \in StStates,
         st' = [st EXCEPT ![n][v] = x], UNCHANGED <<dvs, vms, vmis, spec>>
  PROVE  InfraOK' /\ OtherDisksSame(n, v) /\ st'[n][v] = x
  BY DEF InfraOK, OtherDisksSame

\* A step that leaves the infra cluster alone.
LEMMA NoEdit ==
  ASSUME InfraOK, NEW n \in VMs, NEW v \in Vols, UNCHANGED infra
  PROVE  /\ InfraOK' /\ OtherDisksSame(n, v)
         /\ spec' = spec /\ st' = st /\ vms' = vms /\ vmis' = vmis
  BY DEF InfraOK, OtherDisksSame, infra

\* Every step of ControllerPublishVolume keeps its pair in order.
LEMMA PublishOK ==
  ASSUME IInv, NEW n \in VMs, NEW v \in Vols, Publish(n, v)
  PROVE  StepOK(n, v)
  <1> USE DEF StepOK, PairOK, Holds, HotplugInSpec, HotplugInStatus, InSpec,
              HotplugSt, PCs, Phases, PublishPCs, UnpublishPCs, SpecCleanPCs
  <1>0. PairOK(n, v) /\ InfraOK /\ CallsOK
    BY TypeParts DEF IInv
  <1>1. CASE PCheck(n, v)
    BY <1>0, <1>1, NoEdit, GotoMoves, FailMoves DEF PCheck
  <1>2. CASE PGetDV(n, v)
    BY <1>0, <1>2, NoEdit, GotoMoves, FailMoves DEF PGetDV
  <1>3. CASE PGetVM(n, v)
    BY <1>0, <1>3, NoEdit, GotoMoves, FailMoves DEF PGetVM
  <1>4. CASE PFastPath(n, v)
    BY <1>0, <1>4, NoEdit, GotoMoves, SucceedMoves DEF PFastPath, InSpec
  <1>5. CASE PFound(n, v)
    BY <1>0, <1>5, NoEdit, GotoMoves, RetryMoves DEF PFound
  <1>6. CASE PAdd(n, v)
    <2>1. CASE n \in vms /\ spec[n][v] = "absent"
      BY <1>0, <1>6, <2>1, SpecEdit, GotoMoves DEF PAdd, SpecStates
    <2>2. CASE ~(n \in vms /\ spec[n][v] = "absent")
      BY <1>0, <1>6, <2>2, NoEdit, RetryMoves DEF PAdd, infra
    <2> QED
      BY <2>1, <2>2
  <1>7. CASE PWait(n, v)
    BY <1>0, <1>7, NoEdit, GotoMoves, FailMoves DEF PWait
  <1>8. CASE PWaitVM(n, v)
    BY <1>0, <1>8, NoEdit, GotoMoves, SucceedMoves DEF PWaitVM, InSpec
  <1> QED
    BY <1>1, <1>2, <1>3, <1>4, <1>5, <1>6, <1>7, <1>8 DEF Publish

\* Every step of ControllerUnpublishVolume but the panic does so.
LEMMA UnpublishOK ==
  ASSUME IInv, NEW n \in VMs, NEW v \in Vols, Unpublish(n, v),
         ~UPanic(n, v)
  PROVE  StepOK(n, v)
  <1> USE DEF StepOK, PairOK, Holds, HotplugInSpec, HotplugInStatus, InSpec,
              HotplugSt, PCs, Phases, PublishPCs, UnpublishPCs, SpecCleanPCs
  <1>0. PairOK(n, v) /\ InfraOK /\ CallsOK
    BY TypeParts DEF IInv
  <1>1. CASE UGetVM(n, v)
    BY <1>0, <1>1, NoEdit, GotoMoves DEF UGetVM
  <1>2. CASE USpec(n, v)
    BY <1>0, <1>2, NoEdit, GotoMoves DEF USpec, InSpec
  <1>3. CASE UStatus(n, v)
    BY <1>0, <1>3, NoEdit, GotoMoves, SucceedMoves DEF UStatus
  <1>4. CASE URemoveVM(n, v)
    BY <1>0, <1>4, NoEdit, GotoMoves DEF URemoveVM
  <1>5. CASE UPut(n, v)
    <2>1. CASE n \in vms /\ spec[n][v] = "hotplug"
      BY <1>0, <1>5, <2>1, SpecEdit, GotoMoves DEF UPut, SpecStates
    <2>2. CASE ~(n \in vms /\ spec[n][v] = "hotplug")
      BY <1>0, <1>5, <2>2, NoEdit, RetryMoves DEF UPut, infra
    <2> QED
      BY <2>1, <2>2
  <1>6. CASE URemoveVMI(n, v)
    BY <1>0, <1>6, NoEdit, GotoMoves DEF URemoveVMI
  <1>7. CASE UPutVMI(n, v)
    <2>1. CASE n \in vmis /\ st[n][v] \in HotplugSt
      BY <1>0, <1>7, <2>1, StatusEdit, GotoMoves DEF UPutVMI, StStates
    <2>2. CASE ~(n \in vmis /\ st[n][v] \in HotplugSt)
      BY <1>0, <1>7, <2>2, NoEdit, RetryMoves DEF UPutVMI, infra
    <2> QED
      BY <2>1, <2>2
  <1>8. CASE UWait(n, v)
    BY <1>0, <1>8, NoEdit, GotoMoves DEF UWait, InStatus, HotplugSt
  <1>9. CASE UWaitVM(n, v)
    BY <1>0, <1>9, NoEdit, GotoMoves, SucceedMoves DEF UWaitVM, InSpec
  <1> QED
    BY <1>1, <1>2, <1>3, <1>4, <1>5, <1>6, <1>7, <1>8, <1>9 DEF Unpublish

\* So do the faults ...
LEMMA FaultOK ==
  ASSUME IInv, NEW n \in VMs, NEW v \in Vols, Fault(n, v)
  PROVE  StepOK(n, v)
  <1> USE DEF StepOK, PairOK, Holds, HotplugInSpec, HotplugInStatus, InSpec,
              HotplugSt, PCs, Phases, PublishPCs, UnpublishPCs, SpecCleanPCs
  <1>0. PairOK(n, v) /\ InfraOK /\ CallsOK
    BY TypeParts DEF IInv
  <1>1. CASE AttemptError(n, v)
    BY <1>0, <1>1, NoEdit, RetryMoves DEF AttemptError, AttemptStart, RetriedPCs
  <1>2. CASE Abort(n, v)
    BY <1>0, <1>2, NoEdit, FailMoves DEF Abort
  <1>3. CASE PAddLost(n, v)
    <2>1. /\ InfraOK' /\ OtherDisksSame(n, v) /\ spec'[n][v] = "hotplug"
          /\ st' = st /\ vms' = vms /\ vmis' = vmis
      BY <1>0, <1>3, SpecEdit DEF PAddLost, SpecStates
    <2>2. /\ CallsOK' /\ OtherCallsSame(n, v)
          /\ pc'[n][v] \in {"p_found", "idle"} /\ va'[n][v] = va[n][v]
      BY <1>0, <1>3, RetryMoves DEF PAddLost
    <2> QED
      BY <1>0, <1>3, <2>1, <2>2 DEF PAddLost
  <1>4. CASE UPutLost(n, v)
    <2>1. /\ InfraOK' /\ OtherDisksSame(n, v) /\ spec'[n][v] = "absent"
          /\ st' = st /\ vms' = vms /\ vmis' = vmis
      BY <1>0, <1>4, SpecEdit DEF UPutLost, SpecStates
    <2>2. /\ CallsOK' /\ OtherCallsSame(n, v)
          /\ pc'[n][v] \in {"u_rm", "idle"} /\ va'[n][v] = va[n][v]
      BY <1>0, <1>4, RetryMoves DEF UPutLost
    <2> QED
      BY <1>0, <1>4, <2>1, <2>2 DEF UPutLost
  <1>5. CASE UPutVMILost(n, v)
    <2>1. /\ InfraOK' /\ OtherDisksSame(n, v) /\ st'[n][v] = "detaching"
          /\ spec' = spec /\ vms' = vms /\ vmis' = vmis
      BY <1>0, <1>5, StatusEdit DEF UPutVMILost, StStates
    <2>2. /\ CallsOK' /\ OtherCallsSame(n, v)
          /\ pc'[n][v] \in {"u_rm", "idle"} /\ va'[n][v] = va[n][v]
      BY <1>0, <1>5, RetryMoves DEF UPutVMILost
    <2> QED
      BY <1>0, <1>5, <2>1, <2>2 DEF UPutVMILost
  <1> QED
    BY <1>1, <1>2, <1>3, <1>4, <1>5 DEF Fault

\* ... the steps of KubeVirt's controllers ...
LEMMA KubeVirtOK ==
  ASSUME IInv, NEW n \in VMs, NEW v \in Vols, KubeVirt(n, v)
  PROVE  StepOK(n, v)
  <1> USE DEF StepOK, PairOK, Holds, HotplugInSpec, HotplugInStatus, InSpec,
              HotplugSt, PCs, Phases, PublishPCs, UnpublishPCs, SpecCleanPCs
  <1>0. PairOK(n, v) /\ InfraOK /\ CallsOK
    BY TypeParts DEF IInv
  <1>1. CASE KVPlug(n, v)
    BY <1>0, <1>1, StatusEdit DEF KVPlug, StStates, CallsOK, OtherCallsSame
  <1>2. CASE KVReady(n, v)
    BY <1>0, <1>2, StatusEdit DEF KVReady, StStates, CallsOK, OtherCallsSame
  <1>3. CASE KVUnplug(n, v)
    BY <1>0, <1>3, StatusEdit DEF KVUnplug, StStates, CallsOK, OtherCallsSame
  <1>4. CASE KVUnplugged(n, v)
    BY <1>0, <1>4, StatusEdit DEF KVUnplugged, StStates, CallsOK, OtherCallsSame
  <1> QED
    BY <1>1, <1>2, <1>3, <1>4 DEF KubeVirt

\* ... and the calls of the external-attacher.
LEMMA COCallOK ==
  ASSUME IInv, NEW n \in VMs, NEW v \in Vols, COCall(n, v)
  PROVE  StepOK(n, v)
  <1> USE DEF StepOK, PairOK, Holds, HotplugInSpec, HotplugInStatus, InSpec,
              HotplugSt, PCs, Phases, PublishPCs, UnpublishPCs, SpecCleanPCs
  <1>0. PairOK(n, v) /\ InfraOK /\ CallsOK
    BY TypeParts DEF IInv
  <1>1. CASE COPublish(n, v)
    BY <1>0, <1>1, NoEdit, GotoMoves DEF COPublish
  <1>2. CASE COUnpublish(n, v)
    BY <1>0, <1>2, NoEdit, GotoMoves DEF COUnpublish
  <1> QED
    BY <1>1, <1>2 DEF COCall

-----------------------------------------------------------------------------
(* The inductive invariant.                                                *)

\* The start-up state, carry-over attachments included, satisfies it.
LEMMA InitIInv == Init => IInv
  <1> SUFFICES ASSUME Init PROVE IInv
    OBVIOUS
  <1>1. TypeOK
    BY AttachAssumption DEF Init, TypeOK, SpecStates, StStates
  <1>2. ASSUME NEW n \in VMs, NEW v \in Vols PROVE PairOK(n, v)
    BY AttachAssumption DEF Init, PairOK, Holds, HotplugInSpec,
       HotplugInStatus, HotplugSt, InSpec, PublishPCs, UnpublishPCs, SpecCleanPCs
  <1>3. OneAttachment
    BY AttachAssumption DEF Init, OneAttachment
  <1> QED
    BY <1>1, <1>2, <1>3 DEF IInv

\* The panic ends every RPC and touches nothing else.
LEMMA PanicIInv ==
  ASSUME IInv, NEW n \in VMs, NEW v \in Vols, UPanic(n, v)
  PROVE  IInv'
  <1>1. TypeOK'
    BY AttachAssumption DEF IInv, TypeOK, UPanic, infra
  <1>2. ASSUME NEW m \in VMs, NEW w \in Vols PROVE PairOK(m, w)'
    BY DEF IInv, UPanic, infra, PairOK, Holds, HotplugInSpec,
           HotplugInStatus, InSpec, PublishPCs, UnpublishPCs, SpecCleanPCs
  <1>3. OneAttachment'
    BY DEF IInv, UPanic, OneAttachment
  <1> QED
    BY <1>1, <1>2, <1>3 DEF IInv

\* The CO creates a VolumeAttachment; the only step that ends phase "none".
LEMMA RequestIInv ==
  ASSUME IInv, NEW n \in VMs, NEW v \in Vols, CORequest(n, v)
  PROVE  IInv'
  <1>1. TypeOK'
    BY DEF IInv, TypeOK, CORequest, infra
  <1>2. ASSUME NEW m \in VMs, NEW w \in Vols PROVE PairOK(m, w)'
    BY DEF IInv, TypeOK, CORequest, infra, PairOK, Holds, HotplugInSpec,
           HotplugInStatus, InSpec, PublishPCs, UnpublishPCs, SpecCleanPCs
  <1>3. OneAttachment'
    BY DEF IInv, TypeOK, CORequest, OneAttachment
  <1> QED
    BY <1>1, <1>2, <1>3 DEF IInv

\* The CO withdraws a request while no handler runs.
LEMMA CancelIInv ==
  ASSUME IInv, NEW n \in VMs, NEW v \in Vols, COCancel(n, v)
  PROVE  IInv'
  <1>1. TypeOK'
    BY DEF IInv, TypeOK, COCancel, infra
  <1>2. ASSUME NEW m \in VMs, NEW w \in Vols PROVE PairOK(m, w)'
    BY DEF IInv, TypeOK, COCancel, infra, PairOK, Holds, HotplugInSpec,
           HotplugInStatus, InSpec, PublishPCs, UnpublishPCs, SpecCleanPCs
  <1>3. OneAttachment'
    BY DEF IInv, TypeOK, COCancel, OneAttachment
  <1> QED
    BY <1>1, <1>2, <1>3 DEF IInv

\* Instances stop and start and VMs are deleted under running handlers. A start
\* can only bring back what the spec names; a stop or a deletion only removes.
LEMMA LifecycleIInv ==
  ASSUME IInv, NEW n \in VMs, KVStop(n) \/ KVStart(n) \/ KVDelete(n)
  PROVE  IInv'
  <1> USE DEF PairOK, Holds, HotplugInSpec, HotplugInStatus, InSpec, HotplugSt
  <1>1. CASE KVStop(n)
    <2>1. TypeOK'
      BY <1>1 DEF IInv, TypeOK, KVStop, StStates
    <2>2. ASSUME NEW m \in VMs, NEW w \in Vols PROVE PairOK(m, w)'
      BY <1>1 DEF IInv, TypeOK, KVStop, HotplugSt
    <2> QED
      BY <1>1, <2>1, <2>2 DEF IInv, KVStop, OneAttachment
  <1>2. CASE KVStart(n)
    <2>1. TypeOK'
      BY <1>2 DEF IInv, TypeOK, KVStart, StStates
    <2>2. ASSUME NEW m \in VMs, NEW w \in Vols PROVE PairOK(m, w)'
      BY <1>2 DEF IInv, TypeOK, KVStart, HotplugSt, SpecCleanPCs, SpecStates
    <2> QED
      BY <1>2, <2>1, <2>2 DEF IInv, KVStart, OneAttachment
  <1>3. CASE KVDelete(n)
    <2>1. TypeOK'
      BY <1>3 DEF IInv, TypeOK, KVDelete, SpecStates
    <2>2. ASSUME NEW m \in VMs, NEW w \in Vols PROVE PairOK(m, w)'
      BY <1>3 DEF IInv, TypeOK, KVDelete
    <2> QED
      BY <1>3, <2>1, <2>2 DEF IInv, KVDelete, OneAttachment
  <1> QED
    BY <1>1, <1>2, <1>3

\* Every step of the system keeps the inductive invariant.
LEMMA NextIInv == IInv /\ [Next]_vars => IInv'
  <1> SUFFICES ASSUME IInv, [Next]_vars PROVE IInv'
    OBVIOUS
  <1>1. ASSUME NEW n \in VMs, NEW v \in Vols, Handler(n, v) PROVE IInv'
    <2>1. CASE Publish(n, v)
      BY <2>1, PublishOK, LocalStep
    <2>2. CASE Unpublish(n, v) /\ ~UPanic(n, v)
      BY <2>2, UnpublishOK, LocalStep
    <2>3. CASE UPanic(n, v)
      BY <2>3, PanicIInv
    <2>4. CASE PollTimeout(n, v)
      <3>1. InfraOK /\ CallsOK /\ PairOK(n, v)
        BY TypeParts DEF IInv
      <3>2. StepOK(n, v)
        BY <2>4, <3>1, NoEdit, FailMoves DEF PollTimeout, StepOK, PairOK,
           Holds, HotplugInSpec, HotplugInStatus, InSpec, PublishPCs,
           UnpublishPCs, SpecCleanPCs
      <3> QED
        BY <3>2, LocalStep
    <2> QED
      BY <1>1, <2>1, <2>2, <2>3, <2>4 DEF Handler
  <1>2. ASSUME NEW n \in VMs, NEW v \in Vols, Fault(n, v) PROVE IInv'
    BY <1>2, FaultOK, LocalStep
  <1>3. ASSUME NEW n \in VMs, NEW v \in Vols, KubeVirt(n, v) PROVE IInv'
    BY <1>3, KubeVirtOK, LocalStep
  <1>4. ASSUME NEW n \in VMs, NEW v \in Vols, COCall(n, v) PROVE IInv'
    BY <1>4, COCallOK, LocalStep
  <1>5. ASSUME NEW v \in Vols, CODelete(v) PROVE IInv'
    BY <1>5 DEF CODelete, IInv, TypeOK, OneAttachment, PairOK, Holds,
       HotplugInSpec, HotplugInStatus, InSpec
  <1>6. CASE UNCHANGED vars
    BY <1>6 DEF vars, IInv, TypeOK, OneAttachment, PairOK, Holds,
       HotplugInSpec, HotplugInStatus, InSpec
  <1> QED
    BY <1>1, <1>2, <1>3, <1>4, <1>5, <1>6, RequestIInv, CancelIInv,
       LifecycleIInv DEF Next

\* Every reachable state satisfies the inductive invariant.
THEOREM Invariance == Spec => []IInv
  BY InitIInv, NextIInv, PTL DEF Spec

\* Type correctness of the attach and detach handlers' state.
THEOREM TypeCorrect == Spec => []TypeOK
  <1>1. IInv => TypeOK
    BY DEF IInv
  <1> QED
    BY <1>1, Invariance, PTL

\* A volume that ControllerUnpublishVolume reported detached is released, for
\* any number of VMs and volumes: kubevirt/csi-driver#83 cannot come back.
THEOREM Released == Spec => []DetachedIsReleased
  <1>1. IInv => DetachedIsReleased
    BY DEF IInv, PairOK, DetachedIsReleased
  <1> QED
    BY <1>1, Invariance, PTL

\* A ReadWriteOnce volume is never hot-plugged into two VMs.
THEOREM ReadWriteOnce == Spec => []SingleAttach
  <1>1. IInv => SingleAttach
    BY DEF IInv, PairOK, OneAttachment, SingleAttach
  <1> QED
    BY <1>1, Invariance, PTL

\* A permanent disk is never the subject of a removevolume call, whatever is
\* restarted between removeVolumeFromVm's look-up and the call.
THEOREM PermanentDisksStay == Spec => []RemovesOnlyHotplugs
  <1>1. IInv => RemovesOnlyHotplugs
    BY DEF IInv, PairOK, RemovesOnlyHotplugs
  <1> QED
    BY <1>1, Invariance, PTL

\* Only Succeed changes what the CO believes.
LEMMA QuietMoves ==
  ASSUME NEW n \in VMs, NEW v \in Vols, NEW p,
         Goto(n, v, p) \/ Fail(n, v) \/ RetryAt(n, v, p)
  PROVE  va' = va
  BY DEF Goto, Fail, RetryAt

\* Only the last steps of ControllerUnpublishVolume end a detach.
LEMMA DetachEnds ==
  ASSUME IInv, [Next]_vars, NEW n \in VMs, NEW v \in Vols,
         va[n][v] = "detaching", va'[n][v] = "none"
  PROVE  UStatus(n, v) \/ UWaitVM(n, v)
  <1>0. va \in [VMs -> [Vols -> Phases]]
    BY TypeParts DEF IInv, CallsOK
  <1>1. ASSUME NEW m \in VMs, NEW w \in Vols, Handler(m, w) \/ Fault(m, w)
        PROVE  UStatus(n, v) \/ UWaitVM(n, v)
    <2>1. CASE va' = va
      BY <2>1
    <2>2. CASE Succeed(m, w, "attached")
      BY <1>0, <2>2 DEF Succeed
    <2>3. CASE (UStatus(m, w) \/ UWaitVM(m, w)) /\ Succeed(m, w, "none")
      BY <1>0, <2>3 DEF Succeed
    <2>4. \/ va' = va \/ Succeed(m, w, "attached")
          \/ (UStatus(m, w) \/ UWaitVM(m, w)) /\ Succeed(m, w, "none")
      <3>1. CASE Publish(m, w)
        BY <3>1, QuietMoves DEF Publish, PCheck, PGetDV, PGetVM, PFastPath,
           PFound, PAdd, PWait, PWaitVM
      <3>2. CASE Unpublish(m, w)
        BY <3>2, QuietMoves DEF Unpublish, UGetVM, USpec, UStatus, URemoveVM,
           UPanic, UPut, URemoveVMI, UPutVMI, UWait, UWaitVM
      <3>3. CASE PollTimeout(m, w) \/ Fault(m, w)
        BY <3>3, QuietMoves DEF PollTimeout, Fault, AttemptError, Abort,
           PAddLost, UPutLost, UPutVMILost
      <3> QED
        BY <1>1, <3>1, <3>2, <3>3 DEF Handler
    <2> QED
      BY <2>1, <2>2, <2>3, <2>4
  <1>2. ASSUME NEW m \in VMs, NEW w \in Vols,
               KubeVirt(m, w) \/ COCall(m, w) \/ CORequest(m, w) \/ COCancel(m, w)
        PROVE  FALSE
    BY <1>0, <1>2 DEF KubeVirt, KVPlug, KVReady, KVUnplug, KVUnplugged, COCall,
       COPublish, COUnpublish, Goto, CORequest, COCancel
  <1>3. ASSUME NEW m \in VMs, KVStop(m) \/ KVStart(m) \/ KVDelete(m) PROVE FALSE
    BY <1>3 DEF KVStop, KVStart, KVDelete
  <1>4. ASSUME NEW w \in Vols, CODelete(w) PROVE FALSE
    BY <1>4 DEF CODelete
  <1>5. CASE UNCHANGED vars
    BY <1>5 DEF vars
  <1> QED
    BY <1>1, <1>2, <1>3, <1>4, <1>5 DEF Next

\* No detach is reported while the VM's spec names the disk in any way, with or
\* without a VMI: what volumeStillAttached saw of the spec still holds when it has
\* looked at the VMI.
THEOREM NoFalseDetachHolds == Spec => NoFalseDetach
  <1>1. IInv /\ [Next]_vars =>
          \A n \in VMs, v \in Vols :
            va[n][v] = "detaching" /\ va'[n][v] = "none" => ~InSpec(n, v)
    <2> SUFFICES ASSUME IInv, [Next]_vars, NEW n \in VMs, NEW v \in Vols,
                        va[n][v] = "detaching", va'[n][v] = "none"
                 PROVE  ~InSpec(n, v)
      OBVIOUS
    <2>1. UStatus(n, v) \/ UWaitVM(n, v)
      BY DetachEnds
    <2>2. CASE UStatus(n, v)
      BY <2>2 DEF IInv, PairOK, UStatus
    <2>3. CASE UWaitVM(n, v)
      BY <2>3 DEF UWaitVM, Goto
    <2> QED
      BY <2>1, <2>2, <2>3
  <1> QED
    BY <1>1, Invariance, PTL DEF Spec, NoFalseDetach
-----------------------------------------------------------------------------
(* VolumeAttach implements AttachContract.                                 *)

AbsStep == [Contract!CNext]_(Contract!cvars)

\* What membership in the refinement mapping's Held means.
LEMMA HeldPairs ==
  /\ \A n \in VMs, v \in Vols : <<n, v>> \in Held <=> Holds(n, v)
  /\ Held \subseteq VMs \X Vols
  BY DEF Held

\* A step the contract does not see.
LEMMA Stutters ==
  ASSUME va' = va, Held' = Held
  PROVE  AbsStep
  BY DEF AbsStep, Contract!cvars

\* A step by which VM n only loses volumes.
LEMMA Loses ==
  ASSUME va' = va, NEW n \in VMs, Held' \subseteq Held,
         Held \ Held' \subseteq {n} \X Vols
  PROVE  AbsStep
  BY DEF AbsStep, Contract!CNext, Contract!Lose

\* What a change of the one pair <<n, v>> does to Held.
LEMMA HeldLocal ==
  ASSUME NEW n \in VMs, NEW v \in Vols, OtherDisksSame(n, v)
  PROVE  /\ (Holds(n, v)' <=> Holds(n, v)) => Held' = Held
         /\ Holds(n, v)' => Held' = Held \union {<<n, v>>}
         /\ ~Holds(n, v)' => Held' = Held \ {<<n, v>>}
  <1>1. \A m \in VMs, w \in Vols :
          m # n \/ w # v => (Holds(m, w)' <=> Holds(m, w))
    BY DEF OtherDisksSame, Holds, HotplugInSpec, HotplugInStatus
  <1>2. \A m \in VMs, w \in Vols : <<m, w>> \in Held' <=> Holds(m, w)'
    BY DEF Held
  <1>3. \A m \in VMs, w \in Vols : <<m, w>> \in Held <=> Holds(m, w)
    BY DEF Held
  <1>4. Held \subseteq VMs \X Vols /\ Held' \subseteq VMs \X Vols
    BY DEF Held
  <1> QED
    BY <1>1, <1>2, <1>3, <1>4

\* A step that leaves the infra cluster alone leaves Held alone.
LEMMA HeldSame ==
  ASSUME UNCHANGED infra
  PROVE  Held' = Held
  BY DEF infra, Held, Holds, HotplugInSpec, HotplugInStatus

\* Steps of ControllerPublishVolume plug, report, or stutter.
LEMMA PublishRefines ==
  ASSUME IInv, NEW n \in VMs, NEW v \in Vols,
         Publish(n, v) \/ PAddLost(n, v)
  PROVE  AbsStep
  <1>0. /\ TypeOK /\ InfraOK
        /\ pc[n][v] \in PublishPCs => va[n][v] = "attaching"
        /\ spec[n][v] = "static" => <<n, v>> \in Static
    BY TypeParts DEF IInv, PairOK
  <1>1. CASE PCheck(n, v) \/ PGetDV(n, v) \/ PGetVM(n, v) \/ PFound(n, v)
               \/ PWait(n, v)
    BY <1>1, QuietMoves, HeldSame, Stutters
       DEF PCheck, PGetDV, PGetVM, PFound, PWait
  <1>2. CASE PFastPath(n, v) \/ PWaitVM(n, v)
    <2>1. CASE InSpec(n, v)
      <3>1. /\ Held' = Held /\ va[n][v] = "attaching"
            /\ va' = [va EXCEPT ![n][v] = "attached"]
        BY <1>0, <1>2, <2>1, HeldSame
           DEF PFastPath, PWaitVM, Succeed, PublishPCs
      <3>2. spec[n][v] = "hotplug" \/ spec[n][v] = "static"
        BY <1>0, <2>1 DEF InSpec, InfraOK, SpecStates
      <3>3. <<n, v>> \in Held \union Static
        BY <1>0, <2>1, <3>2, HeldPairs DEF InSpec, Holds, HotplugInSpec
      <3> QED
        BY <3>1, <3>3 DEF AbsStep, Contract!CNext, Contract!Attached
    <2>2. CASE ~InSpec(n, v)
      BY <1>2, <2>2, QuietMoves, HeldSame, Stutters DEF PFastPath, PWaitVM
    <2> QED
      BY <2>1, <2>2
  <1>3. CASE PAdd(n, v) \/ PAddLost(n, v)
    <2>1. va' = va
      BY <1>3, QuietMoves DEF PAdd, PAddLost
    <2>2. CASE n \in vms /\ spec[n][v] = "absent"
      <3>1. OtherDisksSame(n, v) /\ spec'[n][v] = "hotplug" /\ vms' = vms
        BY <1>0, <1>3, <2>2, SpecEdit DEF PAdd, PAddLost, SpecStates
      <3>2. Held' = Held \union {<<n, v>>}
        BY <2>2, <3>1, HeldLocal DEF Holds, HotplugInSpec
      <3>3. va[n][v] = "attaching"
        BY <1>0, <1>3 DEF PAdd, PAddLost, PublishPCs
      <3> QED
        BY <2>1, <3>2, <3>3 DEF AbsStep, Contract!CNext, Contract!Plug
    <2>3. CASE ~(n \in vms /\ spec[n][v] = "absent")
      BY <1>3, <2>1, <2>3, HeldSame, Stutters DEF PAdd, PAddLost, infra
    <2> QED
      BY <2>2, <2>3
  <1> QED
    BY <1>1, <1>2, <1>3 DEF Publish

\* A successful ControllerUnpublishVolume is the contract's Detached.
LEMMA DetachedRefines ==
  ASSUME NEW n \in VMs, NEW v \in Vols, va[n][v] = "detaching", ~Holds(n, v),
         Succeed(n, v, "none"), UNCHANGED infra
  PROVE  AbsStep
  <1>1. Held' = Held /\ <<n, v>> \notin Held
    BY HeldSame, HeldPairs
  <1> QED
    BY <1>1 DEF Succeed, AbsStep, Contract!CNext, Contract!Detached

\* Steps of ControllerUnpublishVolume lose, report, or stutter.
LEMMA UnpublishRefines ==
  ASSUME IInv, NEW n \in VMs, NEW v \in Vols,
         Unpublish(n, v) \/ UPutLost(n, v) \/ UPutVMILost(n, v)
  PROVE  AbsStep
  <1>0. InfraOK /\ PairOK(n, v)
    BY TypeParts DEF IInv
  <1>1. CASE UGetVM(n, v) \/ USpec(n, v) \/ URemoveVM(n, v)
               \/ URemoveVMI(n, v) \/ UWait(n, v)
    BY <1>1, QuietMoves, HeldSame, Stutters
       DEF UGetVM, USpec, URemoveVM, URemoveVMI, UWait
  <1>2. CASE UPanic(n, v)
    BY <1>2, HeldSame, Stutters DEF UPanic, infra
  <1>3. CASE UStatus(n, v)
    <2>1. CASE HotplugInStatus(n, v)
      BY <1>3, <2>1, QuietMoves, HeldSame, Stutters DEF UStatus
    <2>2. CASE ~HotplugInStatus(n, v)
      BY <1>0, <1>3, <2>2, DetachedRefines
         DEF UStatus, PairOK, SpecCleanPCs, UnpublishPCs, Holds
    <2> QED
      BY <2>1, <2>2
  <1>4. CASE UWaitVM(n, v)
    <2>1. CASE InSpec(n, v)
      BY <1>4, <2>1, QuietMoves, HeldSame, Stutters DEF UWaitVM
    <2>2. CASE ~InSpec(n, v)
      BY <1>0, <1>4, <2>2, DetachedRefines
         DEF UWaitVM, PairOK, SpecCleanPCs, UnpublishPCs, Holds
    <2> QED
      BY <2>1, <2>2
  <1>5. CASE UPut(n, v) \/ UPutLost(n, v)
    <2>1. va' = va
      BY <1>5, QuietMoves DEF UPut, UPutLost
    <2>2. CASE HotplugInSpec(n, v)
      <3>1. OtherDisksSame(n, v)
        BY <1>0, <1>5, <2>2, SpecEdit DEF UPut, UPutLost, SpecStates
      <3>2. Held' \subseteq Held /\ Held \ Held' \subseteq {n} \X Vols
        BY <2>2, <3>1, HeldLocal DEF Holds
      <3> QED
        BY <2>1, <3>2, Loses
    <2>3. CASE ~HotplugInSpec(n, v)
      BY <1>5, <2>1, <2>3, HeldSame, Stutters DEF UPut, UPutLost, infra
    <2> QED
      BY <2>2, <2>3
  <1>6. CASE UPutVMI(n, v) \/ UPutVMILost(n, v)
    <2>1. va' = va
      BY <1>6, QuietMoves DEF UPutVMI, UPutVMILost
    <2>2. CASE HotplugInStatus(n, v)
      <3>1. OtherDisksSame(n, v)
        BY <1>0, <1>6, <2>2, StatusEdit DEF UPutVMI, UPutVMILost, StStates
      <3>2. Held' \subseteq Held /\ Held \ Held' \subseteq {n} \X Vols
        BY <2>2, <3>1, HeldLocal DEF Holds
      <3> QED
        BY <2>1, <3>2, Loses
    <2>3. CASE ~HotplugInStatus(n, v)
      BY <1>6, <2>1, <2>3, HeldSame, Stutters DEF UPutVMI, UPutVMILost, infra
    <2> QED
      BY <2>2, <2>3
  <1> QED
    BY <1>1, <1>2, <1>3, <1>4, <1>5, <1>6 DEF Unpublish

\* KubeVirt plugs only what the spec already holds; otherwise it removes.
LEMMA KubeVirtRefines ==
  ASSUME IInv, NEW n \in VMs, NEW v \in Vols, KubeVirt(n, v)
  PROVE  AbsStep
  <1>0. InfraOK
    BY TypeParts DEF IInv
  <1>1. OtherDisksSame(n, v) /\ va' = va
    BY <1>0, StatusEdit
       DEF KubeVirt, KVPlug, KVReady, KVUnplug, KVUnplugged, StStates
  <1>2. Holds(n, v)' => Holds(n, v)
    BY <1>0 DEF KubeVirt, KVPlug, KVReady, KVUnplug, KVUnplugged, Holds,
       HotplugInSpec, HotplugInStatus, HotplugSt, InfraOK
  <1>3. Held' \subseteq Held /\ Held \ Held' \subseteq {n} \X Vols
    BY <1>1, <1>2, HeldLocal
  <1> QED
    BY <1>1, <1>3, Loses

\* So do the VM's own starts, stops and deletion.
LEMMA LifecycleRefines ==
  ASSUME IInv, NEW n \in VMs, KVStop(n) \/ KVStart(n) \/ KVDelete(n)
  PROVE  AbsStep
  <1>0. InfraOK
    BY TypeParts DEF IInv
  <1>1. \A m \in VMs, w \in Vols : Holds(m, w)' => Holds(m, w)
    BY <1>0 DEF KVStop, KVStart, KVDelete, Holds, HotplugInSpec,
       HotplugInStatus, HotplugSt, InfraOK, SpecStates
  <1>2. \A m \in VMs \ {n}, w \in Vols : Holds(m, w)' <=> Holds(m, w)
    BY <1>0 DEF KVStop, KVStart, KVDelete, Holds, HotplugInSpec,
       HotplugInStatus, InfraOK
  <1>3. Held' \subseteq Held
    BY <1>1 DEF Held
  <1>4. Held \ Held' \subseteq {n} \X Vols
    BY <1>2 DEF Held
  <1>5. va' = va
    BY DEF KVStop, KVStart, KVDelete
  <1> QED
    BY <1>3, <1>4, <1>5, Loses

\* Every step of the system is a step of the contract or stutters.
LEMMA NextRefines == IInv /\ [Next]_vars => AbsStep
  <1> SUFFICES ASSUME IInv, [Next]_vars PROVE AbsStep
    OBVIOUS
  <1>1. ASSUME NEW n \in VMs, NEW v \in Vols,
               Handler(n, v) \/ Fault(n, v) \/ COCall(n, v)
        PROVE  AbsStep
    <2>1. CASE Publish(n, v) \/ PAddLost(n, v)
      BY <2>1, PublishRefines
    <2>2. CASE Unpublish(n, v) \/ UPutLost(n, v) \/ UPutVMILost(n, v)
      BY <2>2, UnpublishRefines
    <2>3. CASE PollTimeout(n, v) \/ AttemptError(n, v) \/ Abort(n, v)
                 \/ COCall(n, v)
      BY <2>3, QuietMoves, HeldSame, Stutters DEF PollTimeout, AttemptError,
         Abort, COCall, COPublish, COUnpublish
    <2> QED
      BY <1>1, <2>1, <2>2, <2>3 DEF Handler, Fault
  <1>2. ASSUME NEW n \in VMs, NEW v \in Vols, CORequest(n, v) PROVE AbsStep
    BY <1>2, HeldSame DEF CORequest, AbsStep, Contract!CNext,
       Contract!Request, Contract!RWO
  <1>3. ASSUME NEW n \in VMs, NEW v \in Vols, COCancel(n, v) PROVE AbsStep
    BY <1>3, HeldSame DEF COCancel, AbsStep, Contract!CNext, Contract!Cancel
  <1>4. ASSUME NEW v \in Vols, CODelete(v) PROVE AbsStep
    BY <1>4, Stutters DEF CODelete, Held, Holds, HotplugInSpec,
       HotplugInStatus
  <1>5. CASE UNCHANGED vars
    BY <1>5, Stutters DEF vars, Held, Holds, HotplugInSpec, HotplugInStatus
  <1> QED
    BY <1>1, <1>2, <1>3, <1>4, <1>5, KubeVirtRefines, LifecycleRefines
       DEF Next

\* The system starts in an initial state of the contract.
LEMMA InitRefines == Init => Contract!CInit
  <1> SUFFICES ASSUME Init PROVE Contract!CInit
    OBVIOUS
  <1>1. va \in [VMs -> [Vols -> {"none", "attached"}]]
    BY DEF Init
  <1>2. \A v \in Contract!RWO : \A n, m \in VMs :
          va[n][v] = "attached" /\ va[m][v] = "attached" => n = m
    BY AttachAssumption DEF Init, Contract!RWO
  <1>3. \A n \in VMs, v \in Vols : Holds(n, v) => va[n][v] = "attached"
    BY DEF Init, Holds, HotplugInSpec, HotplugInStatus, HotplugSt
  <1>4. Held \subseteq {p \in VMs \X Vols : va[p[1]][p[2]] = "attached"}
    BY <1>3 DEF Held
  <1> QED
    BY <1>1, <1>2, <1>4 DEF Contract!CInit

\* Every behaviour of the handlers, with all the failures they meet, is one the
\* contract allows.
THEOREM Refinement == Spec => ImplementsContract
  <1>1. IInv /\ [Next]_vars => [Contract!CNext]_(Contract!cvars)
    BY NextRefines DEF AbsStep
  <1> QED
    BY <1>1, InitRefines, Invariance, PTL
       DEF Spec, ImplementsContract, Contract!CSpec
=============================================================================
