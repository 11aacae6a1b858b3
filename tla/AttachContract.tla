--------------------------- MODULE AttachContract ---------------------------
(***************************************************************************)
(* What ControllerPublishVolume and ControllerUnpublishVolume promise the  *)
(* container orchestrator (CO), with no API call, poll or retry in sight.  *)
(*                                                                         *)
(*  va[n][v]  how the CO regards volume v on VM n;                         *)
(*  held      the pairs <<n, v>> for which the infra cluster really has v  *)
(*            hot-plugged (or about to be hot-plugged) into n.             *)
(*                                                                         *)
(* VolumeAttach.tla implements this specification.                         *)
(***************************************************************************)
CONSTANTS Vols,   \* infra DataVolumes; a volume id is a DataVolume name
          VMs,    \* node ids: names of infra VMs (a VMI has its VM's name)
          RWX,    \* the volumes published with a multi-node access mode
          Static  \* <<n, v>> where v is a permanent disk of VM n

VARIABLES va, held

cvars == <<va, held>>

Phases == {"none", "attaching", "attached", "detaching"}

\* Volumes the driver must keep on one VM at a time (hasRWXCapabiltyAccessMode).
RWO == Vols \ RWX

CInit == /\ va \in [VMs -> [Vols -> {"none", "attached"}]]
         /\ \A v \in RWO : \A n, m \in VMs :
              va[n][v] = "attached" /\ va[m][v] = "attached" => n = m
         /\ held \subseteq {p \in VMs \X Vols : va[p[1]][p[2]] = "attached"}

\* The CO asks for v on n; an RWO volume only when no other VM has it.
Request(n, v) ==
  /\ va[n][v] = "none"
  /\ v \in RWO => \A m \in VMs : va[m][v] = "none"
  /\ va' = [va EXCEPT ![n][v] = "attaching"]
  /\ UNCHANGED held

\* The volume is only ever plugged into a VM it is being attached to.
Plug(n, v) ==
  /\ va[n][v] = "attaching"
  /\ held' = held \union {<<n, v>>}
  /\ UNCHANGED va

\* Success is reported only for a volume that n holds or has permanently.
Attached(n, v) ==
  /\ va[n][v] = "attaching"
  /\ <<n, v>> \in held \union Static
  /\ va' = [va EXCEPT ![n][v] = "attached"]
  /\ UNCHANGED held

Cancel(n, v) ==
  /\ va[n][v] \in {"attaching", "attached"}
  /\ va' = [va EXCEPT ![n][v] = "detaching"]
  /\ UNCHANGED held

\* Volumes leave a VM: unplugged, or the VM or its instance is gone.
Lose(n) ==
  /\ held' \in SUBSET held
  /\ held \ held' \subseteq {n} \X Vols
  /\ UNCHANGED va

\* The CO is told "detached" only when nothing holds the volume on n.
Detached(n, v) ==
  /\ va[n][v] = "detaching"
  /\ <<n, v>> \notin held
  /\ va' = [va EXCEPT ![n][v] = "none"]
  /\ UNCHANGED held

CNext == \E n \in VMs :
           \/ Lose(n)
           \/ \E v \in Vols : \/ Request(n, v) \/ Plug(n, v) \/ Attached(n, v)
                              \/ Cancel(n, v) \/ Detached(n, v)

CSpec == CInit /\ [][CNext]_cvars
=============================================================================
