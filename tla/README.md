# TLA+ verification of the KubeVirt CSI driver

The driver lets pods of a *tenant* Kubernetes cluster, whose nodes are KubeVirt
VMs, use storage of the *infra* cluster that runs those VMs. A volume is a CDI
`DataVolume` in one infra namespace; attaching it is hot-plugging it into the
VM. This directory models the driver's own logic, checks it with TLC on small
instances and proves its safety properties for all instances with TLAPS.

## 1. Inventory

| Component | State it relies on | Operations | Interacts with |
|---|---|---|---|
| Attach/detach, `pkg/service/controller.go:365-666` | none of its own: VM spec, VMI status, DataVolumes | `ControllerPublishVolume`, `ControllerUnpublishVolume` | external-attacher calls it; KubeVirt's controllers act on what it writes |
| Provisioning, `controller.go:73-346` | DataVolumes | `CreateVolume`, `DeleteVolume` | external-provisioner; other users of the namespace |
| Snapshots, `controller.go:717-816` | VolumeSnapshots, DataVolumes, PVCs | `CreateSnapshot`, `DeleteSnapshot` | csi-snapshotter; infra snapshot controller |
| Snapshot listing, `controller.go:818-889` | a list read anew per page | `ListSnapshots` | csi-snapshotter |
| Expansion, `controller.go:891-925`, `node.go:477-508` | PVC, PV, file system | `ControllerExpandVolume`, `NodeExpandVolume` | external-resizer, kubelet; runs next to provisioning of the same volume |
| Class policy, `controller.go:96-110`, `client.go:418-494` | configuration, a mapping cached under a mutex | storage class and snapshot class decisions | provisioning, snapshots |
| Node service, `pkg/service/node.go` | devices, file systems, mount table | stage, publish, unpublish, stats | kubelet |
| Mounter, `pkg/mounter/mount.go` | none | stat and statistics, in 64-bit words | node service |
| API client, `pkg/kubevirt/client.go` | the cached mapping | wrappers and polls of the infra API | everything above |
| Process: `cmd/kubevirt-csi-driver`, `driver.go`, `server.go`, `identity.go` | flags, the three services, the socket file | start-up, registration, serving, dying | kubelet, sidecars, the tenant's Node object |
| Generated clients, `pkg/generated` | group REST clients; the fakes' object tracker | nine methods on each of 19 kinds | API client in production, unit tests on the fakes |

The controller keeps no attachment state: each RPC works it out again from API
objects that change under it. What is hard is therefore

* *interleaving*: RPCs for different volumes and nodes run concurrently, and
  KubeVirt, VM restarts and VM deletions come between any two API calls;
* *lost answers and crashes*: a call may take effect although the handler saw an
  error, or died; the CO repeats the RPC and the repetition must pick up;
* *two sources of truth*: a volume can be in the VM's spec, the VMI's status, in
  both or only in the latter (upgrade carry-over, VM deleted first,
  kubevirt/csi-driver#83);
* *timeouts*: a 2-minute poll inside an RPC with its own deadline, then a retry;
* *panics*: nothing recovers one, so a single bad list, file system or call ends
  the process and every RPC in flight; what a dead process leaves must not stop
  the next.

The properties that make each part correct:

* attach/detach: at most one VM holds a ReadWriteOnce volume; a reported detach
  means nothing holds the volume; permanent disks are left alone; requests
  eventually complete;
* provisioning: a PV names the DataVolume that is there; repeated creation and
  deletion are idempotent; policy and ownership are respected;
* snapshots: what is reported exists and is of the volume asked for; the class
  comes from the mapping; an unfinished attempt is picked up by the next one;
* listing: the pages fit together; expansion: the recorded size is there; node:
  one mount per target, nothing formatted twice, unpublish leaves nothing mounted;
* process: what serves has passed its checks, registers a VM somebody named, and
  always serves again; statistics are exact or refused;
* clients: each keeps to its own objects and, for the calls a test can stand for,
  behaves like the fake the unit tests use in its place.

`PROJECT.json` lists every component with its status and, under `hazards`, the
lines where these things can go wrong.

## 2. Modules

| Module | Models |
|---|---|
| `AttachContract` | what publish and unpublish promise the CO: `va` (its view of each volume on each VM) and `held` (what the infra cluster really holds); no API calls |
| `VolumeAttach` | both handlers, one step per API call, with KubeVirt and the CO around them; implements `AttachContract` with `held <- Held` |
| `Provisioning` | `CreateVolume`, `DeleteVolume`, `ControllerExpandVolume`, the storage class policy |
| `SnapshotCreation` | `CreateSnapshot`, `DeleteSnapshot`, the snapshot class policy |
| `NodeService` | the handlers of the node plugin over disks, file systems and mounts, as the kubelet calls them |
| `SnapshotListing` | `ListSnapshots`: a walk page by page over a list that changes |
| `VolumeStats` | `GetVolumeStats`, `NodeGetVolumeStats` in words of 2 × `Half` values |
| `DriverProcess` | start-up, assembly, the gRPC server and the node's registration; composes `SnapshotListing` and `VolumeStats`, whose panics end the process |
| `TypedClients`, `FakeClients` | the generated clients of 19 kinds and their fakes, one definition per generated file |
| `Clientset` | `NewForConfig`, and the same calls through a typed client on the API server and through its fake on the object tracker |
| `MC...` | constants for TLC |
| `...Proofs` | the theorems about the module of that name |

### VolumeAttach

State: `dvs`, `vms`, `vmis` are the API objects that exist; `spec[n][v]` is the
entry of `v` in VM `n`'s `spec.template.spec.volumes` (absent, hot-pluggable
DataVolume, or part of the VM's own definition); `st[n][v]` the entry in the
VMI's `status.volumeStatus`; `va[n][v]` the CO's VolumeAttachment; `pc[n][v]` the
next API call of the handler working on that pair; `tries[n][v]` the failed
attempts of its `wait.ExponentialBackoff` loop.

`Publish` is `ControllerPublishVolume`: `PCheck` (other VMIs), `PGetDV`,
`PGetVM`, `PFastPath`, then the retried `addVolumeToVm` (`PFound`, `PAdd`) and
the poll `EnsureVolumeAvailable` (`PWait`, `PWaitVM`). `Unpublish` is
`ControllerUnpublishVolume`: `volumeStillAttached` (`UGetVM`, `USpec`,
`UStatus`), the retried `removeVolumeFromVm` (`URemoveVM`, `UPut`, `URemoveVMI`,
`UPutVMI`) and the poll `EnsureVolumeRemoved` (`UWait`, `UWaitVM`). A poll whose
condition does not hold simply has no step; `PollTimeout` is its deadline or the
error of one of its calls. `UPanic` is the dereference at `controller.go:616`.

Faults: `AttemptError` (a call inside a retry loop fails), `Abort` (any other
call fails, the RPC is cut off, or the process dies under it) and the `...Lost`
actions (the call takes effect, its answer is lost).

The CO: `CORequest`/`COCancel` create and delete a VolumeAttachment,
`COPublish`/`COUnpublish` are the external-attacher's calls. KubeVirt: `KVPlug`,
`KVReady`, `KVUnplug`, `KVUnplugged` reconcile a VMI with its VM's spec;
`KVStop`, `KVStart`, `KVDelete` are the life of the VM.

`Holds(n, v)` says that the infra cluster has `v` hot-plugged in `n` or will have
at the VMI's next start.

### Provisioning

State: `dv[n]` the DataVolume called `n` (with a UID, labels, size, class, access
mode, source and whether it has a `spec.storage`), `req[n]` the CO's request,
`phase[n]` and `pv[n]` what the external-provisioner knows, `pc[n]` the handler.
`CValidate`, `CSource`, `CGet`, `CPost` are the calls of `CreateVolume`, `DGet`
and `DDelete` those of `DeleteVolume`. `Foreign` is another user of the
namespace. A capability is a pair of block/file system and the node part of its
access mode; `LastMode` reproduces `getAccessMode`, whose loop lets the last
capability decide.

Expansion runs beside them, one call per volume at a time and independent of the
provisioner's: `disk[n]` is the request of the infra PVC and the capacity of its
PV, `rs[n]` the handler. `XGet`, `XPatch` (`XPatchLost`) are
`ExpandPersistentVolumeClaim`, `XRead` and `XPoll` are `EnsureControllerResize`,
which waits for the size it read once; `XAbort` is a failing call, the deadline or
a crash. `Bind`, `Grow` and `Collect` are CDI and the infra cluster: they make the
claim, grow the PV and remove the claim after its DataVolume.

### SnapshotCreation

State: `snap[s]` the VolumeSnapshot called `s`, `want[s]` what the CO asks for,
`report[s]` what was answered, `phase[s]`, `pc[s]`, and the volumes `dvs`.
`SGet`, `SSource`, `SGetDV`, `SClass`, `SPost`, `SWait`, `SReget` are the calls of
`CreateSnapshot`, `XGet` and `XDelete` those of `DeleteSnapshot`. `SnapshotClass`
is `getSnapshotClassNameFromVolumeClaimName` as a function. A snapshot has its
restore size exactly when it is ready.

### NodeService

State: of each volume `plugged`, the disk's `size`, the file system's size `fs`
(0 for none) and whether it is in `data`; of each target path whether it exists
(`path`) and how many mounts are stacked on it (`mnt`); of the kubelet its
`phase` per volume and target, the targets it still owes a `NodeExpandVolume`
(`grow`) and the call it waits for (`cur`); `pc[o][c]` is the next system call of
call `c` for `o`. `mixed` is a history variable: the objects for which a call was
started while another one was still running, until an unpublish or unstage has
succeeded with no call beside it. No action reads it.

`SList`, `SMkfs` are `NodeStageVolume`, `Unstage` is `NodeUnstageVolume`, `PList`,
`PCheck`, `PPath`, `PMount` are `NodePublishVolume`, `RNeed` and `RGrow` the
`resizeFs` it shares with `NodeExpandVolume` (`EFind`), `UUmount` and `URemove`
are `NodeUnpublishVolume`. The handlers ignore the RPC's context, so `Abandon`
leaves the call running and only makes the kubelet deaf to its answer; the next
call for the same object then runs beside it, as nothing in the driver excludes
that. `Crash`
ends all calls; `StepError` is a command that fails without effect.
`KubeletDecide`, `KubeletCall` and `KubeletExpand` are the kubelet; `DiskAppears`,
`DiskLeaves`, `DiskGrows` and `PodWrites` the world around it.

### SnapshotListing

`snapshots` maps the names in the infra namespace to their source and labels;
`walk` is a client's walk: its request, the token, what it has `seen`, and whether
the list is still the `same`. `Items` is the selection by id, source and labels;
`Start`, `End`, `Page`, `NextToken` are the arithmetic of
`createSnapshotResponseFromItems` on positions instead of slices; `SlicePanics`
and `SourcePanics` are the two expressions that can take the process down.
`Appears` and `Vanishes` change the list between pages.

### DriverProcess and VolumeStats

`cfg`, `node`, `api`, `dir` are the flags and environment, the tenant's Node
object, whether the API server answers and whether the socket's directory exists;
`stage`, `identity`, `controller`, `nodeID` the process; `sock` the socket file,
which outlives it; `csiNode` what the kubelet registered. `ParseConfig`,
`ConfigureControllerService`, `ConfigureNodeService`, `Serve` are `main` from flag
parsing to the listener, each ending in `Exit` on any of its fatal errors. A
flag, label set or YAML document is told apart by the outcome of parsing it.

`CallUnsetService` is a call of a service that was never set. All three are
registered regardless: `driver.go` stores nil pointers in interfaces, which
`server.go:103-111` compares with nil. `StatsPanic` and `ListCallPanics` are
panics in `NodeGetVolumeStats` and `ListSnapshots`. `Kill` is any other death.
`ResolveNodeID` is `resolveNodeID`, which takes VM name and namespace both from the
provider ID and its companion annotation or both from the CSI annotations.

`VolumeStats` has no state: `GetVolumeStats` and `InodeStats` are functions of what
`statfs` reports, compared with exact arithmetic (`StatsExact`); `Half` is 2^63 in
the code. `NodeGetVolumeStats` adds the errors before it: no such path, a failing
stat, device check or `blockdev`.

### TypedClients, FakeClients, Clientset

A generated file is nine methods (eight without a `Status`) over a resource name
and a scope, so each becomes one definition that builds the REST request, or the
fake's action, of a call. `Clientset` sends every call both ways: `Real` through
the API server (`Serve`: routing, status subresource, resource versions) and
`Fake` through the vendored tracker (`React`). `server` and `tracker` hold the
objects of all kinds, with one bystander per kind and namespace. `Into` returns
the result allocated before the call also with an error; that is the empty, not
nil, VirtualMachine behind `attach_vm_gone`. `Portable` lists where a fake does not
behave like the API server: its watch is silent about the objects there are, a
create stores the status it carries, a collection is not deleted, a stale update
is accepted, and a write to the object changes the status and the reverse.

## 3. Runs

| Run | Expect | Shows |
|---|---|---|
| `attach_safety` | pass | `TypeOK`, `DetachedIsReleased`, `SingleAttach`, `RemovesOnlyHotplugs`, `ImplementsContract`, `NoFalseDetach` |
| `attach_liveness` | pass | `DetachCompletes`, `AttachCompletes` |
| `attach_vm_gone` | violation | the detach of a VM deleted before its VMI never ends (`OrphanReleased`) |
| `provisioning` | pass | `TypeOK`, `BoundIsBacked`, `RecordedIsProvisioned`, `GoneIsDeleted`, `PolicyHolds`, `ForeignUntouched` |
| `provisioning_modes` | violation | a shared file system volume is accepted (`SharedIsBlock`) |
| `snapshots` | pass | `TypeOK`, `CutIsFaithful`, `ClassIsMapped`, `ForeignUntouched`, `CreateCompletes` |
| `snapshot_retry` | violation | a retried snapshot is reported with size 0 (`ReportHasSize`) |
| `listing_tail` | violation | a page that leaves one entry ends the listing (`PagesCoverList`) |
| `node` | pass | `TypeOK`, `PublishedIsMounted`, `UnpublishedIsClean`, `FullSize`, `LossNeedsOverlap`, `PublishCompletes` |
| `node_unpublish` | violation | an unpublish repeated after its answer was lost fails for ever (`UnpublishCompletes`) |
| `process` | pass | `TypeOK`, `ServingIsConfigured`, `RegisteredIsNamed`, `PagesFitTogether`, `PanicsExplained`, `ReportsExact`, `ServesAgain` |
| `clientset` | pass | `TypeOK`, `FakeFaithful`, `OwnObjectsOnly` |

The five violations are disagreements between the code and its own comments,
documentation, interface or tests; `PROJECT.json` quotes both sides under
`findings`. Two more are in the models without a run of their own: a repeated
`ControllerPublishVolume` finds the volume in the VM's spec and answers without
waiting for it to be Ready (`PFastPath`, `controller.go:418-419`), and with
`allowDefault` a snapshot class outside the mapping is ignored, not rejected
(`SnapshotClass`, `client.go:424`; `docs/snapshot-driver-config.md:72`).

`PagesFitTogether` states what the listing does deliver on an unchanged list: no
entry twice, none skipped between pages, at most the last one missing.
`PanicsExplained` bounds when it takes the process down.

Run one with `tlc -workers 2 -config attach_safety.cfg MCVolumeAttach`.

### Bounds, and why they are enough

* `attach_safety`: one RWO volume, since handlers of different volumes share
  nothing but the panic; three VMs, so that two compete for what a third still
  holds, one with an upgrade carry-over and one with a permanent disk of the
  volume's name; all restart and may be deleted; `BackoffSteps` is the code's 5.
* `attach_liveness`: two VMs that share a volume, carried over on one and a
  permanent disk of the other, and two attempts instead of five, enough for "fails,
  then succeeds" and "gives up"; a third VM exceeds what TLC does in five minutes.
  `DetachCompletes` leaves the permanent disk out: no removal is requested for it
  (`controller.go:620`, `642`), it stays in the VMI's status, and the poll of
  `EnsureVolumeRemoved` ends only with its timeout, again and again.
* `attach_vm_gone`: one VM and two attempts.
* `provisioning`: two names, so that one can clone the other; one of them is
  taken by an adopted DataVolume without `spec.storage`; `MaxUid` 3 allows two
  further objects, for example the volume and a foreign one that takes its name
  after deletion. The other name is `Expandable`, with sizes 1 and 2 grown to 2 or
  3: an expansion can be overtaken by a larger one, or find the claim larger than
  the tenant's PV records. About 2.4 million states.
* `snapshots`: one name (names share no state), two volumes in two classes.
* `node`: one file system volume with one target, and one expansion (`MaxSize` 2),
  so that it falls before, during or after a publish or another expand. Two call
  slots per object, so that a call the kubelet gave up on runs beside the next one
  at every point of both. About 100,000 states.
  Overlapping calls do lose data, and `LossNeedsOverlap` says so by its exception:
  the driver has no lock, and without the exception TLC finds the mount of an
  abandoned publish (`node.go:290`) between the `umount` and the `os.RemoveAll`
  of an unpublish (`node.go:398`, `404`), which then empties the volume. With the
  raw block volume `blk` and its target `t2` in place of `fsv` and `t1` the same
  properties hold, in about 39,000 states; both together, with two slots each, are
  too many. The safety proofs cover any number of both; liveness is checked on each
  alone.
* `node_unpublish`: the file system volume and its target, one call slot.
* `process`: sixteen configurations, the two deployments, both services in one
  process, and one of each defect start-up checks for; Node objects that are
  fresh, half annotated, and named either way; three snapshots and pages of one or
  all, so that a page can be the middle one; words of 8 values
  (`Half` is 4), where products wrap and sign limits differ from word limits, with
  every combination of counts.
* `listing_tail`: three snapshots, pages of one or two.
* `clientset`: all 19 kinds, one at a time; one name that is called and one that
  is not, two namespaces; spec, status and label are one bit each. About 2,500
  states, at each of which `FakeFaithful` looks at every method call.

Deadlock is not checked in `Provisioning` and `SnapshotCreation`: a system whose
volumes and snapshots have all been deleted may rest. All other modules never rest
and deadlock is checked.

### Assumptions about what is not in this repository

* virt-api's `addvolume`/`removevolume` on a VM changes the VM's spec at once
  (`client.go:613` relies on it); a VMI's status lists a volume from the moment
  it is plugged.
* A call takes effect, if ever, before the RPC that made it has ended. A PUT that
  outlives its RPC is listed as a hazard without a property.
* The CO runs one RPC per volume and node (or per name) at a time, repeats failed
  ones, and asks for an RWO volume elsewhere only after the detach succeeded. The
  sidecars' `--timeout=3m` exceeds the handlers' longest path, about 15 s of
  backoff and a 2-minute poll; `Abort` covers calls cut off anyway.
* `mkfs` refuses a mounted device even with the force flag and is atomic: a
  half-written file system that `lsblk` already reports is not modelled. `umount`
  of a path that exists and is not mounted is forgiven by
  `k8s.io/mount-utils`, of a path that does not exist it is not.
* The kubelet publishes only staged volumes and unstages only volumes without
  targets; a finished controller expansion is followed by a `NodeExpandVolume` at
  each target then in use. It waits for one call per object at a time, but does not
  wait for one it has given up on. A disk leaves the node only when unstaged.
* The PVC of a DataVolume has its name and labels and a capacity no smaller than
  its request; the API server never lets a claim shrink.
* Every kind with a `Status` in its Go type has the status subresource; a PUT with
  an old resource version is a conflict. The tracker is the vendored
  `client-go/testing` one. Objects have names (client-go refuses an empty one) and
  a client of a namespaced kind has a namespace: one made for all can only read.
* `ListSnapshots` is called with tokens that a page has handed out, and the API
  server lists in the order of names.

### Fairness

Weak fairness of each handler, of the CO's calls and of KubeVirt's (or the
snapshot controller's) reconciliation: goroutines run, sidecars retry,
controllers reconcile. In `NodeService` also of `DiskAppears`: a disk the
controller has hot-plugged becomes visible in the guest. Nothing obliges a fault,
a restart or a deletion to happen, nor to stop happening. Liveness is stated under
`FaultsCease`: from some
point on no call fails or is aborted. It is written "every step a fault could
have taken is one the handler takes" because a panic of the handler itself
changes the state just as an abort does and must not be excused. Poll timeouts
stay possible for ever.

`DriverProcess` has weak fairness of `ParseConfig` (the kubelet restarts the
container for ever) and strong fairness of the three later steps: each takes
milliseconds, and a kill, an outage or a changed Node does not come before every
single one of them for ever. `ServesAgain` asks nothing while the configuration,
the Node or the API server is not in order.

## 4. Proofs

Every safety property of a passing run is a theorem for all values of the constants.

| Module | Theorems |
|---|---|
| `VolumeAttachProofs` | `TypeCorrect`, `Released` (`DetachedIsReleased`), `ReadWriteOnce` (`SingleAttach`), `PermanentDisksStay` (`RemovesOnlyHotplugs`), `NoFalseDetachHolds`, `Refinement` (`ImplementsContract`) |
| `ProvisioningProofs` | `TypeCorrect`, `Backed` (`BoundIsBacked`), `Provisioned` (`RecordedIsProvisioned`), `NothingLeft` (`GoneIsDeleted`), `PolicyKept` (`PolicyHolds`), `ForeignSafe` (`ForeignUntouched`) |
| `SnapshotCreationProofs` | `TypeCorrect`, `Faithful` (`CutIsFaithful`), `PolicyKept` (`ClassIsMapped`), `ForeignSafe` (`ForeignUntouched`) |
| `NodeServiceProofs` | `TypeCorrect`, `Published` (`PublishedIsMounted`), `Unpublished` (`UnpublishedIsClean`), `Full` (`FullSize`), `Kept` (`LossNeedsOverlap`) |
| `SnapshotListingProofs` | `PagesFit` (`PagesFitTogether`), `TokensSafe` (`PanicsExplained`) |
| `VolumeStatsProofs` | `Exact` (`StatsExact`) |
| `DriverProcessProofs` | `TypeCorrect`, `Configured` (`ServingIsConfigured`), `Registered` (`RegisteredIsNamed`), `PagesServed`, `TokensServed`, `ReportedExactly` (`ReportsExact`) |
| `ClientsetProofs` | `TypeCorrect`, `OwnOnly` (`OwnObjectsOnly`), `Faithful` (`FakeFaithful`) |

The hypotheses are the named assumption of each module and nothing else. Almost
none of the properties is inductive; each
module's `Invariance` is about the strengthening `IInv` that is.

### VolumeAttach

`DetachedIsReleased` is not inductive: the step that reports a detach is correct
only because of what earlier calls of the same handler saw. `IInv` adds, for each
pair: which phases of the VolumeAttachment allow which handler; that the VM's
spec is still clean at the calls after the handler has found it so
(`SpecCleanPCs`), and the VMI's status while it makes its last call; that a pair
with no VolumeAttachment holds nothing; that static entries belong to `Static` and
are no hot-plugs of the VMI; that at the two removal calls neither the spec nor, at
the second, the status is static; and that a handler about to look at the VMI has
seen a spec without any entry of the name. One global conjunct, `OneAttachment`,
says that an RWO volume has one VolumeAttachment that is not "none".
`SingleAttach` then follows: a pair that holds has a VolumeAttachment, and there
is only one.

The argument is local. `LocalStep` reduces any step on one pair to keeping that
pair's part of the invariant, and `PublishOK`, `UnpublishOK`, `FaultOK`,
`KubeVirtOK` and `COCallOK` do that action by action. `PanicIInv`, `RequestIInv`,
`CancelIInv` and `LifecycleIInv` treat the steps that touch several pairs or open
a request. `DetachEnds` names the two steps that can report a detach. For the
refinement every step is shown to be `Plug`, `Attached`, `Detached`,
`Request`, `Cancel`, `Lose` or a stutter of the contract.

Why a clean spec stays clean during a detach is worth spelling out: the only
writer that adds to it is `PAdd`, whose handler needs the VolumeAttachment in
phase "attaching", and a pair has one handler at a time. The proof thus rests on
the CO's serialisation per pair, not on a lock in the driver.

### Provisioning and SnapshotCreation

Both invariants are local to a name. For a DataVolume, `NameOK` says: in which
phase which handler runs, that past `CValidate` the request is valid and that what
`DDelete` removes is the driver's (`CallOK`); that until release a claim has its
DataVolume and a PV no smaller than that asks for (`ClaimOK`); that a bound PV has
the DataVolume's UID and at least its size, exactly its size before there is a
claim and at most the claim's capacity afterwards (`PVOK`); that an expansion asks
for more than the PV records, and, once past its patch, both the claim's request
and the size it polls for are at least that (`ExpandOK`); and what the driver's own
DataVolumes look like (`OwnOK`). `ExpandOK` is what `RecordedIsProvisioned` needs:
`EnsureControllerResize` reads the size to wait for once and another expansion may
grow the claim meanwhile, but never shrink it below what was asked for.
`GoneIsDeleted` rests on `CallOK`: a creation cannot still be under way in the phase
"releasing", because the CO runs one call per name.

For a snapshot, `NameOK` says which phase each handler runs in, that a request at
`SPost` was admitted by the policy, that the snapshot is the driver's and of the
volume asked for at `SWait` and `SReget` and once reported, and that what
`XDelete` removes is the driver's.

### NodeService

`TypeCorrect` holds for any finite number of overlapping calls per object. It needs
a count: the mounts stacked on a target and the calls that have found it not
mounted and will mount it (`Mounting`) are together at most the number of calls.

The other theorems make no assumption on overlaps either. They are stated over
`mixed`: what is promised of an object holds unless calls for that very object have
overlapped. The invariant has a part that holds in any case (`CallOK`: the call the
kubelet waits for is the one it wants; a mounted or resized volume has its file
system; no block volume is about to be formatted) and a part for objects that are
not mixed: one call runs at a time (`Single`), each of its system calls finds the
mounts and the phase it relies on (`StepOK`), and the kubelet's view fits the mount,
the path and the file system (`ShapeOK`). The second part is needed because a
check and the step it permits lie apart: `u_remove` is harmless only with nothing
mounted since the umount, `s_mkfs` only with no file system made since `lsblk`. An
unpublish that succeeds alone proves its target clean and so ends its mixing;
`Single` then holds again, as no other call is left. Several targets of one volume
are covered, with the calls for each interleaved at will: an overlap at one target
does not weaken what is known of another.

### SnapshotListing and VolumeStats

`PagesInv` adds to `PagesFitTogether` that a token handed out lies within an
unchanged list (`TokenWithinList`). The lemmas `RankBounds`, `PageEnd` and
`NextPage` say that positions in the sorted list lie between 1 and its length, that
a page ends within it, and that a page and what came before it are an initial part
of the list.

`Exact` compares the words that `GetVolumeStats` computes, modulo 2 × `Half`, with
integers. `NoWrap` says that the code's division before a multiplication refuses
exactly the products that would wrap, `FitsExactly` that what passes both guards is
exact and what does not is beyond an `int64`.

### DriverProcess

The configuration is looked at once, so `StagesOK` says what each stage of the
start-up has established, and `NodeIDsNamed` that the ID the process holds and the
one the kubelet registered were each named by one state of the Node object,
although that object may have changed since. The proof reuses `PagesNext` and
`WalkEnds` of the listing for what the server does, and `Exact` for the statistics.

### Clientset

`RequestIs` and `ActionIs` establish that all 19 generated files, real and fake,
send the resource, scope and group of their own kind; `PluralsDiffer` that no two
kinds share a resource. From there the proofs treat a call on any kind at once:
`RealReads`, `RealWrites` and `FakeIs` say what a call does, and `FakeFaithful`
compares them. `IInv` adds that every object of the server is filed under its
kind, so that a list holds no object of another kind.

### Only model-checked

The liveness properties `DetachCompletes`, `AttachCompletes`, `CreateCompletes`,
`PublishCompletes` and `ServesAgain`: fairness and `ENABLED` are beyond the
prover. The five violations are counterexamples by nature.

## 5. Not modelled

* `pkg/generated/bindata.go` (compressed CRDs), `mocked_client.go` (gomock
  recorders), scheme registration and deep copies: data and boilerplate.
* `Stop`, `ForceStop` of the server and `Ping` of the client: never called.
* The static answers of the identity service and of `Get*Capabilities`;
  `ValidateVolumeCapabilities`: one lookup, no state.
* Argument validation of complete requests, error codes, log texts, the disk bus,
  file system types, mount options, timestamps.
* The PUT that outlives its RPC (see the assumptions).
* Deployment manifests, docs, vendored modules.

## 6. Plan

1. Done: `VolumeAttach` with its contract; `Provisioning` with expansion;
   `SnapshotCreation`; `NodeService`; `SnapshotListing`, `VolumeStats` and
   `DriverProcess`; the generated clients; the proofs of all their safety
   properties.
2. Done: overlapping node calls, what survives them and what does not.
3. A contract like `AttachContract` for provisioning: what the external-provisioner
   may rely on, and the refinement.
