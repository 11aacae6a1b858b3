------------------------ MODULE DriverProcessProofs -------------------------
(***************************************************************************)
(* Proofs about DriverProcess for every set of configurations, every       *)
(* history of the Node object and of the snapshots, and every word size.   *)
(***************************************************************************)
EXTENDS DriverProcess, SnapshotListingProofs, VolumeStatsProofs

\* The node ID id was named as a whole by some state of the Node object.
Named(id) ==
  \E n \in NodeObjects :
    \/ n.kubevirtProvider /\ id = <<n.clusterNs, n.providerName>>
    \/ ~n.kubevirtProvider /\ id = <<n.annNs, n.annName>>

\* What start-up has established when a stage is reached: the configuration is
\* never looked at again, so each stage must remember what the ones before it
\* have checked.
StagesOK ==
  /\ stage \in {"down", "controller"} => ~controller
  /\ stage \in {"node", "serve", "serving"} =>
       /\ controller <=> cfg.runController
       /\ controller => /\ cfg.labels \notin {"unset", "malformed"}
                        /\ cfg.prefix /\ cfg.enforcement # "malformed"
  /\ stage \in {"down", "controller", "node"} => nodeID = NoVM /\ identity # "tenant"
  /\ stage \in {"serve", "serving"} =>
       /\ nodeID # NoVM <=> cfg.runNode
       /\ identity = "tenant" <=> cfg.runNode

\* The ID is read from the Node once and kept; the Node may change before the
\* kubelet asks for it.
NodeIDsNamed ==
  /\ nodeID # NoVM => Named(nodeID)
  /\ csiNode # NoVM => Named(csiNode)

\* The inductive invariant.
IInv == TypeOK /\ PagesInv /\ StagesOK /\ NodeIDsNamed

-----------------------------------------------------------------------------
(* The pieces of a step.                                                   *)

\* A node ID that could be resolved has both parts, from one place.
LEMMA Resolved ==
  ASSUME NEW n \in NodeObjects, ResolveNodeID(n) # NoVM
  PROVE  /\ Named(ResolveNodeID(n))
         /\ "" \notin {ResolveNodeID(n)[1], ResolveNodeID(n)[2]}
  <1> DEFINE name == IF n.kubevirtProvider THEN n.providerName ELSE n.annName
             ns == IF n.kubevirtProvider THEN n.clusterNs ELSE n.annNs
  <1>1. ResolveNodeID(n) = <<ns, name>> /\ name # "" /\ ns # ""
    BY DEF ResolveNodeID
  <1>2. Named(<<ns, name>>)
    <2>1. CASE n.kubevirtProvider
      BY <2>1 DEF Named
    <2>2. CASE ~n.kubevirtProvider
      BY <2>2 DEF Named
    <2> QED
      BY <2>1, <2>2
  <1> HIDE DEF name, ns
  <1>3. <<ns, name>>[1] = ns /\ <<ns, name>>[2] = name
    OBVIOUS
  <1> QED
    BY <1>1, <1>2, <1>3

\* A process that has ended has nothing left that the invariant speaks of.
LEMMA ExitStep ==
  ASSUME IInv, Exit, UNCHANGED world, PagesInv', ~walk'.on
  PROVE  IInv'
  <1>1. /\ stage' = "down" /\ identity' = "none" /\ controller' = FALSE
        /\ nodeID' = NoVM /\ sock' \in {"absent", "stale", "bound"}
    BY DEF Exit, IInv, TypeOK
  <1>2. TypeOK'
    BY <1>1 DEF IInv, TypeOK, PagesInv, world
  <1>3. StagesOK'
    BY <1>1 DEF StagesOK
  <1>4. NodeIDsNamed'
    BY <1>1 DEF IInv, NodeIDsNamed, world, Named
  <1> QED
    BY <1>2, <1>3, <1>4 DEF IInv

\* A step of the listing or of the world around the process.
LEMMA OutsideStep ==
  ASSUME IInv, UNCHANGED <<process, cfg, csiNode>>, PagesInv',
         node' \in NodeObjects, api' \in BOOLEAN, dir' \in BOOLEAN,
         walk'.on => Serving
  PROVE  IInv'
  <1>1. TypeOK'
    BY DEF IInv, TypeOK, PagesInv, process, Serving
  <1>2. StagesOK' /\ NodeIDsNamed'
    BY DEF IInv, StagesOK, NodeIDsNamed, process, Named
  <1> QED
    BY <1>1, <1>2 DEF IInv

\* No walk is in progress before the server listens.
LEMMA StartupStep ==
  ASSUME IInv, ~Serving, UNCHANGED listVars
  PROVE  PagesInv' /\ ~walk'.on
  BY PagesNext DEF IInv, TypeOK, listVars

\* Start-up up to the controller service.
LEMMA ParseStep ==
  ASSUME IInv, ParseConfig
  PROVE  IInv'
  <1>1. PagesInv' /\ ~walk'.on
    BY StartupStep DEF ParseConfig, Serving
  <1>2. /\ stage = "down" /\ stage' \in {"controller", "down"}
        /\ UNCHANGED <<world, identity, controller, nodeID, sock>>
    BY DEF ParseConfig
  <1>3. TypeOK'
    BY <1>1, <1>2 DEF IInv, TypeOK, PagesInv, world
  <1>4. StagesOK'
    BY <1>2 DEF IInv, StagesOK, world
  <1>5. NodeIDsNamed'
    BY <1>2 DEF IInv, NodeIDsNamed, world, Named
  <1> QED
    BY <1>1, <1>3, <1>4, <1>5 DEF IInv

\* The controller service is set exactly if it is asked for and well configured.
LEMMA ControllerStep ==
  ASSUME IInv, ConfigureControllerService
  PROVE  IInv'
  <1>1. PagesInv' /\ ~walk'.on
    BY StartupStep DEF ConfigureControllerService, Serving
  <1>2. stage = "controller" /\ UNCHANGED world /\ ~controller /\ nodeID = NoVM
          /\ identity # "tenant"
    BY DEF ConfigureControllerService, IInv, StagesOK
  <1>3. CASE Exit
    BY <1>1, <1>2, <1>3, ExitStep
  <1>4. CASE /\ ~cfg.runController /\ stage' = "node"
             /\ UNCHANGED <<identity, controller, nodeID, sock>>
    <2>1. TypeOK'
      BY <1>1, <1>2, <1>4 DEF IInv, TypeOK, PagesInv, world
    <2>2. StagesOK'
      BY <1>2, <1>4 DEF StagesOK, world
    <2>3. NodeIDsNamed'
      BY <1>2, <1>4 DEF IInv, NodeIDsNamed, world, Named
    <2> QED
      BY <1>1, <2>1, <2>2, <2>3 DEF IInv
  <1>5. CASE /\ cfg.runController
             /\ ParseLabels(cfg.labels) /\ ConfigureEnforcement(cfg.enforcement)
             /\ GetVirtClient
             /\ stage' = "node" /\ controller' = TRUE /\ identity' = "infra"
             /\ UNCHANGED <<nodeID, sock>>
    <2>1. TypeOK'
      BY <1>1, <1>2, <1>5 DEF IInv, TypeOK, PagesInv, world
    <2>2. StagesOK'
      BY <1>2, <1>5
         DEF StagesOK, world, ParseLabels, ConfigureEnforcement, GetVirtClient
    <2>3. NodeIDsNamed'
      BY <1>2, <1>5 DEF IInv, NodeIDsNamed, world, Named
    <2> QED
      BY <1>1, <2>1, <2>2, <2>3 DEF IInv
  <1> QED
    BY <1>3, <1>4, <1>5 DEF ConfigureControllerService

\* The node service is set exactly if it is asked for and its VM is known.
LEMMA NodeStep ==
  ASSUME IInv, ConfigureNodeService
  PROVE  IInv'
  <1>1. PagesInv' /\ ~walk'.on
    BY StartupStep DEF ConfigureNodeService, Serving
  <1>2. stage = "node" /\ UNCHANGED world /\ nodeID = NoVM /\ identity # "tenant"
    BY DEF ConfigureNodeService, IInv, StagesOK
  <1>3. CASE Exit
    BY <1>1, <1>2, <1>3, ExitStep
  <1>4. CASE /\ ~cfg.runNode /\ stage' = "serve"
             /\ UNCHANGED <<identity, controller, nodeID, sock>>
    <2>1. TypeOK'
      BY <1>1, <1>2, <1>4 DEF IInv, TypeOK, PagesInv, world
    <2>2. StagesOK'
      BY <1>2, <1>4 DEF IInv, StagesOK, world
    <2>3. NodeIDsNamed'
      BY <1>2, <1>4 DEF IInv, NodeIDsNamed, world, Named
    <2> QED
      BY <1>1, <2>1, <2>2, <2>3 DEF IInv
  <1>5. CASE /\ cfg.runNode /\ ResolveNodeID(node) # NoVM
             /\ stage' = "serve" /\ nodeID' = ResolveNodeID(node)
             /\ identity' = "tenant" /\ UNCHANGED <<controller, sock>>
    <2>0. Named(nodeID') /\ "" \notin {nodeID'[1], nodeID'[2]}
      BY <1>5, Resolved DEF IInv, TypeOK
    <2>1. TypeOK'
      BY <1>1, <1>2, <1>5, <2>0 DEF IInv, TypeOK, PagesInv, world
    <2>2. StagesOK'
      BY <1>2, <1>5 DEF IInv, StagesOK, world
    <2>3. NodeIDsNamed'
      BY <1>2, <2>0 DEF IInv, NodeIDsNamed, world, Named
    <2> QED
      BY <1>1, <2>1, <2>2, <2>3 DEF IInv
  <1> QED
    BY <1>3, <1>4, <1>5 DEF ConfigureNodeService

\* Listening changes nothing but the socket.
LEMMA ServeStep ==
  ASSUME IInv, Serve
  PROVE  IInv'
  <1>1. PagesInv' /\ ~walk'.on
    BY StartupStep DEF Serve, Serving
  <1>2. stage = "serve" /\ UNCHANGED world
    BY DEF Serve
  <1>3. CASE Exit
    BY <1>1, <1>2, <1>3, ExitStep
  <1>4. CASE /\ stage' = "serving" /\ sock' \in {"bound", sock}
             /\ UNCHANGED <<identity, controller, nodeID>>
    <2>1. TypeOK'
      BY <1>1, <1>2, <1>4 DEF IInv, TypeOK, PagesInv, world
    <2>2. StagesOK'
      BY <1>2, <1>4 DEF IInv, StagesOK, world
    <2>3. NodeIDsNamed'
      BY <1>2, <1>4 DEF IInv, NodeIDsNamed, world, Named
    <2> QED
      BY <1>1, <2>1, <2>2, <2>3 DEF IInv
  <1> QED
    BY <1>3, <1>4 DEF Serve

\* A call or a signal that takes the process down.
LEMMA DieStep ==
  ASSUME IInv, Die
  PROVE  IInv'
  <1>1. PagesInv' /\ ~walk'.on
    BY WalkEnds DEF Die, IInv, NoWalk
  <1> QED
    BY <1>1, ExitStep DEF Die

\* The kubelet records the ID the node service was started with.
LEMMA NodeGetInfoStep ==
  ASSUME IInv, NodeGetInfo
  PROVE  IInv'
  <1>1. PagesInv' /\ walk' = walk
    BY PagesNext DEF IInv, NodeGetInfo, listVars
  <1>2. /\ csiNode' = nodeID /\ nodeID # NoVM /\ UNCHANGED <<cfg, node, api, dir>>
        /\ UNCHANGED <<stage, identity, controller, nodeID, sock>>
    BY DEF NodeGetInfo, process
  <1>3. TypeOK'
    BY <1>1, <1>2 DEF IInv, TypeOK, PagesInv, Serving
  <1>4. StagesOK'
    BY <1>2 DEF IInv, StagesOK
  <1>5. NodeIDsNamed'
    BY <1>2 DEF IInv, NodeIDsNamed, Named
  <1> QED
    BY <1>1, <1>3, <1>4, <1>5 DEF IInv

\* A page is answered, or a snapshot comes or goes.
LEMMA ListStep ==
  ASSUME IInv, ListCall \/ SnapshotsChange
  PROVE  IInv'
  <1>1. ListNext /\ UNCHANGED <<world, process>>
    BY DEF ListCall, SnapshotsChange, ListNext
  <1>2. PagesInv'
    BY <1>1, PagesNext DEF IInv
  <1>3. walk'.on => Serving
    <2>1. CASE ListCall
      BY <2>1 DEF ListCall
    <2>2. CASE SnapshotsChange
      <3>1. PICK n \in Ids : Appears(n) \/ Vanishes(n)
        BY <2>2 DEF SnapshotsChange
      <3>2. ~walk.on => walk' = walk
        BY <3>1 DEF Appears, Vanishes, Changed
      <3> QED
        BY <3>2 DEF IInv, TypeOK
    <2> QED
      BY <2>1, <2>2
  <1> QED
    BY <1>1, <1>2, <1>3, OutsideStep DEF world, IInv, TypeOK

\* A page that panics takes the process down, the walk with it.
LEMMA ListPanicStep ==
  ASSUME IInv, ListCallPanics
  PROVE  IInv'
  <1>1. PagesInv' /\ ~walk'.on
    BY WalkEnds DEF ListCallPanics, ListPanics, IInv, NoWalk
  <1> QED
    BY <1>1, ExitStep DEF ListCallPanics

\* The clusters and the host change around the process.
LEMMA WorldStep ==
  ASSUME IInv, ApiChanges \/ DirAppears \/ NodeChanges
  PROVE  IInv'
  <1>1. UNCHANGED listVars /\ UNCHANGED <<process, cfg, csiNode>>
    BY DEF ApiChanges, DirAppears, NodeChanges
  <1>2. PagesInv' /\ walk' = walk
    BY <1>1, PagesNext DEF IInv, listVars
  <1>3. node' \in NodeObjects /\ api' \in BOOLEAN /\ dir' \in BOOLEAN
    BY DEF ApiChanges, DirAppears, NodeChanges, IInv, TypeOK
  <1>4. walk'.on => Serving
    BY <1>2 DEF IInv, TypeOK
  <1> QED
    BY <1>1, <1>2, <1>3, <1>4, OutsideStep

-----------------------------------------------------------------------------
(* The theorems.                                                           *)

\* The invariant holds at first and every step of the process, of the kubelet and
\* of the clusters keeps it.
THEOREM Invariance == Spec => []IInv
  <1>1. Init => IInv
    <2> SUFFICES ASSUME Init PROVE IInv
      OBVIOUS
    <2>1. PagesInv /\ ~walk.on
      BY PagesInit DEF Init, ListInit, NoWalk
    <2>2. TypeOK
      BY <2>1 DEF Init, TypeOK, PagesInv
    <2>3. StagesOK /\ NodeIDsNamed
      BY DEF Init, StagesOK, NodeIDsNamed
    <2> QED
      BY <2>1, <2>2, <2>3 DEF IInv
  <1>2. IInv /\ [Next]_vars => IInv'
    <2> SUFFICES ASSUME IInv, [Next]_vars PROVE IInv'
      OBVIOUS
    <2>1. CASE UNCHANGED vars
      <3>1. PagesInv' /\ UNCHANGED listVars
        BY <2>1, PagesNext DEF IInv, vars, listVars
      <3> QED
        BY <2>1, <3>1, OutsideStep DEF vars, process, IInv, TypeOK
    <2>2. CASE CallUnsetService \/ StatsPanic \/ Kill
      BY <2>2, DieStep DEF CallUnsetService, StatsPanic, Kill
    <2> QED
      BY <2>1, <2>2, ParseStep, ControllerStep, NodeStep, ServeStep, NodeGetInfoStep,
         ListStep, ListPanicStep, WorldStep DEF Next
  <1> QED
    BY <1>1, <1>2, PTL DEF Spec

\* The state keeps its shape; in particular a node ID always has both parts and no
\* walk outlives the process that answers it.
THEOREM TypeCorrect == Spec => []TypeOK
  <1>1. IInv => TypeOK
    BY DEF IInv
  <1> QED
    BY <1>1, Invariance, PTL

\* Whatever it is deployed with, a driver that answers calls runs the services it
\* was asked for, each past all of its checks.
THEOREM Configured == Spec => []ServingIsConfigured
  <1>1. IInv => ServingIsConfigured
    BY DEF IInv, TypeOK, StagesOK, Serving, ServingIsConfigured
  <1> QED
    BY <1>1, Invariance, PTL

\* The kubelet registers a node only under an ID one state of its Node object named
\* as a whole.
THEOREM Registered == Spec => []RegisteredIsNamed
  <1>1. IInv => RegisteredIsNamed
    BY DEF IInv, NodeIDsNamed, Named, RegisteredIsNamed
  <1> QED
    BY <1>1, Invariance, PTL

\* The pages of ListSnapshots fit together in the running driver, across panics,
\* kills and restarts in the middle of a walk.
THEOREM PagesServed == Spec => []PagesFitTogether
  <1>1. IInv => PagesFitTogether
    BY DEF IInv, PagesInv
  <1> QED
    BY <1>1, Invariance, PTL

\* A page takes the running driver down only for a changed list or for a snapshot
\* without a PVC.
THEOREM TokensServed == Spec => []PanicsExplained
  <1>1. IInv => PanicsExplained
    BY TokensAreSafe DEF IInv
  <1> QED
    BY <1>1, Invariance, PTL

\* A serving node reports exact numbers, for every word size and file system.
THEOREM ReportedExactly == Spec => []ReportsExact
  <1>1. ReportsExact
    BY Exact DEF ReportsExact
  <1> QED
    BY <1>1, PTL
=============================================================================
