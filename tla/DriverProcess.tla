--------------------------- MODULE DriverProcess ----------------------------
(***************************************************************************)
(* The kubevirt-csi-driver process: start-up and configuration             *)
(* (cmd/kubevirt-csi-driver), assembly of the services (driver.go), the    *)
(* gRPC server (server.go) and the read-only calls it answers, among them  *)
(* the pages of SnapshotListing and the numbers of VolumeStats. Any fatal  *)
(* error or panic ends the process and the kubelet starts it again.        *)
(***************************************************************************)
EXTENDS SnapshotListing, VolumeStats

CONSTANTS
  Configs,      \* flags and environment the process may be deployed with
  NodeObjects   \* states of the tenant's Node object; "" stands for a missing part

VARIABLES
  cfg,       \* this deployment's configuration
  node,      \* the tenant's Node object
  api,       \* is the tenant API server reachable
  dir,       \* does the directory of the socket exist
  stage,     \* where the process is
  identity,  \* the cluster the identity service probes, or "none"
  controller,\* is the ControllerService set
  nodeID,    \* the NodeService's node ID, or NoVM when it is not set
  sock,      \* the socket file: "absent", "stale", "bound"
  csiNode    \* the node ID the kubelet recorded

NoVM == <<"", "">>   \* a node ID is a pair of namespace and name

process == <<stage, identity, controller, nodeID, sock>>
world == <<cfg, node, api, dir, csiNode>>
vars == <<cfg, node, api, dir, stage, identity, controller, nodeID, sock, csiNode,
          snapshots, walk>>

Init ==
  /\ cfg \in Configs /\ node \in NodeObjects
  /\ api \in BOOLEAN /\ dir \in BOOLEAN
  /\ stage = "down" /\ identity = "none" /\ controller = FALSE /\ nodeID = NoVM
  /\ sock = "absent" /\ csiNode = NoVM
  /\ ListInit

\* The process ends: its memory is gone, a socket it was bound to stays behind.
Exit ==
  /\ stage' = "down" /\ identity' = "none" /\ controller' = FALSE
  /\ nodeID' = NoVM
  /\ sock' = IF sock = "bound" THEN "stale" ELSE sock

-----------------------------------------------------------------------------
(* main: parseConfig, prechecks, initializeDriver                          *)

\* flag.Parse fails on an unknown flag, prechecks on a build without a version.
ParseConfig ==
  /\ stage = "down"
  /\ stage' = IF cfg.flags /\ cfg.version THEN "controller" ELSE "down"
  /\ UNCHANGED <<world, identity, controller, nodeID, sock, listVars>>

\* Mutant of ParseLabels: an unset flag yields an empty map.
ParseLabelsOptional(labels) == labels # "malformed"

ParseLabels(labels) == labels \notin {"unset", "malformed"}

\* An empty setting is a policy of its own: everything is allowed.
ConfigureEnforcement(enforcement) == enforcement # "malformed"

\* getConfigOrInCluster and the clientsets built from it, each at most once.
ClientSet(kubeconfig) == kubeconfig

GetVirtClient == cfg.prefix /\ ClientSet(cfg.infra) /\ ClientSet(cfg.tenant)

ConfigureControllerService ==
  /\ stage = "controller"
  /\ IF ~cfg.runController
     THEN stage' = "node" /\ UNCHANGED <<identity, controller, nodeID, sock>>
     ELSE IF /\ ParseLabels(cfg.labels) /\ ConfigureEnforcement(cfg.enforcement)
             /\ ClientSet(cfg.infra) /\ GetVirtClient
     THEN /\ stage' = "node" /\ controller' = TRUE /\ identity' = "infra"
          /\ UNCHANGED <<nodeID, sock>>
     ELSE Exit
  /\ UNCHANGED <<world, listVars>>

\* Mutant of ResolveNodeID: a missing namespace is taken from the annotations.
ResolveNodeIDMixed(n) ==
  LET name == IF n.kubevirtProvider THEN n.providerName ELSE n.annName
      ns == IF n.kubevirtProvider /\ n.clusterNs # "" THEN n.clusterNs ELSE n.annNs
  IN IF name = "" THEN NoVM ELSE <<ns, name>>

\* Mutant of ResolveNodeID: one part is enough.
ResolveNodeIDPartial(n) ==
  LET name == IF n.kubevirtProvider THEN n.providerName ELSE n.annName
      ns == IF n.kubevirtProvider THEN n.clusterNs ELSE n.annNs
  IN IF name = "" /\ ns = "" THEN NoVM ELSE <<ns, name>>

\* The provider ID decides where both parts are looked for; no mixing.
ResolveNodeID(n) ==
  LET name == IF n.kubevirtProvider THEN n.providerName ELSE n.annName
      ns == IF n.kubevirtProvider THEN n.clusterNs ELSE n.annNs
  IN IF name = "" \/ ns = "" THEN NoVM ELSE <<ns, name>>

\* The node service's identity service replaces the controller's.
ConfigureNodeService ==
  /\ stage = "node"
  /\ IF ~cfg.runNode
     THEN stage' = "serve" /\ UNCHANGED <<identity, controller, nodeID, sock>>
     ELSE IF ClientSet(cfg.tenant) /\ cfg.nodeName /\ api /\ ResolveNodeID(node) # NoVM
     THEN /\ stage' = "serve" /\ nodeID' = ResolveNodeID(node)
          /\ identity' = "tenant"
          /\ UNCHANGED <<controller, sock>>
     ELSE Exit
  /\ UNCHANGED <<world, listVars>>

-----------------------------------------------------------------------------
(* Run: nonBlockingGRPCServer.serve                                        *)

\* Mutant of RemoveSocket: a file left behind is not removed.
RemoveSocketNever(file) == file

\* A socket file left by the last process is removed before listening.
RemoveSocket(file) == "absent"

Serve ==
  /\ stage = "serve"
  /\ IF \/ cfg.scheme = "unix" /\ dir /\ RemoveSocket(sock) = "absent"
        \/ cfg.scheme = "tcp"
     THEN /\ stage' = "serving"
          /\ sock' = IF cfg.scheme = "unix" THEN "bound" ELSE sock
          /\ UNCHANGED <<identity, controller, nodeID>>
     ELSE Exit
  /\ UNCHANGED <<world, listVars>>

-----------------------------------------------------------------------------
(* Calls. All three services are registered whether they are set or not (a *)
(* nil pointer in an interface is not nil), so a call that reads the fields*)
(* of one that is not set panics. Nothing recovers a panic.                *)

Die == Exit /\ walk' = NoWalk /\ UNCHANGED <<world, snapshots>>

Serving == stage = "serving"

\* Probe, NodeGetInfo or a controller call; Get*Capabilities read no field.
CallUnsetService ==
  /\ Serving /\ (identity = "none" \/ ~controller \/ nodeID = NoVM)
  /\ Die

\* The kubelet registers the plugin under the ID it reports.
NodeGetInfo ==
  /\ Serving /\ nodeID # NoVM
  /\ csiNode' = nodeID
  /\ UNCHANGED <<cfg, node, api, dir, process, listVars>>

\* NodeGetVolumeStats of a file system that reports block size 0.
StatsPanic == Serving /\ nodeID # NoVM /\ StatsMayPanic /\ Die

\* Pages are answered, or take the process down.
ListCall ==
  /\ Serving /\ controller
  /\ BeginWalk \/ ListSnapshots \/ EndWalk
  /\ UNCHANGED <<world, process>>

ListCallPanics ==
  /\ Serving /\ controller
  /\ ListPanics /\ Exit
  /\ UNCHANGED world

-----------------------------------------------------------------------------
(* Everything else.                                                        *)

Kill == stage # "down" /\ Die

ApiChanges ==
  /\ api' = ~api
  /\ UNCHANGED <<cfg, node, dir, csiNode, process, listVars>>

DirAppears ==
  /\ ~dir /\ dir' = TRUE
  /\ UNCHANGED <<cfg, node, api, csiNode, process, listVars>>

NodeChanges ==
  /\ node' \in NodeObjects
  /\ UNCHANGED <<cfg, api, dir, csiNode, process, listVars>>

SnapshotsChange ==
  /\ \E n \in Ids : Appears(n) \/ Vanishes(n)
  /\ UNCHANGED <<world, process>>

Next ==
  \/ ParseConfig \/ ConfigureControllerService \/ ConfigureNodeService \/ Serve
  \/ CallUnsetService \/ NodeGetInfo \/ StatsPanic \/ ListCall \/ ListCallPanics
  \/ Kill \/ ApiChanges \/ DirAppears \/ NodeChanges \/ SnapshotsChange

Spec == Init /\ [][Next]_vars

\* The kubelet restarts the container for ever, and a start-up step that can be
\* taken again and again is not preceded by a kill each time.
FairSpec ==
  /\ Spec
  /\ WF_vars(ParseConfig)
  /\ SF_vars(ConfigureControllerService)
  /\ SF_vars(ConfigureNodeService)
  /\ SF_vars(Serve)

-----------------------------------------------------------------------------
(* Properties                                                              *)

\* The shape of the state; a node ID has both parts, and a walk needs a server.
TypeOK ==
  /\ cfg \in Configs /\ node \in NodeObjects
  /\ api \in BOOLEAN /\ dir \in BOOLEAN /\ controller \in BOOLEAN
  /\ stage \in {"down", "controller", "node", "serve", "serving"}
  /\ identity \in {"none", "infra", "tenant"}
  /\ sock \in {"absent", "stale", "bound"}
  /\ nodeID # NoVM => "" \notin {nodeID[1], nodeID[2]}
  /\ walk.on => Serving
  /\ ListTypeOK

\* A process that answers calls is the one that was asked for: each service that
\* runs has passed all of its checks, and in particular no controller serves
\* without labels, under which every object of the infra namespace would pass
\* for the driver's own (containsLabels of an empty map is always true).
ServingIsConfigured ==
  Serving =>
    /\ controller <=> cfg.runController
    /\ nodeID # NoVM <=> cfg.runNode
    /\ controller => /\ cfg.labels \notin {"unset", "malformed"}
                     /\ cfg.prefix /\ cfg.enforcement # "malformed"
    /\ identity = "tenant" <=> cfg.runNode

\* The ID under which the kubelet registers a node, where ControllerPublishVolume
\* attaches its volumes, was named as a whole by the provider ID or as a whole by
\* the annotations of the Node: never a namespace of the one and a name of the
\* other, whatever the order of annotating, restarting and registering.
RegisteredIsNamed ==
  csiNode # NoVM =>
    \E n \in NodeObjects :
      \/ n.kubevirtProvider /\ csiNode = <<n.clusterNs, n.providerName>>
      \/ ~n.kubevirtProvider /\ csiNode = <<n.annNs, n.annName>>

\* What a serving node reports about its volumes is exact (StatsExact).
ReportsExact == Serving /\ nodeID # NoVM => StatsExact

\* What start-up needs of the configuration and of the clusters.
Deployable ==
  /\ cfg.flags /\ cfg.version
  /\ cfg.runController =>
       /\ cfg.labels = "ok" /\ cfg.enforcement # "malformed"
       /\ cfg.prefix /\ cfg.infra /\ cfg.tenant
  /\ cfg.runNode =>
       cfg.nodeName /\ cfg.tenant /\ api /\ ResolveNodeID(node) # NoVM
  /\ (cfg.scheme = "unix" /\ dir) \/ cfg.scheme = "tcp"

\* A correctly configured driver serves again after every crash, kill and panic,
\* and after an outage or a late annotation of its Node: no state a dead process
\* leaves behind, its socket least of all, keeps the next one from starting.
ServesAgain == <>[]Deployable => []<>Serving
=============================================================================
