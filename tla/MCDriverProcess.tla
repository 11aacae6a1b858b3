-------------------------- MODULE MCDriverProcess ---------------------------
(* A small instance of DriverProcess for TLC.                              *)
EXTENDS DriverProcess

CONSTANTS s1, nopvc

Good == [flags |-> TRUE, version |-> TRUE, runController |-> TRUE, runNode |-> FALSE,
         labels |-> "ok", enforcement |-> "unset", prefix |-> TRUE,
         infra |-> TRUE, tenant |-> TRUE, nodeName |-> FALSE, scheme |-> "unix"]
GoodNode == [Good EXCEPT !.runController = FALSE, !.runNode = TRUE,
             !.labels = "unset", !.prefix = FALSE, !.infra = FALSE, !.nodeName = TRUE]
Both == [Good EXCEPT !.runNode = TRUE, !.nodeName = TRUE]

\* The two deployments of deploy/, both services in one process, and one of each
\* defect the start-up code checks for.
SomeConfigs ==
  {Good, GoodNode, Both,
   [Good EXCEPT !.runController = FALSE], [Good EXCEPT !.scheme = "tcp"],
   [Good EXCEPT !.enforcement = "ok"],
   [Good EXCEPT !.flags = FALSE], [Good EXCEPT !.version = FALSE],
   [Good EXCEPT !.labels = "unset"], [Good EXCEPT !.labels = "malformed"],
   [Good EXCEPT !.enforcement = "malformed"], [Good EXCEPT !.prefix = FALSE],
   [Good EXCEPT !.infra = FALSE], [Good EXCEPT !.tenant = FALSE],
   [GoodNode EXCEPT !.nodeName = FALSE], [GoodNode EXCEPT !.scheme = "ftp"]}

NodeObject(provider, name, ns, annName, annNs) ==
  [kubevirtProvider |-> provider, providerName |-> name, clusterNs |-> ns,
   annName |-> annName, annNs |-> annNs]

\* Fresh, with provider ID but no namespace yet, both ways of naming the VM.
SomeNodes ==
  {NodeObject(FALSE, "", "", "", ""), NodeObject(TRUE, "vm", "", "other", "ns2"),
   NodeObject(TRUE, "vm", "ns1", "other", "ns2"),
   NodeObject(FALSE, "", "", "other", "ns2")}

\* Negative, zero, and sizes whose products wrap.
SomeBlockSizes == (-1)..3

Mine(src) == [src |-> src, labelled |-> TRUE]
SomeShapes ==
  [n \in 1..3 |-> IF n = 2 THEN {Mine(s1), Mine(nopvc), [src |-> s1, labelled |-> FALSE]}
                  ELSE {Mine(s1)}]
=============================================================================
