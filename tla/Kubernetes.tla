----------------------------- MODULE Kubernetes -----------------------------
(***************************************************************************)
(* The Kubernetes cluster as the proxy sees it through kube.KubeClient     *)
(* (external code, modelled from its use in pkg/kube): the API server's    *)
(* objects, the scheduler that binds pods, and the pods that terminate     *)
(* some time after their eviction was granted.                             *)
(*                                                                         *)
(* The static part of every object (size, labels, annotations ...) is a    *)
(* constant; what the proxy and the cluster change is in variables.  A pod *)
(* of Pod stands for one replica: once it has gone its controller makes a  *)
(* new one, which waits to be bound to a node.                             *)
(***************************************************************************)
EXTENDS NodeScaler

CONSTANTS
  Node,       \* node names
  Pod,        \* pods
  NoNode,     \* where a pod is that is not bound
  NodeSpec,   \* [Node -> the NodeInfo fields that do not change]
  PodSpec,    \* [Pod -> pod record]
  PDBs        \* the set of pod disruption budgets

ASSUME NoNodeAssumption == NoNode \notin Node

VARIABLES
  nodeState,  \* nodeState[n]: has the node registered, and how did it go away
  tainted,    \* the nodes with the taint NodeAboutToBeDrainedTaint
  host,       \* host[p]: the node that pod p is bound to
  leaving     \* the pods whose eviction was granted and that still run

kubeVars == <<nodeState, tainted, host, leaving>>

(* "deleted": by a DeleteNode call; "vanished": the cluster itself removed *)
(* the node after its machine was gone.                                    *)
NodeState == {"unregistered", "registered", "deleted", "vanished"}

KubeTypeOK ==
  /\ nodeState \in [Node -> NodeState]
  /\ tainted \subseteq Node
  /\ host \in [Pod -> Node \cup {NoNode}]
  /\ leaving \subseteq Pod

Registered == {n \in Node : nodeState[n] = "registered"}

PodsOn(n) == {p \in Pod : host[p] = n}

(* A node with the given pods on it, as getNodeInfo puts it together. *)
NodeInfoWith(n, pods) ==
  [name         |-> n,
   allocatable  |-> NodeSpec[n].allocatable,
   labels       |-> NodeSpec[n].labels,
   taints       |-> NodeSpec[n].taints \cup
                      (IF n \in tainted THEN {NodeAboutToBeDrainedTaint} ELSE {}),
   annotation   |-> NodeSpec[n].annotation,
   ready        |-> NodeSpec[n].ready,
   unschedulable |-> NodeSpec[n].unschedulable,
   pods         |-> {PodSpec[p] : p \in pods}]

getNodeInfo(n) == NodeInfoWith(n, PodsOn(n))

getNodeInfos == {getNodeInfo(n) : n \in Registered}

-----------------------------------------------------------------------------
(* The effects of the calls that change the cluster.                       *)

AddTaint(n) ==
  /\ tainted' = tainted \cup {n}
  /\ UNCHANGED <<nodeState, host, leaving>>

RemoveTaint(n) ==
  /\ tainted' = tainted \ {n}
  /\ UNCHANGED <<nodeState, host, leaving>>

EvictPod(p) ==
  /\ leaving' = leaving \cup {p}
  /\ UNCHANGED <<nodeState, tainted, host>>

RemoveNode(n) ==
  /\ nodeState' = [nodeState EXCEPT ![n] = "deleted"]
  /\ tainted' = tainted \ {n}
  /\ UNCHANGED <<host, leaving>>

-----------------------------------------------------------------------------
(* What the cluster does by itself.                                        *)

(* The scheduler binds a waiting pod to a node that accepts it. A pod that *)
(* no controller owns is not made anew, and a pod of the API server is     *)
(* started by its node, not bound by the scheduler.                        *)
SchedulerBinds(p, n) ==
  /\ host[p] = NoNode
  /\ hasController(PodSpec[p]) = "yes"
  /\ ~isAPIServerPod(PodSpec[p], n)
  /\ n \in Registered
  /\ isNodeReady(getNodeInfo(n)) /\ isNodeSchedulable(getNodeInfo(n))
  /\ acceptablePodDestination(PodSpec[p], getNodeInfo(n))
  /\ host' = [host EXCEPT ![p] = n]
  /\ UNCHANGED <<nodeState, tainted, leaving>>

(* A pod is gone: it has exited after its eviction, or its node is no      *)
(* longer part of the cluster.                                             *)
PodGone(p) ==
  /\ host[p] # NoNode
  /\ p \in leaving \/ host[p] \notin Registered
  /\ host' = [host EXCEPT ![p] = NoNode]
  /\ leaving' = leaving \ {p}
  /\ UNCHANGED <<nodeState, tainted>>

NodeJoins(n) ==
  /\ nodeState[n] = "unregistered"
  /\ nodeState' = [nodeState EXCEPT ![n] = "registered"]
  /\ UNCHANGED <<tainted, host, leaving>>

NodeVanishes(n) ==
  /\ nodeState[n] = "registered"
  /\ nodeState' = [nodeState EXCEPT ![n] = "vanished"]
  /\ tainted' = tainted \ {n}
  /\ UNCHANGED <<host, leaving>>
=============================================================================
