----------------------------- MODULE NodeScaler -----------------------------
(***************************************************************************)
(* The decisions of DefaultNodeScaler (pkg/kube/nodescaler.go): which      *)
(* nodes are workers, which pods a drain evicts and whether a node is safe *)
(* to scale down. The calls by which it changes the cluster (DrainNode,    *)
(* DeleteNode) are actions of module Proxy.                                *)
(***************************************************************************)
EXTENDS QuasiScheduler

KubeSystemNS == "kube-system"

(* The taint that DrainNode puts on a node. *)
NodeAboutToBeDrainedTaint ==
  [key |-> "node-about-to-be-drained", value |-> "true", effect |-> "NoSchedule"]

-----------------------------------------------------------------------------
(* Node predicates.                                                        *)

(* A pod of the API server has the label component=kube-apiserver or is    *)
(* named "kube-apiserver-<node>" (its field apiServerOf is then the node). *)
isAPIServerPod(pod, nodeName) ==
  /\ pod.ns = KubeSystemNS
  /\ pod.component = "kube-apiserver" \/ pod.apiServerOf = nodeName

isMasterNode(node) == \E pod \in node.pods : isAPIServerPod(pod, node.name)

isNodeReady(node) == node.ready

isNodeSchedulable(node) == ~node.unschedulable

(* Mutant of remainingWorkerNodes: the victim itself may remain. *)
readyWorkerNodes(victim, nodes) ==
  {n \in nodes : ~isMasterNode(n) /\ isNodeReady(n) /\ isNodeSchedulable(n)}

(* The nodes among which IsScaleDownCandidate looks for destinations. *)
remainingWorkerNodes(victim, nodes) ==
  {n \in nodes : /\ ~isMasterNode(n)
                 /\ n.name # victim.name
                 /\ isNodeReady(n)
                 /\ isNodeSchedulable(n)}

-----------------------------------------------------------------------------
(* Pod predicates.                                                         *)

isNonSystemPod(pod) == pod.ns # KubeSystemNS

isActivePod(pod) == pod.phase \in {"Pending", "Running"}

hasNodeLocalStorage(pod) == pod.localStorage

(* OwnerReference.Controller is an optional *bool: "nil" is dereferenced   *)
(* unchecked, so the first owner that is not "false" decides.              *)
hasController(pod) ==
  LET deciding == SelectSeq(pod.owners, LAMBDA owner : owner # "false")
  IN  IF deciding = <<>> THEN "no"
      ELSE IF deciding[1] = "nil" THEN "panic"
      ELSE "yes"

podsToEvacuate(node) == {p \in node.pods : isNonSystemPod(p) /\ isActivePod(p)}

(* Mutant of podMobility: node-local storage is no obstacle. *)
controllerMobility(pod) ==
  IF hasController(pod) = "no" THEN "rejected"
  ELSE IF hasController(pod) = "panic" THEN "panic"
  ELSE "mobile"

(* What the loop over the pods to evacuate makes of a single pod. *)
podMobility(pod) ==
  IF hasNodeLocalStorage(pod) \/ hasController(pod) = "no" THEN "rejected"
  ELSE IF hasController(pod) = "panic" THEN "panic"
  ELSE "mobile"

-----------------------------------------------------------------------------
(* A disruption budget is a record with a label selector, whether the      *)
(* selector can be parsed, and the disruptions that are allowed now.       *)

pdbMatches(pdb, pod) ==
  \A key \in DOMAIN pdb.selector :
    key \in DOMAIN pod.labels /\ pod.labels[key] = pdb.selector[key]

podDisruptionBudgetsAllowEvacuation(pdbs, pods) ==
  \A pdb \in pdbs :
    /\ pdb.valid
    /\ Cardinality({p \in pods : pdbMatches(pdb, p)}) <= pdb.allowed

(* Places the pods one after the other, each on top of the earlier ones;   *)
(* the first pod that cannot be placed ends the attempt.                   *)
verifyEvacuationFeasibility(pods, nodes) ==
  IF ~VerifySchedulingViable(pods, nodes)
  THEN "error"
  ELSE FoldSet(LAMBDA pod, acc : IF acc.outcome = "placed"
                                 THEN Schedule(pod, acc.nodes) ELSE acc,
               [outcome |-> "placed", nodes |-> nodes], pods).outcome

(* Mutant of IsScaleDownCandidate: the annotation is not looked at. *)
IsDrainable(node, nodes, pdbs) ==
  LET remaining == remainingWorkerNodes(node, nodes)
      pods      == podsToEvacuate(node)
  IN  IF /\ remaining # {}
         /\ \A p \in pods : podMobility(p) = "mobile"
         /\ podDisruptionBudgetsAllowEvacuation(pdbs, pods)
         /\ verifyEvacuationFeasibility(pods, remaining) = "placed"
      THEN {"candidate"} ELSE {"rejected"}

(***************************************************************************)
(* IsScaleDownCandidate: node is the caller's snapshot, nodes and pdbs are *)
(* read anew. The pods are tried in the order in which they are listed,    *)
(* so when one of them is immobile and another one panics the order        *)
(* decides; both outcomes are in the result.                               *)
(***************************************************************************)
IsScaleDownCandidate(node, nodes, pdbs) ==
  LET remaining == remainingWorkerNodes(node, nodes)
      pods      == podsToEvacuate(node)
      immobile  == {podMobility(p) : p \in pods} \ {"mobile"}
  IN  IF node.annotation \/ remaining = {}
        THEN {"rejected"}
      ELSE IF immobile # {}
        THEN immobile
      ELSE IF ~podDisruptionBudgetsAllowEvacuation(pdbs, pods)
        THEN {"rejected"}
      ELSE CASE verifyEvacuationFeasibility(pods, remaining) = "placed" -> {"candidate"}
             [] verifyEvacuationFeasibility(pods, remaining) = "error"  -> {"rejected"}
             [] verifyEvacuationFeasibility(pods, remaining) = "panic"  -> {"panic"}
=============================================================================
