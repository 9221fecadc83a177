--------------------------- MODULE QuasiScheduler ---------------------------
(***************************************************************************)
(* The simplified pod scheduler that pkg/kube uses to guess whether the    *)
(* pods of a node fit on the remaining nodes (quasi_scheduler.go), and the *)
(* resource arithmetic of NodeInfo (nodeinfo.go).                          *)
(*                                                                         *)
(* A pod is a record with the fields                                       *)
(*   name, ns, phase, containers (a sequence of requests, one number per   *)
(*   resource), nodeSelector (a function from label keys to values),       *)
(*   affinity (the set of the hard NodeSelectorTerms, each a set of        *)
(*   expressions), tolerations, labels, localStorage, owners, component    *)
(*   and apiServerOf.                                                      *)
(* A node is a NodeInfo: a record with the fields                          *)
(*   name, allocatable (one number per resource), labels, taints,          *)
(*   annotation, ready, unschedulable and pods (the set of its pods).      *)
(*                                                                         *)
(* Lists of nodes and of pods are sets: the order that the API server      *)
(* lists them in matters only where two nodes tie for the least load, and  *)
(* for the order pods are placed in; CHOOSE stands for that fixed order.   *)
(* Quantities are integers (milli-CPU, bytes) and may become negative.     *)
(***************************************************************************)
EXTENDS Integers, Sequences, FiniteSets, FiniteSetsExt

(* The two resource types the scheduler looks at. *)
Resource == {"cpu", "memory"}

(* What all containers of a pod request of resource r. *)
podSize(pod, r) == MapThenSumSet(LAMBDA c : pod.containers[c][r], DOMAIN pod.containers)

(* What a list of pods requests of resource r. *)
totalRequests(pods, r) == MapThenSumSet(LAMBDA pod : podSize(pod, r), pods)

(* NodeInfo.AllocatedCPU and AllocatedMem: every pod bound to the node is  *)
(* counted, whatever its phase.                                            *)
Allocated(node, r) == totalRequests(node.pods, r)

(* NodeInfo.FreeCPU and FreeMem. *)
Free(node, r) == node.allocatable[r] - Allocated(node, r)

-----------------------------------------------------------------------------
(* Node load is a float64: the sum of two fractions. It is a rational      *)
(* number, or NaN (0/0 in one fraction) or +Inf (x/0 in one and not NaN in *)
(* the other) when the node reports no allocatable amount of a resource.   *)

SumOfAllocatedMemAndCPUFractions(node) ==
  LET used(r) == Allocated(node, r)
      size(r) == node.allocatable[r]
  IN  IF \E r \in Resource : size(r) = 0 /\ used(r) = 0
        THEN [kind |-> "NaN", num |-> 0, den |-> 1]
      ELSE IF \E r \in Resource : size(r) = 0
        THEN [kind |-> "Inf", num |-> 0, den |-> 1]
      ELSE [kind |-> "finite",
            num |-> used("cpu") * size("memory") + used("memory") * size("cpu"),
            den |-> size("cpu") * size("memory")]

NodeLoad(node) == SumOfAllocatedMemAndCPUFractions(node)

(* The float64 comparison a < b. *)
LoadLess(a, b) ==
  /\ a.kind = "finite"
  /\ \/ b.kind = "Inf"
     \/ b.kind = "finite" /\ a.num * b.den < b.num * a.den

(* Mutant of leastLoadedNodes: the search starts from a load of 1. *)
leastLoadedBelowOne(nodes) ==
  {n \in nodes : /\ NodeLoad(n).kind = "finite" /\ NodeLoad(n).num < NodeLoad(n).den
                 /\ \A m \in nodes : ~LoadLess(NodeLoad(m), NodeLoad(n))}

(* The nodes leastLoadedNode may return from a list: the comparison with   *)
(* math.MaxFloat64 passes over every node whose load is NaN or infinite.   *)
leastLoadedNodes(nodes) ==
  {n \in nodes : /\ NodeLoad(n).kind = "finite"
                 /\ \A m \in nodes : ~LoadLess(NodeLoad(m), NodeLoad(n))}

-----------------------------------------------------------------------------
(* The predicates that make a node an acceptable destination for a pod.    *)

podFitsOnNode(pod, node) ==
  \A r \in Resource : podSize(pod, r) <= Free(node, r)

(* Toleration.ToleratesTaint of the Kubernetes API library. An empty field *)
(* of a toleration is "".                                                  *)
ToleratesTaint(toleration, taint) ==
  /\ toleration.effect \in {"", taint.effect}
  /\ toleration.key \in {"", taint.key}
  /\ \/ toleration.operator \in {"", "Equal"} /\ toleration.value = taint.value
     \/ toleration.operator = "Exists"

hasToleration(pod, taint) == \E t \in pod.tolerations : ToleratesTaint(t, taint)

(* Mutant of podToleratesNodeTaints: soft taints repel pods too. *)
podToleratesEveryTaint(pod, node) == \A taint \in node.taints : hasToleration(pod, taint)

podToleratesNodeTaints(pod, node) ==
  \A taint \in node.taints :
    taint.effect \in {"NoSchedule", "NoExecute"} => hasToleration(pod, taint)

podNodeSelectorPermitsNode(pod, node) ==
  \A key \in DOMAIN pod.nodeSelector :
    key \in DOMAIN node.labels /\ node.labels[key] = pod.nodeSelector[key]

(* labels.NewRequirement of the Kubernetes API library: an expression with *)
(* an unknown operator, or a wrong number of values for its operator, is   *)
(* an error.                                                               *)
validRequirement(expr) ==
  \/ expr.operator \in {"In", "NotIn"} /\ expr.values # {}
  \/ expr.operator \in {"Exists", "DoesNotExist"} /\ expr.values = {}
  \/ expr.operator \in {"Gt", "Lt"} /\ Cardinality(expr.values) = 1

(* Requirement.Matches of the Kubernetes API library. *)
requirementMatches(expr, labels) ==
  LET has == expr.key \in DOMAIN labels
      val == labels[expr.key]
  IN  CASE expr.operator = "In"           -> has /\ val \in expr.values
        [] expr.operator = "NotIn"        -> has => val \notin expr.values
        [] expr.operator = "Exists"       -> has
        [] expr.operator = "DoesNotExist" -> ~has
        [] expr.operator = "Gt"           -> has /\ \A v \in expr.values : val > v
        [] expr.operator = "Lt"           -> has /\ \A v \in expr.values : val < v

(* nodeSelectorRequirementsAsSelector, applied to labels: a term with no   *)
(* expressions matches nothing, and one that cannot be parsed is an error  *)
(* on which the caller turns the node down.                                *)
nodeSelectorTermMatches(term, labels) ==
  /\ term # {}
  /\ \A expr \in term : validRequirement(expr)
  /\ \A expr \in term : requirementMatches(expr, labels)

(* Every term has to match. *)
podNodeAffinityPermitsNode(pod, node) ==
  \A term \in pod.affinity : nodeSelectorTermMatches(term, node.labels)

acceptablePodDestination(pod, node) ==
  /\ podFitsOnNode(pod, node)
  /\ podToleratesNodeTaints(pod, node)
  /\ podNodeSelectorPermitsNode(pod, node)
  /\ podNodeAffinityPermitsNode(pod, node)

schedulingCandidates(pod, nodes) ==
  {n \in nodes : acceptablePodDestination(pod, n)}

-----------------------------------------------------------------------------
(* Schedule places one pod. The outcome is "error" when no node is         *)
(* acceptable, and "panic" when leastLoadedNode returns nil for the        *)
(* acceptable nodes and the nil pointer is dereferenced. "placed" has the  *)
(* nodes after the pod is assigned.                                        *)

assign(pod, node, nodes) ==
  (nodes \ {node}) \cup {[node EXCEPT !.pods = @ \cup {pod}]}

Schedule(pod, nodes) ==
  LET candidates == schedulingCandidates(pod, nodes)
      best == leastLoadedNodes(candidates)
  IN  IF candidates = {} THEN [outcome |-> "error", nodes |-> nodes]
      ELSE IF best = {} THEN [outcome |-> "panic", nodes |-> nodes]
      ELSE [outcome |-> "placed",
            nodes |-> assign(pod, CHOOSE n \in best : TRUE, nodes)]

(* The quick check before any pod is placed: the total request against the *)
(* total free amount.                                                      *)
VerifySchedulingViable(pods, nodes) ==
  \A r \in Resource :
    totalRequests(pods, r) <= MapThenSumSet(LAMBDA n : Free(n, r), nodes)
=============================================================================
