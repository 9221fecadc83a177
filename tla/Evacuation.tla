----------------------------- MODULE Evacuation -----------------------------
(***************************************************************************)
(* verifyEvacuationFeasibility (pkg/kube/nodescaler.go) step by step: a    *)
(* quick check of the totals, then Schedule for one pod after the other on *)
(* the scheduler's own copies of the nodes.  Unlike the operator of the    *)
(* same name in NodeScaler it leaves open the order in which the API       *)
(* server listed the pods, and which of several equally loaded nodes a pod *)
(* goes to.  The verdict is compared with what Kubernetes could do.        *)
(***************************************************************************)
EXTENDS NodeScaler

CONSTANT
  Instance    \* the inputs: records with the pods to evacuate and the nodes

(* All pods of an input. *)
KnownPods(i) == i.pods \cup UNION {n.pods : n \in i.nodes}

(* What the API server may have listed: a name belongs to one node, a pod  *)
(* to evacuate is bound to none of the nodes, amounts are natural numbers, *)
(* and a taint has one of the three effects that there are.                *)
ASSUME InstanceAssumption ==
  \A i \in Instance :
    /\ IsFiniteSet(i.pods) /\ IsFiniteSet(i.nodes)
    /\ \A n, m \in i.nodes : n.name = m.name => n = m
    /\ \A p \in i.pods : IsFiniteSet(p.affinity)
    /\ \A p \in KnownPods(i), r \in Resource : podSize(p, r) \in Nat
    /\ \A n \in i.nodes :
         /\ {"name", "allocatable", "labels", "taints", "pods"} \subseteq DOMAIN n
         /\ IsFiniteSet(n.pods) /\ n.pods \cap i.pods = {}
         /\ \A r \in Resource : n.allocatable[r] \in Nat
         /\ \A t \in n.taints : t.effect \in {"NoSchedule", "PreferNoSchedule", "NoExecute"}

VARIABLES
  input,      \* the arguments of the call
  Nodes,      \* the scheduler's copies of the nodes
  todo,       \* the pods that are not placed yet
  verdict     \* "asked", "placing", or what the call has come to: "feasible",
              \* "noCapacity", "unschedulable" or "panic"

vars == <<input, Nodes, todo, verdict>>

(* NewQuasiScheduler copies the nodes with their pods. *)
NewQuasiScheduler ==
  /\ input \in Instance
  /\ Nodes = input.nodes
  /\ todo = input.pods
  /\ verdict = "asked"

(* Mutant of QuickCheck: pods that fill the nodes exactly do not fit.  *)
QuickCheckStrict ==
  /\ verdict = "asked"
  /\ verdict' = IF \E r \in Resource :
                     MapThenSumSet(LAMBDA n : Free(n, r), Nodes) <= totalRequests(todo, r)
                THEN "noCapacity"
                ELSE IF todo = {} THEN "feasible" ELSE "placing"
  /\ UNCHANGED <<input, Nodes, todo>>

QuickCheck ==
  /\ verdict = "asked"
  /\ verdict' = IF ~VerifySchedulingViable(todo, Nodes) THEN "noCapacity"
                ELSE IF todo = {} THEN "feasible" ELSE "placing"
  /\ UNCHANGED <<input, Nodes, todo>>

(* Mutant of SchedulePod: the pod does not take up room on its node. *)
SchedulePodWithoutReserving(pod) ==
  /\ verdict = "placing"
  /\ todo' = todo \ {pod}
  /\ verdict' = IF schedulingCandidates(pod, Nodes) = {} THEN "unschedulable"
                ELSE IF todo = {pod} THEN "feasible" ELSE "placing"
  /\ UNCHANGED <<input, Nodes>>

(* Schedule, once for each pod. The first failure ends the attempt.  The   *)
(* panic is the use of the nil that leastLoadedNode returns when no        *)
(* candidate's load is a finite number.                                    *)
SchedulePod(pod) ==
  LET candidates == schedulingCandidates(pod, Nodes)
      best       == leastLoadedNodes(candidates)
  IN  /\ verdict = "placing"
      /\ todo' = todo \ {pod}
      /\ \/ /\ candidates = {}
            /\ verdict' = "unschedulable"
            /\ UNCHANGED Nodes
         \/ /\ candidates # {} /\ best = {}
            /\ verdict' = "panic"
            /\ UNCHANGED Nodes
         \/ /\ \E n \in best : Nodes' = assign(pod, n, Nodes)
            /\ verdict' = IF todo = {pod} THEN "feasible" ELSE "placing"
      /\ UNCHANGED input

Next == QuickCheck \/ \E pod \in todo : SchedulePod(pod)

Spec == NewQuasiScheduler /\ [][Next]_vars

-----------------------------------------------------------------------------
(* The reference: what the Kubernetes scheduler itself accepts.  Pods that *)
(* have ended take up no room, and the terms of a node affinity are        *)
(* alternatives.                                                           *)

KubernetesAccepts(pod, node) ==
  /\ \A t \in node.taints :
       t.effect # "PreferNoSchedule" => \E tol \in pod.tolerations : ToleratesTaint(tol, t)
  /\ \A key \in DOMAIN pod.nodeSelector :
       key \in DOMAIN node.labels /\ node.labels[key] = pod.nodeSelector[key]
  /\ \/ pod.affinity = {}
     \/ \E term \in pod.affinity :
          /\ term # {}
          /\ \A expr \in term : validRequirement(expr) /\ requirementMatches(expr, node.labels)

Request(pods, r) ==
  MapThenSumSet(
    LAMBDA pod : MapThenSumSet(LAMBDA c : pod.containers[c][r], DOMAIN pod.containers), pods)

(* The pods can all be placed at once. *)
Placeable(pods, on) ==
  \E place \in [pods -> on] :
    \A n \in on :
      LET new     == {p \in pods : place[p] = n}
          running == {p \in n.pods : p.phase \notin {"Succeeded", "Failed"}}
      IN  /\ \A p \in new : KubernetesAccepts(p, n)
          /\ new # {} => \A r \in Resource : Request(running \cup new, r) <= n.allocatable[r]

Overcommitted(n) == \E r \in Resource : Request(n.pods, r) > n.allocatable[r]
HasEndedPods(n) == \E p \in n.pods : p.phase \in {"Succeeded", "Failed"}

(* Every pod to evacuate is either still to be placed or on exactly one    *)
(* node, and no node loses a pod: Schedule reserves room for each pod once *)
(* (it appends the pod to the copy of its node and to nothing else).       *)
PodsAreConserved ==
  verdict \notin {"unschedulable", "panic"} =>
    /\ \A p \in input.pods \ todo : Cardinality({n \in Nodes : p \in n.pods}) = 1
    /\ UNION {n.pods : n \in Nodes} =
         (input.pods \ todo) \cup UNION {n.pods : n \in input.nodes}

(* When verifyEvacuationFeasibility finds the evacuation feasible, there   *)
(* is a placement of all pods that Kubernetes would accept: the guess errs *)
(* on the side of keeping the node, whatever the nodes look like (README:  *)
(* "the node's pods must be possible to evacuate to the remaining nodes"). *)
FeasibleMeansPlaceable ==
  verdict = "feasible" => Placeable(input.pods, input.nodes)

(* When VerifySchedulingViable turns the pods away, no placement exists:   *)
(* the quick check is a necessary condition, as its comment promises ("if  *)
(* scheduling of a group of pods is at all feasible to attempt").  Two     *)
(* kinds of nodes make an exception: the free amount of an overcommitted   *)
(* one is negative and is subtracted from that of the others, and pods     *)
(* that have ended are counted as if they took up room.                    *)
QuickCheckIsNecessary ==
  verdict = "noCapacity" /\ Placeable(input.pods, input.nodes) =>
    \E n \in input.nodes : Overcommitted(n) \/ HasEndedPods(n)

(* A single pod is turned away by Schedule only if Kubernetes could not    *)
(* place it either: all four predicates are as strict as the scheduler's.  *)
(* They are stricter in two cases: the alternatives of a node affinity     *)
(* must all hold, and ended pods take up room.                             *)
LonePodIsDecidedExactly ==
  verdict = "unschedulable" /\ Placeable(input.pods, input.nodes) =>
    \/ Cardinality(input.pods) > 1
    \/ \E p \in input.pods : Cardinality(p.affinity) > 1
    \/ \E n \in input.nodes : HasEndedPods(n)

(* Schedule reports a failure as an error: "On failure, a scheduling error *)
(* is returned".  It panics in one case only, when some nodes accept a pod *)
(* and each of them reports nothing allocatable of some resource, so that  *)
(* leastLoadedNode finds no load that is a number and returns nil.         *)
PanicMeansNoAllocatable ==
  verdict = "panic" =>
    \E p \in input.pods \ todo : \A n \in Nodes :
      acceptablePodDestination(p, n) => \E r \in Resource : n.allocatable[r] = 0
=============================================================================
