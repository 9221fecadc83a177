---------------------------- MODULE MCEvacuation ----------------------------
(***************************************************************************)
(* Small evacuations for TLC: up to three pods and two remaining nodes.    *)
(***************************************************************************)
EXTENDS Evacuation

Size(c, m) == [cpu |-> c, memory |-> m]

MCPod(name, size) ==
  [name |-> name, ns |-> "default", phase |-> "Running", containers |-> <<size>>,
   nodeSelector |-> <<>>, affinity |-> {}, tolerations |-> {}, labels |-> <<>>,
   localStorage |-> FALSE, owners |-> <<"true">>, component |-> "", apiServerOf |-> ""]

MCNode(name, size) ==
  [name |-> name, allocatable |-> size, labels |-> <<>>, taints |-> {},
   annotation |-> FALSE, ready |-> TRUE, unschedulable |-> FALSE, pods |-> {}]

Dedicated(effect) == [key |-> "dedicated", value |-> "db", effect |-> effect]

(* A toleration of the taint, one of any taint, and one that does not fit. *)
Tolerations ==
  {{},
   {[key |-> "dedicated", operator |-> "Equal", value |-> "db", effect |-> "NoSchedule"]},
   {[key |-> "", operator |-> "Exists", value |-> "", effect |-> ""]},
   {[key |-> "dedicated", operator |-> "", value |-> "web", effect |-> ""]}}

Zone(operator, values) == [key |-> "zone", operator |-> operator, values |-> values]

(* What may be wrong with a single pod and a single node. *)
Picky(pod) ==
  {[pod EXCEPT !.tolerations = t] : t \in Tolerations}
    \cup {[pod EXCEPT !.nodeSelector = [zone |-> "a"]]}
    \cup {[pod EXCEPT !.affinity = {{Zone(op, {"a"})}}] : op \in {"In", "NotIn"}}
    \cup {[pod EXCEPT !.affinity = {{Zone(op, {}), Zone("In", {"a", "b"})}}] :
            op \in {"Exists", "DoesNotExist"}}
    \cup {[pod EXCEPT !.affinity = {term}] : term \in {{}, {Zone("In", {})}}}

Various(node) ==
  {node, [node EXCEPT !.labels = [zone |-> "a"]], [node EXCEPT !.labels = [zone |-> "b"]]}
    \cup {[node EXCEPT !.taints = {Dedicated(e)}] :
            e \in {"NoSchedule", "PreferNoSchedule", "NoExecute"}}

Hosting(nodes, sizes) ==
  nodes \cup {[n EXCEPT !.pods = {MCPod("old-" \o n.name, s)}] : n \in nodes, s \in sizes}

Sizes == {Size(1, 1), Size(2, 1), Size(1, 2)}

(* Up to three pods that differ in size, and one that is picky. *)
PodLists ==
  {{}} \cup {{MCPod("a", s), MCPod("b", t)} : s \in Sizes, t \in Sizes}
    \cup {{MCPod("a", s), MCPod("b", t), MCPod("c", u)} : s \in Sizes, t \in Sizes, u \in Sizes}
    \cup UNION {{{p}, {p, MCPod("b", s)}} : p \in Picky(MCPod("a", Size(1, 1))), s \in Sizes}

PlainNodes(name) ==
  Hosting(Various(MCNode(name, Size(2, 2))) \cup {MCNode(name, Size(3, 2))}, {Size(1, 1)})

(* Every node has room and only running pods. *)
Plain ==
  {[pods |-> pods, nodes |-> {n, m}] :
     pods \in PodLists, n \in PlainNodes("n1"), m \in PlainNodes("n2")}

(* Nodes that are overcommitted, or report no allocatable memory. *)
OvercommittedNode ==
  [MCNode("n2", Size(2, 2)) EXCEPT
     !.pods = {MCPod("old-1", Size(1, 1)), MCPod("old-2", Size(2, 2))}]
Unallocatable == MCNode("n2", Size(2, 0))
NodeWithFinishedPod ==
  [MCNode("n2", Size(2, 2)) EXCEPT
     !.pods = {[MCPod("old", Size(2, 2)) EXCEPT !.phase = "Succeeded"]}]

(* A pod without requests, and one with alternatives. *)
BestEffort == MCPod("a", Size(0, 0))
Choosy ==
  [MCPod("a", Size(1, 1)) EXCEPT !.affinity = {{Zone("In", {"a"})}, {Zone("In", {"b"})}}]

Odd ==
  {[pods |-> pods, nodes |-> {n, m}] :
     pods \in PodLists \cup {{BestEffort}, {Choosy}, {BestEffort, MCPod("b", Size(2, 1))},
                             {Choosy, MCPod("b", Size(1, 1))}},
     n \in Hosting(Various(MCNode("n1", Size(3, 2))), {Size(1, 2)}),
     m \in {OvercommittedNode, Unallocatable, NodeWithFinishedPod,
            [MCNode("n2", Size(2, 2)) EXCEPT !.labels = [zone |-> "b"]]}}

(* A single node: without allocatable memory, or one that is one of the    *)
(* alternatives.                                                           *)
Lone ==
  {[pods |-> {p}, nodes |-> {n}] :
     p \in {BestEffort, Choosy},
     n \in {Unallocatable, [MCNode("n1", Size(2, 2)) EXCEPT !.labels = [zone |-> "b"]]}}

All == Plain \cup Odd \cup Lone
=============================================================================
