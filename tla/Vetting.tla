------------------------------ MODULE Vetting ------------------------------
(***************************************************************************)
(* IsScaleDownCandidate (pkg/kube/nodescaler.go), one call to the API      *)
(* server at a time: getNodeInfos lists the nodes and then fetches each    *)
(* node and its pods, while the cluster changes.  Module Proxy takes all   *)
(* of this as one step; here it is compared with what a single look at the *)
(* cluster would have said.                                                *)
(***************************************************************************)
EXTENDS Kubernetes

CONSTANTS
  InitialCluster, \* the clusters to start from: records with the registered
                  \* nodes, which of them are ready or annotated, where the
                  \* pods are and which of them are leaving
  MaxChanges      \* bound on what happens in the cluster

(* Pods have different names, and are bound to nodes of the cluster. *)
ASSUME VettingAssumption ==
  /\ \A p, q \in Pod : PodSpec[p] = PodSpec[q] => p = q
  /\ \A c \in InitialCluster : c.nodes \subseteq Node /\ c.host \in [Pod -> c.nodes \cup {NoNode}]
  /\ MaxChanges \in Nat

VARIABLES
  ready,          \* the nodes that are Ready
  annotated,      \* the nodes with the scale-down-disabled annotation
  victim,         \* the caller's copy of the node to vet
  pc,             \* the call that is made next
  names,          \* the names of the nodes still to be fetched
  fetched,        \* the node whose pods are listed next
  nodeInfos,      \* the nodes fetched so far
  verdict,        \* the result
  changes,        \* how often the cluster has changed since the call began
  moved,          \* history: the pods that have come or gone since then
  instantVerdicts \* history: what single looks at the cluster would have said

vettingVars == <<victim, pc, names, fetched, nodeInfos, verdict>>
vars == <<kubeVars, ready, annotated, vettingVars, changes, moved, instantVerdicts>>

(* Node n as it is now, with the given pods. *)
NodeNow(n, pods) ==
  [NodeInfoWith(n, pods) EXCEPT !.ready = n \in ready, !.annotation = n \in annotated]

ClusterNow == {NodeNow(n, PodsOn(n)) : n \in Registered}

InstantVerdict == IsScaleDownCandidate(victim, ClusterNow, PDBs)

Init ==
  /\ \E c \in InitialCluster :
       /\ nodeState = [n \in Node |-> IF n \in c.nodes THEN "registered" ELSE "unregistered"]
       /\ tainted = {}
       /\ host = c.host
       /\ leaving = c.leaving
       /\ ready = c.ready
       /\ annotated = c.annotated
  /\ \E n \in Registered : victim = NodeNow(n, PodsOn(n)) /\ ~isMasterNode(victim)
  /\ pc = "listNodes"
  /\ names = {}
  /\ fetched = victim
  /\ nodeInfos = {}
  /\ verdict = "none"
  /\ changes = 0
  /\ moved = {}
  /\ instantVerdicts = InstantVerdict

-----------------------------------------------------------------------------
(* getNodeInfos.                                                           *)

Continue(rest) == names' = rest /\ pc' = IF rest = {} THEN "decide" ELSE "getNode"

(* The annotation of the caller's copy is looked at before any call. *)
RejectProtected ==
  /\ pc = "listNodes"
  /\ victim.annotation
  /\ verdict' = "rejected"
  /\ pc' = "done"
  /\ UNCHANGED <<victim, names, fetched, nodeInfos>>

(* Mutant of ListNodes: a node is missing from the list. *)
ListNodesButOne ==
  /\ pc = "listNodes"
  /\ ~victim.annotation
  /\ \E n \in Registered : Continue(Registered \ {n})
  /\ UNCHANGED <<victim, fetched, nodeInfos, verdict>>

ListNodes ==
  /\ pc = "listNodes"
  /\ ~victim.annotation
  /\ Continue(Registered)
  /\ UNCHANGED <<victim, fetched, nodeInfos, verdict>>

(* A node that has left since it was listed ends the call with an error. *)
GetNode(n) ==
  /\ pc = "getNode"
  /\ n \in names
  /\ \/ n \in Registered /\ fetched' = NodeNow(n, {}) /\ pc' = "listPods"
     \/ n \notin Registered /\ pc' = "failed" /\ UNCHANGED fetched
  /\ UNCHANGED <<victim, names, nodeInfos, verdict>>

(* Mutant of withPods: pods that are about to leave are not listed. *)
withStayingPods(node) == [node EXCEPT !.pods = {PodSpec[p] : p \in PodsOn(node.name) \ leaving}]

withPods(node) == [node EXCEPT !.pods = {PodSpec[p] : p \in PodsOn(node.name)}]

ListPods ==
  /\ pc = "listPods"
  /\ nodeInfos' = nodeInfos \cup {withPods(fetched)}
  /\ Continue(names \ {fetched.name})
  /\ UNCHANGED <<victim, fetched, verdict>>

Decide ==
  /\ pc = "decide"
  /\ verdict' \in IsScaleDownCandidate(victim, nodeInfos, PDBs)
  /\ pc' = "done"
  /\ UNCHANGED <<victim, names, fetched, nodeInfos>>

Vet == RejectProtected \/ ListNodes \/ (\E n \in names : GetNode(n)) \/ ListPods \/ Decide

-----------------------------------------------------------------------------
(* What happens in the cluster (external).                                 *)

Toggle(set, n) == IF n \in set THEN set \ {n} ELSE set \cup {n}

ClusterChanges ==
  /\ UNCHANGED vettingVars
  /\ changes < MaxChanges /\ changes' = changes + 1
  /\ \/ /\ \/ \E p \in Pod : PodGone(p) \/ \E n \in ready : SchedulerBinds(p, n)
           \/ \E n \in Node : NodeJoins(n) \/ NodeVanishes(n)
        /\ UNCHANGED <<ready, annotated>>
     \/ \E n \in Node : ready' = Toggle(ready, n) /\ UNCHANGED <<kubeVars, annotated>>
     \/ \E n \in Node : annotated' = Toggle(annotated, n) /\ UNCHANGED <<kubeVars, ready>>
  /\ instantVerdicts' = instantVerdicts \cup InstantVerdict'
  /\ moved' = moved \cup {p \in Pod : host'[p] # host[p]}

Next ==
  \/ Vet /\ UNCHANGED <<kubeVars, ready, annotated, changes, moved, instantVerdicts>>
  \/ pc \notin {"done", "failed"} /\ ClusterChanges

Spec == Init /\ [][Next]_vars

-----------------------------------------------------------------------------
(* Properties.                                                             *)

(* README: "A node qualifies as a scale-down candidate if it satisfies all *)
(* of the following conditions".  Although IsScaleDownCandidate looks at   *)
(* the cluster in many calls, and at the annotation in the caller's copy,  *)
(* its verdict is one that a single look could have given at some moment,  *)
(* if the cluster changes at most once in the meantime.  With two changes  *)
(* it is not: a pod that comes to a node already read and one that leaves  *)
(* a node not yet read are both missed.                                    *)
OneChangeIsSeenWhole ==
  pc = "done" /\ changes <= 1 => verdict \in instantVerdicts

(* A pod that stayed where it was during the call is counted exactly once  *)
(* when getNodeInfos is through, whatever else changed, unless its node    *)
(* had left before the nodes were listed.                                  *)
StillPodsAreCountedOnce ==
  pc = "decide" => \A p \in Pod \ moved :
    host[p] \in Registered =>
      Cardinality({n \in nodeInfos : PodSpec[p] \in n.pods}) = 1
=============================================================================
