--------------------------- MODULE VettingProofs ---------------------------
(***************************************************************************)
(* Proofs about module Vetting, for every cluster to start from, any pods, *)
(* nodes and budgets, and any number of changes during the call.           *)
(***************************************************************************)
EXTENDS Vetting, FiniteSetTheorems, TLAPS

(* The nodes that were listed: those still to be fetched and those that    *)
(* have been read.                                                         *)
Reading == pc \in {"getNode", "listPods", "decide"}
Seen == names \cup {x.name : x \in nodeInfos}

(* How far getNodeInfos is. *)
ListingFits ==
  /\ pc \in {"listNodes", "getNode", "listPods", "decide", "done", "failed"}
  /\ names \subseteq Node
  /\ pc = "listNodes" => names = {} /\ nodeInfos = {}
  /\ pc = "listPods" => fetched.name \in names /\ {"name", "pods"} \subseteq DOMAIN fetched
  /\ pc = "decide" => names = {}

(* Pods are on nodes that have registered, and nobody taints a node while  *)
(* it is vetted.                                                           *)
ClusterFits ==
  /\ nodeState \in [Node -> NodeState]
  /\ host \in [Pod -> Node \cup {NoNode}]
  /\ \A p \in Pod : host[p] # NoNode => nodeState[host[p]] # "unregistered"
  /\ tainted = {}
  /\ changes \in Nat

(* No node is read twice, a pod that has not moved was seen where it is,   *)
(* and nowhere else, and none of the nodes with such a pod is forgotten.   *)
ReadingFits ==
  /\ \A x \in nodeInfos : x.name \notin names
  /\ \A x, y \in nodeInfos : x.name = y.name => x = y
  /\ \A x \in nodeInfos : \A p \in Pod \ moved : PodSpec[p] \in x.pods <=> host[p] = x.name
  /\ Reading => \A p \in Pod \ moved : host[p] \in Registered => host[p] \in Seen

CountInv == ListingFits /\ ClusterFits /\ ReadingFits

-----------------------------------------------------------------------------
(* Counting pods.                                                          *)

LEMMA CountInit == Init => CountInv
<1> SUFFICES ASSUME Init PROVE CountInv
  OBVIOUS
<1>1. PICK c \in InitialCluster :
        /\ nodeState = [n \in Node |-> IF n \in c.nodes THEN "registered" ELSE "unregistered"]
        /\ tainted = {} /\ host = c.host
  BY DEF Init
<1>2. ClusterFits
  BY <1>1, VettingAssumption, NoNodeAssumption DEF Init, ClusterFits, NodeState
<1>3. ListingFits /\ ReadingFits
  BY DEF Init, ListingFits, ReadingFits, Reading
<1> QED
  BY <1>2, <1>3 DEF CountInv

(* The node that is put into nodeInfos, as far as counting goes. *)
LEMMA ReadNode ==
  ASSUME ListingFits, pc = "listPods"
  PROVE  /\ withPods(fetched).name = fetched.name
         /\ \A p \in Pod : PodSpec[p] \in withPods(fetched).pods <=> host[p] = fetched.name
<1>1. /\ withPods(fetched).name = fetched.name
      /\ withPods(fetched).pods = {PodSpec[p] : p \in PodsOn(fetched.name)}
  BY DEF ListingFits, withPods
<1> QED
  BY <1>1, VettingAssumption DEF PodsOn

(* A step of the call keeps the count. *)
LEMMA VetCounts ==
  ASSUME CountInv, Vet, UNCHANGED <<kubeVars, ready, annotated, changes, moved, instantVerdicts>>
  PROVE  CountInv'
<1> USE DEF CountInv
<1>c. /\ nodeState' = nodeState /\ host' = host /\ moved' = moved /\ Registered' = Registered
      /\ ClusterFits'
  BY DEF kubeVars, Registered, ClusterFits
<1>1. CASE RejectProtected
  BY <1>1, <1>c DEF RejectProtected, ListingFits, ReadingFits, Reading
<1>2. CASE ListNodes
  <2>1. names' = Registered /\ nodeInfos' = {} /\ pc' \in {"getNode", "decide"}
        /\ (pc' = "decide" => names' = {})
    BY <1>2 DEF ListNodes, Continue, ListingFits
  <2> QED
    BY <2>1, <1>c DEF ListingFits, ReadingFits, Reading, Seen, Registered
<1>3. ASSUME NEW n \in names, GetNode(n) PROVE CountInv'
  <2>1. /\ names' = names /\ nodeInfos' = nodeInfos /\ pc = "getNode"
        /\ \/ pc' = "failed"
           \/ pc' = "listPods" /\ fetched' = NodeNow(n, {})
    BY <1>3 DEF GetNode
  <2>2. NodeNow(n, {}).name = n /\ {"name", "pods"} \subseteq DOMAIN NodeNow(n, {})
    BY DEF NodeNow, NodeInfoWith
  <2>3. Seen' = Seen
    BY <2>1 DEF Seen
  <2>4. ListingFits'
    BY <2>1, <2>2 DEF ListingFits
  <2> QED
    BY <2>1, <2>3, <2>4, <1>c DEF ReadingFits, Reading
<1>4. CASE ListPods
  <2>1. PICK x : x = withPods(fetched)
    OBVIOUS
  <2>2. /\ names' = names \ {x.name} /\ x.name \in names /\ nodeInfos' = nodeInfos \cup {x}
        /\ pc' = IF names' = {} THEN "decide" ELSE "getNode"
        /\ pc = "listPods"
    BY <1>4, <2>1, ReadNode DEF ListPods, Continue, ListingFits
  <2>3. \A p \in Pod : PodSpec[p] \in x.pods <=> host[p] = x.name
    BY <2>1, <2>2, ReadNode
  <2>4. ListingFits'
    BY <2>2 DEF ListingFits
  <2>5. Seen' = Seen
    BY <2>2, Zenon DEF Seen
  <2>6. /\ \A y \in nodeInfos' : y.name \notin names'
        /\ \A y, z \in nodeInfos' : y.name = z.name => y = z
    BY <2>2 DEF ReadingFits
  <2>7. \A y \in nodeInfos' : \A p \in Pod \ moved : PodSpec[p] \in y.pods <=> host[p] = y.name
    BY <2>2, <2>3 DEF ReadingFits
  <2> QED
    BY <2>2, <2>4, <2>5, <2>6, <2>7, <1>c DEF ReadingFits, Reading
<1>5. CASE Decide
  BY <1>5, <1>c DEF Decide, ListingFits, ReadingFits, Reading
<1> QED
  BY <1>1, <1>2, <1>3, <1>4, <1>5 DEF Vet

(* What a change in the cluster amounts to: pods come to one node or leave *)
(* it, or one node joins, vanishes, or changes its attributes.             *)
PodsChange(c) ==
  /\ UNCHANGED <<nodeState, ready, annotated, tainted>>
  /\ \A n \in Node : n # c => PodsOn(n)' = PodsOn(n)

Membership(c) ==
  /\ UNCHANGED <<host, ready, annotated, tainted>>
  /\ \A n \in Node : n # c => nodeState'[n] = nodeState[n]
  /\ c \notin Registered \/ c \notin Registered'

AttributesChange(c) ==
  /\ UNCHANGED <<nodeState, host, tainted>>
  /\ \A n : n # c => (n \in ready' <=> n \in ready) /\ (n \in annotated' <=> n \in annotated)

OneNodeChanges == \E c \in Node : PodsChange(c) \/ Membership(c) \/ AttributesChange(c)

LEMMA ChangesOneNode ==
  ASSUME CountInv, ClusterChanges
  PROVE  /\ OneNodeChanges
         /\ ClusterFits'
         /\ \A n \in Node : nodeState[n] # "unregistered" /\ n \in Registered' => n \in Registered
<1>f. ClusterFits /\ changes' \in Nat
  BY DEF CountInv, ClusterFits, ClusterChanges
<1>1. ASSUME NEW p \in Pod, PodGone(p), UNCHANGED <<ready, annotated>>
      PROVE  /\ PodsChange(host[p]) /\ host[p] \in Node /\ ClusterFits'
             /\ Registered' = Registered
  <2>1. /\ host[p] \in Node /\ host' = [host EXCEPT ![p] = NoNode]
        /\ nodeState' = nodeState /\ tainted' = tainted
    BY <1>1, <1>f DEF PodGone, ClusterFits
  <2>2. ASSUME NEW n \in Node, n # host[p] PROVE PodsOn(n)' = PodsOn(n)
    BY <2>1, <2>2, <1>f, NoNodeAssumption DEF PodsOn, ClusterFits
  <2>3. ClusterFits'
    BY <2>1, <1>f DEF ClusterFits
  <2> QED
    BY <2>1, <2>2, <2>3, <1>1 DEF PodsChange, Registered
<1>2. ASSUME NEW p \in Pod, NEW n \in ready, SchedulerBinds(p, n), UNCHANGED <<ready, annotated>>
      PROVE  /\ PodsChange(n) /\ n \in Node /\ ClusterFits'
             /\ Registered' = Registered
  <2>1. /\ n \in Node /\ nodeState[n] = "registered" /\ host[p] = NoNode
        /\ host' = [host EXCEPT ![p] = n] /\ nodeState' = nodeState /\ tainted' = tainted
    BY <1>2 DEF SchedulerBinds, Registered
  <2>2. ASSUME NEW m \in Node, m # n PROVE PodsOn(m)' = PodsOn(m)
    BY <2>1, <2>2, <1>f, NoNodeAssumption DEF PodsOn, ClusterFits
  <2>3. ClusterFits'
    BY <2>1, <1>f DEF ClusterFits
  <2> QED
    BY <2>1, <2>2, <2>3, <1>2 DEF PodsChange, Registered
<1>3. ASSUME NEW n \in Node, NodeJoins(n) \/ NodeVanishes(n), UNCHANGED <<ready, annotated>>
      PROVE  /\ Membership(n) /\ ClusterFits'
             /\ \A m \in Node : nodeState[m] # "unregistered" /\ m \in Registered' => m \in Registered
  <2>1. /\ \/ nodeState[n] = "unregistered" /\ nodeState' = [nodeState EXCEPT ![n] = "registered"]
           \/ nodeState[n] = "registered" /\ nodeState' = [nodeState EXCEPT ![n] = "vanished"]
        /\ tainted' = tainted /\ host' = host
    BY <1>3, <1>f DEF NodeJoins, NodeVanishes, ClusterFits
  <2>2. ClusterFits'
    BY <2>1, <1>f DEF ClusterFits, NodeState
  <2>3. n \notin Registered \/ n \notin Registered'
    BY <2>1, <1>f DEF ClusterFits, Registered
  <2>4. \A m \in Node : m # n => nodeState'[m] = nodeState[m]
    BY <2>1, <1>f DEF ClusterFits
  <2> QED
    BY <2>1, <2>2, <2>3, <2>4, <1>3 DEF Membership, Registered
<1>4. ASSUME NEW n \in Node, UNCHANGED kubeVars,
             \/ ready' = Toggle(ready, n) /\ annotated' = annotated
             \/ annotated' = Toggle(annotated, n) /\ ready' = ready
      PROVE  AttributesChange(n) /\ ClusterFits' /\ Registered' = Registered
  BY <1>4, <1>f DEF AttributesChange, ClusterFits, Registered, Toggle, kubeVars
<1> QED
  BY <1>1, <1>2, <1>3, <1>4 DEF ClusterChanges, OneNodeChanges

(* A change in the cluster keeps the count. *)
LEMMA ClusterCounts ==
  ASSUME CountInv, ClusterChanges PROVE CountInv'
<1>1. /\ pc' = pc /\ names' = names /\ nodeInfos' = nodeInfos /\ fetched' = fetched
      /\ moved' = moved \cup {p \in Pod : host'[p] # host[p]}
  BY DEF ClusterChanges, vettingVars
<1>2. ListingFits' /\ Seen' = Seen /\ (Reading' <=> Reading)
  BY <1>1 DEF CountInv, ListingFits, Seen, Reading
<1>3. ASSUME NEW p \in Pod \ moved'
      PROVE  p \in Pod \ moved /\ host'[p] = host[p]
  BY <1>1
<1>4. ASSUME NEW p \in Pod \ moved', host'[p] \in Registered' PROVE host[p] \in Registered
  <2>1. host[p] \in Registered' /\ host[p] \in Node
    BY <1>3, <1>4 DEF Registered
  <2>2. nodeState[host[p]] # "unregistered"
    BY <2>1, NoNodeAssumption DEF CountInv, ClusterFits
  <2> QED
    BY <2>1, <2>2, ChangesOneNode
<1>5. ReadingFits'
  BY <1>1, <1>2, <1>3, <1>4 DEF CountInv, ReadingFits
<1> QED
  BY <1>2, <1>5, ChangesOneNode DEF CountInv

(* A pod that stayed where it was is counted exactly once. *)
LEMMA CountOnce == CountInv => StillPodsAreCountedOnce
<1> SUFFICES ASSUME CountInv, pc = "decide", NEW p \in Pod \ moved, host[p] \in Registered
             PROVE  Cardinality({n \in nodeInfos : PodSpec[p] \in n.pods}) = 1
  BY DEF StillPodsAreCountedOnce
<1>1. names = {} /\ host[p] \in Seen
  BY DEF CountInv, ListingFits, ReadingFits, Reading
<1>2. PICK x \in nodeInfos : x.name = host[p]
  BY <1>1 DEF Seen
<1>3. {n \in nodeInfos : PodSpec[p] \in n.pods} = {x}
  BY <1>2 DEF CountInv, ReadingFits
<1> QED
  BY <1>3, FS_Singleton, Zenon

LEMMA CountStep == CountInv /\ [Next]_vars => CountInv'
<1> SUFFICES ASSUME CountInv, [Next]_vars PROVE CountInv'
  OBVIOUS
<1>1. CASE UNCHANGED vars
  BY <1>1, Zenon DEF vars, vettingVars, kubeVars, CountInv, ListingFits, ClusterFits, ReadingFits,
                     Reading, Seen, Registered
<1> QED
  BY <1>1, VetCounts, ClusterCounts, Zenon DEF Next

(* getNodeInfos collects the nodes and their pods in many calls while pods *)
(* come and go; a pod that stays where it is is nevertheless counted, and  *)
(* counted once, however often the cluster changes.                        *)
THEOREM StillPodsCounted == Spec => []StillPodsAreCountedOnce
BY CountInit, CountStep, CountOnce, PTL DEF Spec

-----------------------------------------------------------------------------
(* A single look.                                                          *)

NodeView(n) == NodeNow(n, PodsOn(n))
Now == [n \in Registered |-> NodeView(n)]

(* A node before and after its pods have been listed. *)
Bare(x) == [x EXCEPT !.pods = {}]
Filled(x, pods) == [x EXCEPT !.pods = pods]

(* A node as a record of its parts, for the lemma that follows. *)
Parts(n, al, la, ta, an, re, un, po) ==
  [name |-> n, allocatable |-> al, labels |-> la, taints |-> ta, annotation |-> an,
   ready |-> re, unschedulable |-> un, pods |-> po]

SpecsOf(pods) == {PodSpec[p] : p \in pods}
Taints(n) == NodeSpec[n].taints \cup (IF n \in tainted THEN {NodeAboutToBeDrainedTaint} ELSE {})

LEMMA NodeIsRecord ==
  ASSUME NEW n
  PROVE  \E al, la, ta, an, re, un :
           \A pods : NodeNow(n, pods) = Parts(n, al, la, ta, an, re, un, SpecsOf(pods))
<1>1. PICK al : al = NodeSpec[n].allocatable
  OBVIOUS
<1>2. PICK la : la = NodeSpec[n].labels
  OBVIOUS
<1>3. PICK ta : ta = Taints(n)
  OBVIOUS
<1>4. PICK un : un = NodeSpec[n].unschedulable
  OBVIOUS
<1>5. PICK an : an = (n \in annotated)
  BY Zenon
<1>6. PICK re : re = (n \in ready)
  BY Zenon
<1>7. ASSUME NEW pods
      PROVE  NodeNow(n, pods) = Parts(n, al, la, ta, an, re, un, SpecsOf(pods))
  <2>1. PICK S : S = SpecsOf(pods)
    OBVIOUS
  <2>2. PICK a : a = NodeSpec[n].annotation
    OBVIOUS
  <2>3. PICK r : r = NodeSpec[n].ready
    OBVIOUS
  <2>4. NodeInfoWith(n, pods) = Parts(n, al, la, ta, a, r, un, S)
    BY <1>1, <1>2, <1>3, <1>4, <2>1, <2>2, <2>3, Zenon DEF NodeInfoWith, Parts, Taints, SpecsOf
  <2>5. NodeNow(n, pods) = [Parts(n, al, la, ta, a, r, un, S) EXCEPT !.ready = re, !.annotation = an]
    BY <1>5, <1>6, <2>4, Zenon DEF NodeNow
  <2>6. [Parts(n, al, la, ta, a, r, un, S) EXCEPT !.ready = re] = Parts(n, al, la, ta, a, re, un, S)
    BY DEF Parts
  <2>7. [Parts(n, al, la, ta, a, re, un, S) EXCEPT !.annotation = an] = Parts(n, al, la, ta, an, re, un, S)
    BY DEF Parts
  <2>8. [Parts(n, al, la, ta, a, r, un, S) EXCEPT !.ready = re, !.annotation = an]
          = [[Parts(n, al, la, ta, a, r, un, S) EXCEPT !.ready = re] EXCEPT !.annotation = an]
    OBVIOUS
  <2> QED
    BY <2>1, <2>5, <2>6, <2>7, <2>8, Zenon
<1> QED
  BY <1>7, ZenonT(30)

LEMMA NodeOfParts ==
  ASSUME NEW n, NEW pods
  PROVE  /\ NodeNow(n, pods).name = n
         /\ NodeNow(n, pods).pods = {PodSpec[p] : p \in pods}
         /\ Bare(NodeNow(n, pods)) = NodeNow(n, {})
         /\ Filled(NodeNow(n, {}), {PodSpec[p] : p \in pods}) = NodeNow(n, pods)
<1>1. PICK al, la, ta, an, re, un :
        \A q : NodeNow(n, q) = Parts(n, al, la, ta, an, re, un, SpecsOf(q))
  BY NodeIsRecord
<1>2. PICK S : S = SpecsOf(pods)
  OBVIOUS
<1>3. SpecsOf({}) = {}
  BY DEF SpecsOf
<1>4. /\ NodeNow(n, pods) = Parts(n, al, la, ta, an, re, un, S)
      /\ NodeNow(n, {}) = Parts(n, al, la, ta, an, re, un, {})
  BY <1>1, <1>2, <1>3
<1>5. /\ Parts(n, al, la, ta, an, re, un, S).name = n
      /\ Parts(n, al, la, ta, an, re, un, S).pods = S
      /\ [Parts(n, al, la, ta, an, re, un, S) EXCEPT !.pods = {}] = Parts(n, al, la, ta, an, re, un, {})
      /\ [Parts(n, al, la, ta, an, re, un, {}) EXCEPT !.pods = S] = Parts(n, al, la, ta, an, re, un, S)
  BY DEF Parts
<1> QED
  BY <1>2, <1>4, <1>5, Zenon DEF Bare, Filled, SpecsOf

-----------------------------------------------------------------------------
(* What a call has read, compared with a look W at the whole cluster.      *)

Nodes(W) == {W[n] : n \in DOMAIN W}
Verdicts(W) == IsScaleDownCandidate(victim, Nodes(W), PDBs)

(* W says what nodes are like, pods and all. *)
IsView(W) == \A n \in DOMAIN W : W[n].name = n /\ Filled(Bare(W[n]), W[n].pods) = W[n]

(* All that was listed and read is as in W ... *)
Agrees(W) ==
  Reading => /\ Seen = DOMAIN W
             /\ \A x \in nodeInfos : x = W[x.name]
             /\ pc = "listPods" => fetched = Bare(W[fetched.name])

(* ... and so is what will still be read. *)
RestAgrees(W) ==
  /\ \A n \in names : n \in Registered /\ (pc = "listPods" => n # fetched.name) => W[n] = NodeView(n)
  /\ pc = "listPods" => W[fetched.name].pods = SpecsOf(PodsOn(fetched.name))

SawWhole(W) == IsView(W) /\ Verdicts(W) \subseteq instantVerdicts /\ Agrees(W) /\ RestAgrees(W)

(* Without a change the call agrees with the cluster as it is; after one   *)
(* change it agrees with the cluster as it is so far, or, to the end, with *)
(* the cluster as it was before.                                           *)
WholeInv ==
  /\ InstantVerdict \subseteq instantVerdicts
  /\ changes = 0 => Agrees(Now)
  /\ changes <= 1 => Agrees(Now) \/ \E W : SawWhole(W)
  /\ OneChangeIsSeenWhole

LEMMA ViewOfNow ==
  /\ DOMAIN Now = Registered
  /\ \A n \in Registered : /\ Now[n] = NodeView(n) /\ NodeView(n).name = n
                           /\ NodeView(n).pods = SpecsOf(PodsOn(n))
                           /\ Bare(NodeView(n)) = NodeNow(n, {})
                           /\ Filled(NodeNow(n, {}), SpecsOf(PodsOn(n))) = NodeView(n)
  /\ IsView(Now)
  /\ Verdicts(Now) = InstantVerdict
<1>1. DOMAIN Now = Registered /\ \A n \in Registered : Now[n] = NodeView(n)
  BY DEF Now
<1>2. ASSUME NEW n
      PROVE  /\ NodeView(n).name = n /\ NodeView(n).pods = SpecsOf(PodsOn(n))
             /\ Bare(NodeView(n)) = NodeNow(n, {})
             /\ Filled(NodeNow(n, {}), SpecsOf(PodsOn(n))) = NodeView(n)
  BY NodeOfParts, Zenon DEF NodeView, SpecsOf
<1>3. IsView(Now)
  BY <1>1, <1>2, ZenonT(30) DEF IsView
<1>4. Nodes(Now) = ClusterNow
  BY <1>1, Zenon DEF Nodes, ClusterNow, NodeView
<1> QED
  BY <1>1, <1>2, <1>3, <1>4, Zenon DEF Verdicts, InstantVerdict

LEMMA NowIsWhole ==
  ASSUME CountInv, InstantVerdict \subseteq instantVerdicts, Agrees(Now)
  PROVE  SawWhole(Now)
<1>1. \A n \in names : n \in Registered => Now[n] = NodeView(n)
  BY ViewOfNow
<1>2. ASSUME pc = "listPods" PROVE Now[fetched.name].pods = SpecsOf(PodsOn(fetched.name))
  <2>1. fetched.name \in Registered
    BY <1>2, ViewOfNow DEF CountInv, ListingFits, Agrees, Reading, Seen
  <2> QED
    BY <2>1, ViewOfNow, Zenon
<1>3. RestAgrees(Now)
  BY <1>1, <1>2, Zenon DEF RestAgrees
<1> QED
  BY <1>3, ViewOfNow, Zenon DEF SawWhole

LEMMA SameCluster ==
  ASSUME UNCHANGED <<kubeVars, ready, annotated>>
  PROVE  /\ Registered' = Registered /\ Now' = Now /\ ClusterNow' = ClusterNow
         /\ \A n : PodsOn(n)' = PodsOn(n) /\ NodeView(n)' = NodeView(n)
<1>1. Registered' = Registered /\ \A n : PodsOn(n)' = PodsOn(n) /\ NodeView(n)' = NodeView(n)
  BY Zenon DEF kubeVars, Registered, PodsOn, NodeView, NodeNow, NodeInfoWith
<1>2. ClusterNow = {NodeView(n) : n \in Registered}
  BY Zenon DEF ClusterNow, NodeView
<1>3. ClusterNow' = {NodeView(n)' : n \in Registered'}
  BY Zenon DEF ClusterNow, NodeView
<1>4. Now' = Now
  BY <1>1 DEF Now
<1> QED
  BY <1>1, <1>2, <1>3, <1>4

(* The steps of the call, when it agrees with W. *)
LEMMA GetNodeSees ==
  ASSUME CountInv, NEW W, SawWhole(W), NEW n \in names, GetNode(n),
         UNCHANGED <<kubeVars, ready, annotated, instantVerdicts>>
  PROVE  Agrees(W)' /\ RestAgrees(W)'
<1>1. /\ names' = names /\ nodeInfos' = nodeInfos /\ Seen' = Seen /\ pc = "getNode"
      /\ \/ n \notin Registered /\ pc' = "failed"
         \/ n \in Registered /\ pc' = "listPods" /\ fetched' = NodeNow(n, {})
  BY Zenon DEF GetNode, Seen
<1>2. Registered' = Registered /\ \A m : PodsOn(m)' = PodsOn(m) /\ NodeView(m)' = NodeView(m)
  BY SameCluster, Zenon
<1>3. \A m \in names : m \in Registered => W[m] = NodeView(m)
  BY <1>1 DEF SawWhole, RestAgrees
<1>4. CASE n \notin Registered
  BY <1>1, <1>2, <1>3, <1>4, Zenon DEF Agrees, RestAgrees, Reading
<1>5. CASE n \in Registered
  <2>1. /\ pc' = "listPods" /\ fetched' = Bare(W[n]) /\ W[n] = NodeView(n) /\ fetched'.name = n
        /\ W[n].pods = SpecsOf(PodsOn(n))
    <3>1. NodeNow(n, {}).name = n
      BY NodeOfParts, Zenon
    <3> QED
      BY <1>1, <1>3, <1>5, <3>1, ViewOfNow, Zenon
  <2>2. Agrees(W)'
    BY <1>1, <2>1 DEF SawWhole, Agrees, Reading
  <2>3. SpecsOf(PodsOn(n))' = SpecsOf(PodsOn(n))
    BY <1>2, Zenon DEF SpecsOf
  <2>4. RestAgrees(W)'
    BY <1>1, <1>2, <1>3, <2>1, <2>3 DEF RestAgrees, SpecsOf
  <2> QED
    BY <2>2, <2>4
<1> QED
  BY <1>4, <1>5

LEMMA ListPodsSees ==
  ASSUME CountInv, NEW W, SawWhole(W), ListPods,
         UNCHANGED <<kubeVars, ready, annotated, instantVerdicts>>
  PROVE  Agrees(W)' /\ RestAgrees(W)'
<1>1. PICK f, x : f = fetched.name /\ x = withPods(fetched)
  OBVIOUS
<1>2. f \in names /\ f \in DOMAIN W /\ pc = "listPods" /\ fetched = Bare(W[f]) /\ Reading
  BY <1>1 DEF ListPods, CountInv, ListingFits, SawWhole, Agrees, Reading, Seen
<1>3. x = W[f] /\ x.name = f
  <2>1. W[f].pods = SpecsOf(PodsOn(f)) /\ W[f].name = f /\ Filled(Bare(W[f]), W[f].pods) = W[f]
    BY <1>1, <1>2, Zenon DEF SawWhole, RestAgrees, IsView
  <2>2. x = Filled(fetched, SpecsOf(PodsOn(f)))
    BY <1>1, Zenon DEF withPods, Filled, SpecsOf
  <2> QED
    BY <1>2, <2>1, <2>2, Zenon
<1>4. /\ names' = names \ {f} /\ nodeInfos' = nodeInfos \cup {x}
      /\ pc' \in {"decide", "getNode"}
  BY <1>1 DEF ListPods, Continue
<1>5. Seen' = Seen
  BY <1>2, <1>3, <1>4, Zenon DEF Seen
<1>6. Agrees(W)'
  BY <1>2, <1>3, <1>4, <1>5 DEF SawWhole, Agrees
<1>7. Registered' = Registered /\ \A m : NodeView(m)' = NodeView(m)
  BY SameCluster, Zenon
<1>8. \A m \in names' : m \in Registered => W[m] = NodeView(m)
  BY <1>1, <1>4 DEF SawWhole, RestAgrees
<1>9. RestAgrees(W)'
  BY <1>4, <1>7, <1>8 DEF RestAgrees
<1> QED
  BY <1>6, <1>9

LEMMA DecideSees ==
  ASSUME CountInv, NEW W, SawWhole(W), Decide, instantVerdicts' = instantVerdicts
  PROVE  verdict' \in instantVerdicts'
<1>1. {x.name : x \in nodeInfos} = DOMAIN W /\ \A x \in nodeInfos : x = W[x.name]
  BY DEF Decide, CountInv, ListingFits, SawWhole, Agrees, Reading, Seen
<1>2. nodeInfos = Nodes(W)
  <2>1. \A x \in nodeInfos : x \in Nodes(W)
    BY <1>1 DEF Nodes
  <2>2. ASSUME NEW n \in DOMAIN W PROVE W[n] \in nodeInfos
    <3>1. PICK x \in nodeInfos : x.name = n
      BY <1>1
    <3> QED
      BY <1>1, <3>1
  <2> QED
    BY <2>1, <2>2 DEF Nodes
<1> QED
  BY <1>2, Zenon DEF Decide, SawWhole, Verdicts

LEMMA RejectSees ==
  ASSUME InstantVerdict \subseteq instantVerdicts, RejectProtected, instantVerdicts' = instantVerdicts
  PROVE  verdict' \in instantVerdicts'
<1>1. InstantVerdict = {"rejected"}
  BY Zenon DEF RejectProtected, InstantVerdict, IsScaleDownCandidate
<1> QED
  BY <1>1 DEF RejectProtected

(* A step of the call keeps the agreement. *)
LEMMA VetSees ==
  ASSUME CountInv, WholeInv, Vet,
         UNCHANGED <<kubeVars, ready, annotated, changes, moved, instantVerdicts>>
  PROVE  WholeInv'
<1>1. PICK now : now = Now
  OBVIOUS
<1>2. /\ now = Now' /\ victim' = victim /\ instantVerdicts' = instantVerdicts /\ changes' = changes
      /\ InstantVerdict' = InstantVerdict
  <2>1. Now' = Now /\ ClusterNow' = ClusterNow
    BY SameCluster, Zenon
  <2>2. victim' = victim
    BY DEF Vet, RejectProtected, ListNodes, GetNode, ListPods, Decide
  <2> QED
    BY <1>1, <2>1, <2>2, Zenon DEF InstantVerdict
<1>3. changes = 0 => SawWhole(now)
  BY <1>1, NowIsWhole DEF WholeInv
<1>4. changes <= 1 => \E W : SawWhole(W)
  BY NowIsWhole DEF WholeInv
<1>5. ASSUME NEW W, SawWhole(W), Agrees(W)', RestAgrees(W)' PROVE SawWhole(W)'
  BY <1>2, <1>5, Zenon DEF SawWhole, Verdicts, IsView
<1>6. ASSUME NEW W, SawWhole(W), Agrees(W)' , W = now PROVE Agrees(Now)'
  BY <1>2, <1>6, Zenon DEF Agrees
<1>7. CASE RejectProtected
  <2>1. Agrees(Now)' /\ verdict' \in instantVerdicts'
    BY <1>7, <1>2, RejectSees DEF RejectProtected, Agrees, Reading, WholeInv
  <2> QED
    BY <2>1, <1>2, Zenon DEF WholeInv, OneChangeIsSeenWhole
<1>8. CASE ListNodes
  <2>1. names' = Registered /\ nodeInfos' = {} /\ pc' \in {"getNode", "decide"}
    BY <1>8 DEF ListNodes, Continue, CountInv, ListingFits
  <2>2. Seen' = Registered /\ DOMAIN now = Registered
    BY <2>1, <1>1, ViewOfNow DEF Seen
  <2>3. Agrees(now)'
    BY <2>1, <2>2 DEF Agrees
  <2>4. Agrees(Now)'
    BY <1>2, <2>3, Zenon DEF Agrees
  <2> QED
    BY <2>1, <2>4, <1>2 DEF WholeInv, OneChangeIsSeenWhole
<1>9. CASE (\E n \in names : GetNode(n)) \/ ListPods
  <2>1. ASSUME NEW W, SawWhole(W) PROVE Agrees(W)' /\ RestAgrees(W)'
    BY <1>9, <2>1, GetNodeSees, ListPodsSees, Zenon
  <2>2. pc' # "done"
    BY <1>9 DEF GetNode, ListPods, Continue
  <2>3. changes = 0 => Agrees(Now)'
    BY <1>3, <1>6, <2>1, Zenon
  <2>4. changes <= 1 => \E W : SawWhole(W)'
    BY <1>4, <1>5, <2>1, Zenon
  <2> QED
    BY <1>2, <2>2, <2>3, <2>4, Zenon DEF WholeInv, OneChangeIsSeenWhole
<1>10. CASE Decide
  <2>1. changes <= 1 => verdict' \in instantVerdicts'
    BY <1>10, <1>2, <1>4, DecideSees, Zenon
  <2>2. Agrees(Now)'
    BY <1>10 DEF Decide, Agrees, Reading
  <2> QED
    BY <1>2, <2>1, <2>2, Zenon DEF WholeInv, OneChangeIsSeenWhole
<1> QED
  BY <1>7, <1>8, <1>9, <1>10, Zenon DEF Vet

NodeFacts == \A n : NodeView(n).pods = SpecsOf(PodsOn(n)) /\ Bare(NodeView(n)) = NodeNow(n, {})

LEMMA NodeFactsHold == NodeFacts
BY NodeOfParts, Zenon DEF NodeFacts, NodeView, SpecsOf

(* What the nodes other than the one that changes look like. *)
LEMMA OtherNodesStay ==
  ASSUME NEW c \in Node, PodsChange(c) \/ Membership(c) \/ AttributesChange(c),
         NEW n \in Node, n # c
  PROVE  NodeView(n)' = NodeView(n) /\ (n \in Registered' <=> n \in Registered)
<1>1. /\ PodsOn(n)' = PodsOn(n) /\ tainted' = tainted
      /\ (n \in ready' <=> n \in ready) /\ (n \in annotated' <=> n \in annotated)
  <2>1. CASE PodsChange(c)
    BY <2>1 DEF PodsChange
  <2>2. CASE Membership(c) \/ AttributesChange(c)
    <3>1. /\ host' = host /\ tainted' = tainted
          /\ (n \in ready' <=> n \in ready) /\ (n \in annotated' <=> n \in annotated)
      BY <2>2 DEF Membership, AttributesChange
    <3> QED
      BY <3>1 DEF PodsOn
  <2> QED
    BY <2>1, <2>2
<1>2. nodeState'[n] = nodeState[n]
  BY Zenon DEF PodsChange, Membership, AttributesChange
<1>b. (n \in ready') = (n \in ready) /\ (n \in annotated') = (n \in annotated)
  BY <1>1
<1>3. NodeView(n)' = NodeView(n)
  BY <1>1, <1>b, Zenon DEF NodeView, NodeNow, NodeInfoWith
<1> QED
  BY <1>2, <1>3 DEF Registered

(* The cluster changes for the first time: what was read so far is as      *)
(* before the change, and either the changed node is not read any more, or *)
(* it has not been read yet.                                               *)
LEMMA FirstChange ==
  ASSUME CountInv, NEW W, W = Now, SawWhole(W), UNCHANGED vettingVars, OneNodeChanges,
         instantVerdicts \subseteq instantVerdicts', names \subseteq Node
  PROVE  Agrees(Now)' \/ SawWhole(W)'
<1>f. NodeFacts /\ NodeFacts'
  BY NodeFactsHold, PTL
<1>g. PICK f : f = fetched.name
  OBVIOUS
<1>1. PICK c \in Node : PodsChange(c) \/ Membership(c) \/ AttributesChange(c)
  BY DEF OneNodeChanges
<1>2. /\ victim' = victim /\ pc' = pc /\ names' = names /\ fetched' = fetched /\ nodeInfos' = nodeInfos
      /\ Seen' = Seen /\ (Reading' <=> Reading)
  BY Zenon DEF vettingVars, Seen, Reading
<1>3. Agrees(W)' /\ IsView(W)' /\ Verdicts(W)' \subseteq instantVerdicts'
  BY <1>2, Zenon DEF SawWhole, Agrees, IsView, Verdicts
<1>4. ASSUME RestAgrees(W)' PROVE SawWhole(W)'
  BY <1>3, <1>4, Zenon DEF SawWhole, IsView
<1>5. \A n \in Node : n # c => NodeView(n)' = NodeView(n) /\ (n \in Registered' <=> n \in Registered)
  BY <1>1, OtherNodesStay, Zenon
<1>6. /\ DOMAIN W = Registered /\ \A n \in Registered : W[n] = NodeView(n)
      /\ DOMAIN Now' = Registered' /\ \A n \in Registered' : Now'[n] = NodeView(n)'
  BY DEF Now
<1>7. CASE ~Reading
  BY <1>2, <1>7 DEF Agrees
<1>8. ASSUME Reading
      PROVE  /\ Seen = Registered /\ names \subseteq Registered
             /\ \A x \in nodeInfos : x.name \in Registered /\ x = NodeView(x.name) /\ x.name \notin names
             /\ pc = "listPods" => f \in names /\ fetched = Bare(NodeView(f)) /\ f \in Node
  BY <1>6, <1>8, <1>g DEF SawWhole, Agrees, Seen, CountInv, ListingFits, ReadingFits
(* The changed node has not been read: the call agrees with the cluster    *)
(* as it has become.                                                       *)
<1>9. ASSUME Reading, c \in names, Registered' = Registered,
             pc = "listPods" => Bare(NodeView(f)') = Bare(NodeView(f))
      PROVE  Agrees(Now)'
  <2>1. \A x \in nodeInfos : x = NodeView(x.name)'
    BY <1>5, <1>8, <1>9 DEF Registered
  <2>2. pc = "listPods" => fetched = Bare(NodeView(f)')
    BY <1>8, <1>9
  <2>3. Seen' = DOMAIN Now' /\ \A x \in nodeInfos : x = Now'[x.name]
    BY <1>2, <1>6, <1>8, <1>9, <2>1
  <2>4. pc = "listPods" => fetched = Bare(Now'[fetched.name])
    BY <1>g, <1>6, <1>8, <1>9, <2>2
  <2> QED
    BY <1>2, <2>3, <2>4, Zenon DEF Agrees
(* The changed node has been read, or is not in the list: the call goes on *)
(* as before.                                                              *)
<1>10. ASSUME Reading, c \notin names PROVE RestAgrees(W)'
  <2>1. \A n \in names : n \in Node /\ W[n] = NodeView(n)'
    BY <1>5, <1>6, <1>8, <1>10
  <2>2. \A n \in names : W[n].pods = SpecsOf(PodsOn(n))'
    BY <2>1, <1>f, Zenon DEF NodeFacts
  <2> QED
    BY <1>g, <1>2, <1>8, <1>10, <2>1, <2>2, Zenon DEF RestAgrees
<1>11. CASE Reading /\ c \in names
  <2>1. CASE PodsChange(c)
    <3>1. Registered' = Registered /\ \A n : Bare(NodeView(n)') = Bare(NodeView(n))
      <4>1. \A n : NodeNow(n, {})' = NodeNow(n, {})
        BY <2>1, Zenon DEF PodsChange, NodeNow, NodeInfoWith
      <4> QED
        BY <1>f, <2>1, <4>1, Zenon DEF PodsChange, Registered, NodeFacts
    <3> QED
      BY <1>9, <1>11, <3>1, Zenon
  <2>2. CASE Membership(c)
    <3>1. c \notin Registered'
      BY <1>8, <1>11, <2>2 DEF Membership
    <3>2. \A n \in names : n \in Registered' => W[n] = NodeView(n)'
      BY <1>5, <1>6, <1>8, <1>11, <3>1
    <3>3. pc = "listPods" => W[f].pods = SpecsOf(PodsOn(f))'
      <4>1. \A n : SpecsOf(PodsOn(n))' = SpecsOf(PodsOn(n))
        BY <2>2, Zenon DEF Membership, PodsOn, SpecsOf
      <4> QED
        BY <1>g, <4>1, Zenon DEF SawWhole, RestAgrees
    <3> QED
      BY <1>g, <1>2, <1>4, <3>2, <3>3, Zenon DEF RestAgrees
  <2>3. CASE AttributesChange(c) /\ pc = "listPods" /\ f = c
    <3>1. \A n \in names : n # c => W[n] = NodeView(n)'
      BY <1>5, <1>6, <1>8, <1>11
    <3>2. W[c].pods = SpecsOf(PodsOn(c))'
      <4>1. SpecsOf(PodsOn(c))' = SpecsOf(PodsOn(c))
        BY <2>3, Zenon DEF AttributesChange, PodsOn, SpecsOf
      <4> QED
        BY <1>g, <2>3, <4>1, Zenon DEF SawWhole, RestAgrees
    <3> QED
      BY <1>g, <1>2, <1>4, <2>3, <3>1, <3>2, Zenon DEF RestAgrees
  <2>4. CASE AttributesChange(c) /\ (pc = "listPods" => f # c)
    <3>1. Registered' = Registered
      BY <2>4 DEF AttributesChange, Registered
    <3>2. pc = "listPods" => NodeView(f)' = NodeView(f)
      BY <1>5, <1>8, <1>11, <2>4
    <3> QED
      BY <1>9, <1>11, <3>1, <3>2, Zenon
  <2> QED
    BY <1>1, <2>1, <2>2, <2>3, <2>4
<1> QED
  BY <1>4, <1>7, <1>10, <1>11, Zenon

LEMMA WholeInit == Init => WholeInv
<1> SUFFICES ASSUME Init PROVE WholeInv
  OBVIOUS
<1>1. Agrees(Now) /\ OneChangeIsSeenWhole /\ InstantVerdict \subseteq instantVerdicts
  BY DEF Init, Agrees, Reading, OneChangeIsSeenWhole
<1> QED
  BY <1>1 DEF WholeInv

LEMMA ClusterSees ==
  ASSUME CountInv, WholeInv, ClusterChanges, pc \notin {"done", "failed"}
  PROVE  WholeInv'
<1>1. InstantVerdict' \subseteq instantVerdicts' /\ instantVerdicts \subseteq instantVerdicts'
  BY DEF ClusterChanges
<1>2. changes \in Nat /\ changes' = changes + 1 /\ UNCHANGED vettingVars /\ pc' # "done"
  BY DEF ClusterChanges, CountInv, ClusterFits, vettingVars
<1>3. ASSUME changes' <= 1 PROVE Agrees(Now)' \/ \E W : SawWhole(W)'
  <2>1. changes = 0
    BY <1>2, <1>3
  <2>2. PICK W : W = Now
    OBVIOUS
  <2>3. SawWhole(W)
    BY <2>1, <2>2, NowIsWhole DEF WholeInv
  <2>4. names \subseteq Node /\ OneNodeChanges
    BY ChangesOneNode DEF CountInv, ListingFits
  <2> QED
    BY <1>1, <1>2, <2>2, <2>3, <2>4, FirstChange, Zenon
<1>4. changes' # 0 /\ OneChangeIsSeenWhole'
  BY <1>2 DEF OneChangeIsSeenWhole
<1> QED
  BY <1>1, <1>3, <1>4, Zenon DEF WholeInv

(* IsScaleDownCandidate looks at the cluster in many calls.  If the        *)
(* cluster changes at most once before it is through, the verdict is one   *)
(* that a single look could have given, before or after that change.       *)
THEOREM OneChangeSeenWhole == Spec => []OneChangeIsSeenWhole
<1>1. CountInv /\ WholeInv /\ [Next]_vars => (CountInv /\ WholeInv)'
  <2> SUFFICES ASSUME CountInv, WholeInv, [Next]_vars PROVE CountInv' /\ WholeInv'
    BY Zenon
  <2>1. CountInv'
    BY CountStep
  <2>2. CASE UNCHANGED vars
    <3>1. /\ pc' = pc /\ victim' = victim /\ changes' = changes /\ instantVerdicts' = instantVerdicts
          /\ names' = names /\ nodeInfos' = nodeInfos /\ fetched' = fetched /\ verdict' = verdict
      BY <2>2 DEF vars, vettingVars
    <3>2. /\ Registered' = Registered /\ Now' = Now /\ ClusterNow' = ClusterNow
          /\ \A n : PodsOn(n)' = PodsOn(n) /\ NodeView(n)' = NodeView(n)
      BY <2>2, SameCluster, Zenon DEF vars
    <3>3. InstantVerdict' = InstantVerdict
      BY <3>1, <3>2, Zenon DEF InstantVerdict
    <3>4. (Reading' <=> Reading) /\ Seen' = Seen
      BY <3>1, Zenon DEF Reading, Seen
    <3>5. Agrees(Now) => Agrees(Now)'
      BY <3>1, <3>2, <3>4, Zenon DEF Agrees
    <3>6. ASSUME NEW W, SawWhole(W) PROVE SawWhole(W)'
      <4>1. Agrees(W)' /\ IsView(W)' /\ Verdicts(W)' = Verdicts(W)
        BY <3>1, <3>4, <3>6, Zenon DEF SawWhole, IsView, Verdicts, Agrees
      <4>2. PICK f : f = fetched.name
        OBVIOUS
      <4>3. SpecsOf(PodsOn(f))' = SpecsOf(PodsOn(f))
        BY <3>2, Zenon DEF SpecsOf
      <4>4. RestAgrees(W)'
        BY <3>1, <3>2, <3>6, <4>2, <4>3, Zenon DEF SawWhole, RestAgrees
      <4> QED
        BY <3>1, <3>6, <4>1, <4>4, Zenon DEF SawWhole
    <3> QED
      BY <2>1, <3>1, <3>3, <3>5, <3>6, Zenon DEF WholeInv, OneChangeIsSeenWhole
  <2> QED
    BY <2>1, <2>2, VetSees, ClusterSees, Zenon DEF Next
<1>2. WholeInv => OneChangeIsSeenWhole
  BY DEF WholeInv
<1> QED
  BY CountInit, WholeInit, <1>1, <1>2, PTL DEF Spec
=============================================================================
