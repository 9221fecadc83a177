-------------------------- MODULE CandidateProofs --------------------------
(***************************************************************************)
(* What the vetting of scale-down candidates guarantees, for every         *)
(* cluster, every number of handlers and every bound on the faults: no     *)
(* protected node is touched, only movable pods are evicted, and another   *)
(* worker remains while the first victim is removed.                       *)
(***************************************************************************)
EXTENDS ProxyProofs

(* IsScaleDownCandidate has found that node n may go: it does not have the *)
(* scale-down-disabled annotation, and every pod that was seen on it and   *)
(* has to move is movable.                                                 *)
Vetted(l, n) ==
  /\ ~NodeSpec[n].annotation
  /\ \A p \in l.pods[n] : NonSystemActive(p) => podMobility(PodSpec[p]) = "mobile"

(* Local variables l fit the place label of an operation: candidates are   *)
(* pairs, pairs are workers, every candidate was vetted, the queue is made *)
(* of candidates, and DrainNode evicts pods of the node it drains.         *)
ChoiceFits(label, l) ==
  /\ label = "listWorkerNodes" => l = NoLocals
  /\ label \in {"getMachinePool", "getMachine"} =>
       l.pairs = {} /\ l.unchecked = {} /\ l.victims = {}
  /\ label \in SelectingPC \cup {"setDesiredSize", "panicked"} => l.queue = << >>
  /\ l.unchecked \subseteq l.pairs /\ l.victims \subseteq l.pairs /\ l.pairs \subseteq l.nodes
  /\ \A n \in l.victims : Vetted(l, n)
  /\ \A j \in DOMAIN l.queue : l.queue[j] \in l.victims
  /\ label = "evictPods" => l.evict \subseteq {p \in l.pods[l.queue[l.i]] : NonSystemActive(p)}

(* Whatever has been chosen so far, the operation may give up. *)
LEMMA ChoiceGivesUp ==
  ASSUME NEW label, NEW l, ChoiceFits(label, l)
  PROVE  ChoiceFits("unlock", l)
BY DEF ChoiceFits, SelectingPC

(* An operation begins with nothing chosen. *)
LEMMA NothingChosen == ChoiceFits("listWorkerNodes", NoLocals)
BY DEF ChoiceFits, NoLocals, SelectingPC

(* ListWorkerNodes chooses nothing. *)
LEMMA ListWorkerNodesChoice ==
  ASSUME TypeInv, TypeInv', NEW h \in Handler, ListWorkerNodes(h), ChoiceFits(pc[h], local[h])
  PROVE  ChoiceFits(pc'[h], local'[h])
<1>1. /\ pc[h] = "listWorkerNodes"
      /\ pc'[h] \in {"getMachinePool", "getMachine", "unlock"}
      /\ \/ local'[h] = local[h] /\ pc'[h] = "unlock"
         \/ local'[h] = [local[h] EXCEPT !.nodes = local'[h].nodes, !.pods = local'[h].pods]
  BY ListWorkerNodesEffect, Zenon
<1>2. CASE local'[h] = local[h] /\ pc'[h] = "unlock"
  BY <1>2, ChoiceGivesUp
<1>3. CASE local'[h] = [local[h] EXCEPT !.nodes = local'[h].nodes, !.pods = local'[h].pods]
  <2>1. local[h] = NoLocals
    BY <1>1 DEF ChoiceFits
  <2>2. local[h] \in LocalType
    BY DEF TypeInv, TypeOK
  <2>3. /\ local'[h].pairs = local[h].pairs /\ local'[h].unchecked = local[h].unchecked
        /\ local'[h].victims = local[h].victims /\ local'[h].queue = local[h].queue
    BY <1>3, <2>2, Zenon DEF LocalType
  <2>4. /\ local'[h].pairs = {} /\ local'[h].unchecked = {}
        /\ local'[h].victims = {} /\ local'[h].queue = << >>
    BY <2>1, <2>3 DEF NoLocals
  <2> QED
    BY <1>1, <2>4 DEF ChoiceFits
<1> QED
  BY <1>1, <1>2, <1>3

(* GetMachinePool pairs workers with machines. *)
LEMMA GetMachinePoolChoice ==
  ASSUME TypeInv, TypeInv', NEW h \in Handler, GetMachinePool(h), ChoiceFits(pc[h], local[h])
  PROVE  ChoiceFits(pc'[h], local'[h])
<1>1. /\ pc[h] = "getMachinePool"
      /\ \/ local'[h] = local[h] /\ pc'[h] = "unlock"
         \/ /\ local'[h] = [local[h] EXCEPT !.pairs = local'[h].pairs,
                                            !.unchecked = local'[h].pairs,
                                            !.evictable = local'[h].evictable]
            /\ \A n \in local'[h].pairs : n \in local[h].nodes
            /\ pc'[h] \in {"setDesiredSize", "checkCandidates"}
  BY GetMachinePoolEffect, Zenon DEF GivesUp
<1>2. CASE local'[h] = local[h] /\ pc'[h] = "unlock"
  BY <1>2, ChoiceGivesUp
<1>3. CASE /\ local'[h] = [local[h] EXCEPT !.pairs = local'[h].pairs,
                                           !.unchecked = local'[h].pairs,
                                           !.evictable = local'[h].evictable]
           /\ \A n \in local'[h].pairs : n \in local[h].nodes
           /\ pc'[h] \in {"setDesiredSize", "checkCandidates"}
  <2>1. local[h].victims = {} /\ local[h].queue = << >>
    BY <1>1 DEF ChoiceFits, SelectingPC
  <2>2. local[h] \in LocalType
    BY DEF TypeInv, TypeOK
  <2>3. /\ local'[h].nodes = local[h].nodes /\ local'[h].unchecked = local'[h].pairs
        /\ local'[h].victims = local[h].victims /\ local'[h].queue = local[h].queue
    BY <1>3, <2>2, Zenon DEF LocalType
  <2>4. \A n \in local'[h].pairs : n \in local[h].nodes
    BY <1>3
  <2>5. pc'[h] \in {"setDesiredSize", "checkCandidates"}
    BY <1>3
  <2> QED
    BY <2>1, <2>3, <2>4, <2>5 DEF ChoiceFits
<1> QED
  BY <1>1, <1>2, <1>3

(* GetMachine pairs the node with its machine. *)
LEMMA GetMachineChoice ==
  ASSUME TypeInv, TypeInv', NEW h \in Handler, GetMachine(h), ChoiceFits(pc[h], local[h])
  PROVE  ChoiceFits(pc'[h], local'[h])
<1>1. /\ pc[h] = "getMachine"
      /\ \/ local'[h] = local[h] /\ pc'[h] = "unlock"
         \/ \E n \in local[h].nodes :
              /\ local'[h] = [local[h] EXCEPT !.pairs = {n}, !.unchecked = {n},
                                              !.evictable = local'[h].evictable]
              /\ pc'[h] = "checkCandidates"
  BY GetMachineEffect, Zenon DEF GivesUp
<1>2. CASE local'[h] = local[h] /\ pc'[h] = "unlock"
  BY <1>2, ChoiceGivesUp
<1>3. ASSUME NEW n \in local[h].nodes,
             local'[h] = [local[h] EXCEPT !.pairs = {n}, !.unchecked = {n},
                                          !.evictable = local'[h].evictable],
             pc'[h] = "checkCandidates"
      PROVE  ChoiceFits(pc'[h], local'[h])
  <2>1. local[h].victims = {} /\ local[h].queue = << >>
    BY <1>1, Zenon DEF ChoiceFits, SelectingPC
  <2>2. local[h] \in LocalType
    BY DEF TypeInv, TypeOK
  <2>3. /\ local'[h].nodes = local[h].nodes /\ local'[h].unchecked = {n} /\ local'[h].pairs = {n}
        /\ local'[h].victims = local[h].victims /\ local'[h].queue = local[h].queue
    BY <1>3, <2>2, Zenon DEF LocalType
  <2>4. pc'[h] = "checkCandidates"
    BY <1>3
  <2> QED
    BY <2>1, <2>3, <2>4 DEF ChoiceFits
<1> QED
  BY <1>1, <1>2, <1>3, Zenon

(* The pods that IsScaleDownCandidate looks at are those of the snapshot,  *)
(* so a node that it accepts is vetted.                                    *)
LEMMA CandidateIsVetted ==
  ASSUME NEW h \in Handler, NEW n \in Node,
         "candidate" \in IsScaleDownCandidate(Snapshot(h, n), getNodeInfos, PDBs)
  PROVE  /\ Vetted(local[h], n)
         /\ \E m \in Node : IsDestination(n, m)
<1> DEFINE s == Snapshot(h, n)
<1>1. /\ s.annotation = NodeSpec[n].annotation /\ s.name = n
      /\ s.pods = {PodSpec[p] : p \in local[h].pods[n]}
  BY DEF Snapshot, NodeInfoWith
<1> HIDE DEF s
<1>2. /\ ~s.annotation
      /\ \A p \in podsToEvacuate(s) : podMobility(p) = "mobile"
      /\ \E m \in getNodeInfos : /\ ~isMasterNode(m) /\ m.name # s.name
                                 /\ isNodeReady(m) /\ isNodeSchedulable(m)
  BY CandidateFacts DEF s
<1>3. Vetted(local[h], n)
  BY <1>1, <1>2 DEF Vetted, podsToEvacuate, NonSystemActive
<1>4. PICK m \in Node : /\ nodeState[m] = "registered" /\ ~isMasterNode(getNodeInfo(m))
                        /\ getNodeInfo(m).name # n
                        /\ isNodeReady(getNodeInfo(m)) /\ isNodeSchedulable(getNodeInfo(m))
  BY <1>1, <1>2 DEF getNodeInfos, Registered
<1>5. /\ getNodeInfo(m).name = m /\ getNodeInfo(m).ready = NodeSpec[m].ready
      /\ getNodeInfo(m).unschedulable = NodeSpec[m].unschedulable
  BY DEF getNodeInfo, NodeInfoWith
<1>6. IsDestination(n, m)
  BY <1>4, <1>5 DEF IsDestination, isNodeReady, isNodeSchedulable
<1> QED
  BY <1>3, <1>6

(* A node is Vetted against the pods that were seen on it. *)
LEMMA VettedPods ==
  ASSUME NEW k, NEW l, NEW n, l.pods = k.pods, Vetted(k, n)
  PROVE  Vetted(l, n)
BY DEF Vetted

(* partitionScaleDownCandidates accepts vetted nodes only. *)
LEMMA CheckCandidateChoice ==
  ASSUME TypeInv, TypeInv', NEW h \in Handler, CheckCandidate(h), ChoiceFits(pc[h], local[h])
  PROVE  ChoiceFits(pc'[h], local'[h])
<1>1. /\ pc[h] = "checkCandidates"
      /\ \/ local'[h] = local[h] /\ pc'[h] = "panicked"
         \/ /\ pc'[h] = "checkCandidates"
            /\ \E n \in local[h].unchecked :
                 \/ local'[h] = [local[h] EXCEPT !.unchecked = @ \ {n}]
                 \/ /\ local'[h] = [local[h] EXCEPT !.unchecked = @ \ {n},
                                                    !.victims = @ \cup {n}]
                    /\ "candidate" \in IsScaleDownCandidate(Snapshot(h, n), getNodeInfos, PDBs)
  BY CheckCandidateEffect, Zenon
<1>2. CASE local'[h] = local[h] /\ pc'[h] = "panicked"
  BY <1>1, <1>2 DEF ChoiceFits, SelectingPC
<1>3. ASSUME NEW n \in local[h].unchecked, pc'[h] = "checkCandidates",
             \/ local'[h] = [local[h] EXCEPT !.unchecked = @ \ {n}]
             \/ /\ local'[h] = [local[h] EXCEPT !.unchecked = @ \ {n}, !.victims = @ \cup {n}]
                /\ "candidate" \in IsScaleDownCandidate(Snapshot(h, n), getNodeInfos, PDBs)
      PROVE  ChoiceFits(pc'[h], local'[h])
  <2>1. local[h] \in LocalType /\ n \in Node
    BY Zenon DEF TypeInv, TypeOK, LocalType
  <2>2. /\ local'[h].nodes = local[h].nodes /\ local'[h].pods = local[h].pods
        /\ local'[h].pairs = local[h].pairs /\ local'[h].queue = local[h].queue
        /\ local'[h].unchecked = local[h].unchecked \ {n}
    BY <1>3, <2>1, Zenon DEF LocalType
  <2>3. \/ local'[h].victims = local[h].victims
        \/ /\ local'[h].victims = local[h].victims \cup {n}
           /\ "candidate" \in IsScaleDownCandidate(Snapshot(h, n), getNodeInfos, PDBs)
    <3>1. CASE local'[h] = [local[h] EXCEPT !.unchecked = @ \ {n}]
      BY <2>1, <3>1 DEF LocalType
    <3>2. CASE local'[h] = [local[h] EXCEPT !.unchecked = @ \ {n}, !.victims = @ \cup {n}]
      <4>1. local'[h].victims = local[h].victims \cup {n}
        BY <2>1, <3>2 DEF LocalType
      <4>2. CASE "candidate" \in IsScaleDownCandidate(Snapshot(h, n), getNodeInfos, PDBs)
        BY <4>1, <4>2, Zenon
      <4>3. CASE local'[h] = [local[h] EXCEPT !.unchecked = @ \ {n}]
        BY <2>1, <4>3 DEF LocalType
      <4> QED
        BY <1>3, <4>2, <4>3, Zenon
    <3> QED
      BY <1>3, <3>1, <3>2, Zenon
  <2>4. \A m \in local'[h].victims : Vetted(local[h], m)
    BY <1>1, <2>1, <2>3, CandidateIsVetted, Zenon DEF ChoiceFits
  <2>5. \A m \in local'[h].victims : Vetted(local'[h], m)
    BY <2>2, <2>4, VettedPods
  <2>6. /\ local'[h].victims \subseteq local[h].pairs
        /\ \A j \in DOMAIN local[h].queue : local[h].queue[j] \in local'[h].victims
    <3>1. local[h].victims \subseteq local'[h].victims /\ local'[h].victims \subseteq local[h].victims \cup {n}
      BY <2>3, Zenon
    <3>2. n \in local[h].pairs /\ local[h].victims \subseteq local[h].pairs
          /\ \A j \in DOMAIN local[h].queue : local[h].queue[j] \in local[h].victims
      BY <1>1, Zenon DEF ChoiceFits
    <3> QED
      BY <3>1, <3>2, Zenon
  <2>7. /\ local[h].queue = << >> /\ local[h].pairs \subseteq local[h].nodes
        /\ local[h].unchecked \subseteq local[h].pairs /\ pc'[h] = "checkCandidates"
    BY <1>1, <1>3, Zenon DEF ChoiceFits, SelectingPC
  <2> HIDE DEF Vetted
  <2> QED
    BY <2>2, <2>5, <2>6, <2>7 DEF ChoiceFits
<1> QED
  BY <1>1, <1>2, <1>3, Zenon

(* The queue consists of candidates. *)
LEMMA SelectVictimsChoice ==
  ASSUME TypeInv, TypeInv', NEW h \in Handler, SelectVictims(h), ChoiceFits(pc[h], local[h])
  PROVE  ChoiceFits(pc'[h], local'[h])
<1>1. /\ pc[h] = "checkCandidates"
      /\ \/ local'[h] = local[h] /\ pc'[h] = "unlock"
         \/ /\ local'[h] = [local[h] EXCEPT !.queue = local'[h].queue]
            /\ \A j \in DOMAIN local'[h].queue : local'[h].queue[j] \in local[h].victims
            /\ pc'[h] = "markUnschedulable"
  BY SelectVictimsEffect, Zenon DEF GivesUp
<1>2. CASE local'[h] = local[h] /\ pc'[h] = "unlock"
  BY <1>2, ChoiceGivesUp
<1>3. CASE /\ local'[h] = [local[h] EXCEPT !.queue = local'[h].queue]
           /\ \A j \in DOMAIN local'[h].queue : local'[h].queue[j] \in local[h].victims
           /\ pc'[h] = "markUnschedulable"
  <2>1. local[h] \in LocalType
    BY DEF TypeInv, TypeOK
  <2>2. /\ local'[h].nodes = local[h].nodes /\ local'[h].pods = local[h].pods
        /\ local'[h].pairs = local[h].pairs /\ local'[h].unchecked = local[h].unchecked
        /\ local'[h].victims = local[h].victims
    BY <1>3, <2>1 DEF LocalType
  <2>3. \A j \in DOMAIN local'[h].queue : local'[h].queue[j] \in local[h].victims
    BY <1>3, Zenon
  <2>4. \A n \in local'[h].victims : Vetted(local'[h], n)
    BY <2>2, VettedPods DEF ChoiceFits
  <2> QED
    BY <1>3, <2>2, <2>3, <2>4, Zenon DEF ChoiceFits, SelectingPC
<1> QED
  BY <1>1, <1>2, <1>3

(* A step of evictAndTerminate changes nothing in the choice. *)
LEMMA ChoiceKept ==
  ASSUME NEW h \in Handler, ChoiceFits(pc[h], local[h]), KeepsVictims(h),
         pc'[h] \in RemovingPC \cup {"unlock"},
         pc'[h] = "evictPods" =>
           /\ local'[h].i = local[h].i
           /\ local'[h].evict \subseteq
                {p \in local[h].pods[local[h].queue[local[h].i]] : NonSystemActive(p)}
  PROVE  ChoiceFits(pc'[h], local'[h])
<1>1. \A n \in local'[h].victims : Vetted(local'[h], n)
  BY VettedPods DEF ChoiceFits, KeepsVictims
<1>2. pc'[h] \notin SelectingPC \cup {"setDesiredSize", "panicked"}
  BY DEF RemovingPC, SelectingPC
<1>3. pc'[h] \notin {"listWorkerNodes", "getMachinePool", "getMachine"}
  BY DEF RemovingPC
<1> QED
  BY <1>1, <1>2, <1>3, Zenon DEF ChoiceFits, KeepsVictims

(* Every step of an operation keeps the choice sound. *)
LEMMA ChoiceStep ==
  ASSUME TypeInv, TypeInv', NEW h \in Handler, Operation(h), ChoiceFits(pc[h], local[h])
  PROVE  ChoiceFits(pc'[h], local'[h])
<1>1. CASE MarkUnschedulable(h)
  <2>1. podsToDrain(h) = {p \in local[h].pods[local[h].queue[local[h].i]] : NonSystemActive(p)}
    BY DEF podsToDrain, victim, NonSystemActive
  <2>2. /\ KeepsVictims(h) /\ local'[h].i = local[h].i
        /\ \/ local'[h].evict = podsToDrain(h) /\ pc'[h] \in {"deleteNode", "evictPods"}
           \/ pc'[h] = "unlock"
    BY <1>1, MarkUnschedulableEffect DEF GivesUp
  <2>3. pc'[h] \in RemovingPC \cup {"unlock"}
    BY <2>2 DEF RemovingPC
  <2> QED
    BY <2>1, <2>2, <2>3, ChoiceKept, Zenon
<1>2. CASE EvictOnePod(h)
  <2>1. /\ KeepsVictims(h) /\ local'[h].i = local[h].i /\ pc[h] = "evictPods"
        /\ local'[h].evict \subseteq local[h].evict
        /\ pc'[h] \in {"deleteNode", "evictPods", "markSchedulable"}
    BY <1>2, EvictOnePodEffect
  <2>2. pc'[h] \in RemovingPC \cup {"unlock"}
    BY <2>1 DEF RemovingPC
  <2>3. local[h].evict \subseteq {p \in local[h].pods[local[h].queue[local[h].i]] : NonSystemActive(p)}
    BY <2>1 DEF ChoiceFits
  <2> QED
    BY <2>1, <2>2, <2>3, ChoiceKept
<1>3. CASE MarkSchedulable(h)
  BY <1>3, MarkSchedulableEffect, ChoiceGivesUp DEF GivesUp
<1>4. CASE DeleteNode(h)
  <2>1. local'[h] = local[h] /\ pc'[h] \in {"terminateMachine", "unlock"}
    BY <1>4, DeleteNodeEffect DEF GivesUp
  <2>2. pc'[h] \in RemovingPC \cup {"unlock"}
    BY <2>1 DEF RemovingPC
  <2> QED
    BY <2>1, <2>2, ChoiceKept DEF KeepsVictims
<1>5. CASE TerminateMachine(h)
  <2>1. KeepsVictims(h) /\ pc'[h] \in {"markUnschedulable", "unlock"}
    BY <1>5, TerminateMachineEffect DEF GivesUp
  <2>2. pc'[h] \in RemovingPC \cup {"unlock"}
    BY <2>1 DEF RemovingPC
  <2> QED
    BY <2>1, <2>2, ChoiceKept
<1>6. CASE SetDesiredSize(h)
  BY <1>6, SetDesiredSizeEffect, ChoiceGivesUp
<1> QED
  BY <1>1, <1>2, <1>3, <1>4, <1>5, <1>6, ListWorkerNodesChoice, GetMachinePoolChoice,
     GetMachineChoice, CheckCandidateChoice, SelectVictimsChoice DEF Operation

-----------------------------------------------------------------------------
(* The invariant.                                                          *)

(* The nodes that an operation knows are workers. *)
ListsWorkers(h) == \A n \in local[h].nodes : ~IsMaster(n)

(* Every candidate had a destination for its pods when it was vetted, and  *)
(* the first victim has one all the time.                                  *)
HasDestination(h) ==
  /\ pc[h] = "checkCandidates" =>
       \A n \in local[h].victims : \E m \in Node : IsDestination(n, m)
  /\ Removing(h) /\ local[h].i = 1 => \E m \in Node : IsDestination(victim(h), m)

OperationsAreVetted ==
  \A h \in Handler : pc[h] \in UpdatingPC =>
    ChoiceFits(pc[h], local[h]) /\ ListsWorkers(h) /\ HasDestination(h)

(* A node that was tainted or deleted is not protected. *)
Unprotected(n) == ~NodeSpec[n].annotation /\ ~IsMaster(n)
TouchedAreUnprotected ==
  \A n \in Node : n \in tainted \/ nodeState[n] = "deleted" => Unprotected(n)

CandidateInv ==
  /\ OperationsAreVetted
  /\ TouchedAreUnprotected
  /\ EvictedPodsAreMovable


(* Pods of the API server are not bound by the scheduler, so that a worker *)
(* remains one.                                                            *)
LEMMA WorkersStayWorkers ==
  ASSUME TypeInv, ClusterRuns \/ UNCHANGED host, NEW n \in Node, ~IsMaster(n)
  PROVE  ~IsMaster(n)'
<1>1. n # NoNode
  BY NoNodeAssumption
<1>2. \A p \in Pod : \/ host'[p] = host[p] \/ host'[p] = NoNode
                     \/ ~isAPIServerPod(PodSpec[p], host'[p])
  BY DEF ClusterRuns
<1> QED
  BY <1>1, <1>2 DEF IsMaster

(* A destination remains one unless it is deleted. *)
LEMMA DestinationStays ==
  ASSUME TypeInv, TypeInv', ClusterRuns \/ UNCHANGED host,
         NEW n, NEW m \in Node, IsDestination(n, m),
         \/ nodeState'[m] = nodeState[m]
         \/ nodeState[m] = "registered" /\ nodeState'[m] = "vanished"
  PROVE  IsDestination(n, m)'
<1>1. ~IsMaster(m) \/ nodeState[m] = "vanished"
  BY MasterNode DEF IsDestination
<1>2. ~IsMaster(m)' \/ nodeState'[m] = "vanished"
  BY <1>1, WorkersStayWorkers
<1>3. ~isMasterNode(getNodeInfo(m))' \/ nodeState'[m] = "vanished"
  BY <1>2, MasterNode
<1> QED
  BY <1>3 DEF IsDestination

(* The cluster deletes no node and taints none, so it touches no protected *)
(* node, and it evicts no pods.                                            *)
LEMMA ClusterTouchesNothing ==
  ASSUME TypeInv, ClusterRuns, TouchedAreUnprotected, EvictedPodsAreMovable
  PROVE  TouchedAreUnprotected' /\ EvictedPodsAreMovable'
<1>1. ASSUME NEW n \in Node, n \in tainted' \/ nodeState'[n] = "deleted"
      PROVE  Unprotected(n)'
  <2>1. n \in tainted \/ nodeState[n] = "deleted"
    BY <1>1 DEF ClusterRuns
  <2>2. Unprotected(n)
    BY <2>1 DEF TouchedAreUnprotected
  <2> QED
    BY <2>2, WorkersStayWorkers DEF Unprotected
<1>2. EvictedPodsAreMovable'
  BY DEF ClusterRuns, EvictedPodsAreMovable
<1> QED
  BY <1>1, <1>2 DEF TouchedAreUnprotected

(* What goes on outside an operation does not disturb it. *)
LEMMA OutsideCandidateInv ==
  ASSUME TypeInv, TypeInv', CandidateInv, Outside
  PROVE  CandidateInv'
<1>1. ClusterRuns
  BY DEF Outside
<1>2. TouchedAreUnprotected' /\ EvictedPodsAreMovable'
  BY <1>1, ClusterTouchesNothing DEF CandidateInv
<1>3. ASSUME NEW g \in Handler, pc'[g] \in UpdatingPC
      PROVE  ChoiceFits(pc'[g], local'[g]) /\ ListsWorkers(g)' /\ HasDestination(g)'
  <2>1. CASE pc'[g] = "listWorkerNodes" /\ local'[g] = NoLocals
    <3>1. ChoiceFits(pc'[g], local'[g])
      BY <2>1, NothingChosen
    <3>2. ListsWorkers(g)' /\ HasDestination(g)'
      BY <2>1 DEF ListsWorkers, HasDestination, Removing, RemovingPC, NoLocals
    <3> QED
      BY <3>1, <3>2
  <2>2. CASE Waits(g)
    <3>1. pc[g] \in UpdatingPC /\ pc'[g] = pc[g] /\ local'[g] = local[g]
      BY <1>3, <2>2 DEF Waits
    <3>2. ChoiceFits(pc[g], local[g]) /\ ListsWorkers(g) /\ HasDestination(g)
      BY <3>1 DEF CandidateInv, OperationsAreVetted
    <3>3. ListsWorkers(g)'
      <4>1. local[g].nodes \subseteq Node
        BY DEF TypeInv, TypeOK, LocalType
      <4> QED
        BY <1>1, <3>1, <3>2, <4>1, WorkersStayWorkers DEF ListsWorkers
    <3>4. ASSUME NEW n, NEW m \in Node, IsDestination(n, m) PROVE IsDestination(n, m)'
      <4>1. \/ nodeState'[m] = nodeState[m]
            \/ nodeState[m] = "registered" /\ nodeState'[m] = "vanished"
        BY <1>1, <3>4 DEF ClusterRuns, IsDestination
      <4> QED
        BY <1>1, <3>4, <4>1, DestinationStays
    <3>5. victim(g)' = victim(g) /\ (Removing(g)' <=> Removing(g))
      BY <3>1 DEF victim, Removing
    <3>6. HasDestination(g)'
      BY <3>1, <3>2, <3>4, <3>5 DEF HasDestination
    <3> QED
      BY <3>1, <3>2, <3>3, <3>6
  <2> QED
    BY <1>3, <2>1, <2>2 DEF Outside
<1> QED
  BY <1>2, <1>3 DEF CandidateInv, OperationsAreVetted

(* A step of an operation keeps the invariant if it does so for the        *)
(* operation itself and for the nodes and pods.                            *)
LEMMA OperationCandidateInv ==
  ASSUME TypeInv, TypeInv', CandidateInv, NEW h \in Handler, Operation(h),
         pc'[h] \in UpdatingPC => ListsWorkers(h)' /\ HasDestination(h)',
         TouchedAreUnprotected', EvictedPodsAreMovable'
  PROVE  CandidateInv'
<1>1. ChoiceFits(pc[h], local[h])
  BY OperationAlone DEF CandidateInv, OperationsAreVetted
<1>2. ChoiceFits(pc'[h], local'[h])
  BY <1>1, ChoiceStep
<1>3. \A g \in Handler : pc'[g] \in UpdatingPC => g = h
  BY OperationAlone
<1> QED
  BY <1>2, <1>3 DEF CandidateInv, OperationsAreVetted

(* A step of an operation that does not delete a node other than its       *)
(* victim keeps the destinations; a step that only reads touches no node.  *)
LEMMA ReadOnly ==
  ASSUME TypeInv, TypeInv', CandidateInv, UNCHANGED kubeVars
  PROVE  TouchedAreUnprotected' /\ EvictedPodsAreMovable'
BY ClusterRests, ClusterTouchesNothing DEF CandidateInv

(* The steps before the removal.                                           *)
LEMMA SelectingCandidateInv ==
  ASSUME TypeInv, TypeInv', CandidateInv, NEW h \in Handler,
         \/ ListWorkerNodes(h) \/ GetMachinePool(h) \/ GetMachine(h)
         \/ CheckCandidate(h) \/ SelectVictims(h) \/ SetDesiredSize(h)
  PROVE  CandidateInv'
<1>1. Operation(h) /\ pc[h] \in UpdatingPC
  BY OperationAlone DEF Operation
<1>2. ChoiceFits(pc[h], local[h]) /\ ListsWorkers(h) /\ HasDestination(h)
  BY <1>1 DEF CandidateInv, OperationsAreVetted
<1>3. local[h] \in LocalType
  BY DEF TypeInv, TypeOK
<1>4. ASSUME UNCHANGED kubeVars, local'[h].nodes = local[h].nodes
      PROVE  ListsWorkers(h)'
  <2>1. local[h].nodes \subseteq Node
    BY <1>3 DEF LocalType
  <2> QED
    BY <1>2, <1>4, <2>1, WorkersStayWorkers DEF ListsWorkers, kubeVars
<1>5. ASSUME UNCHANGED kubeVars, NEW n, NEW m \in Node, IsDestination(n, m)
      PROVE  IsDestination(n, m)'
  BY <1>5, DestinationStays DEF kubeVars
<1>6. ASSUME pc'[h] \notin RemovingPC \cup {"checkCandidates"} PROVE HasDestination(h)'
  BY <1>6 DEF HasDestination, Removing
<1>7. CASE ListWorkerNodes(h)
  <2>1. /\ UNCHANGED kubeVars /\ pc'[h] \in {"getMachinePool", "getMachine", "unlock"}
        /\ \/ local'[h] = local[h]
           \/ \A n \in local'[h].nodes : n \in Registered /\ ~isMasterNode(getNodeInfo(n))
    BY <1>7, ListWorkerNodesEffect, Zenon
  <2>2. ListsWorkers(h)'
    <3>1. CASE local'[h] = local[h]
      BY <1>4, <2>1, <3>1
    <3>2. CASE \A n \in local'[h].nodes : n \in Registered /\ ~isMasterNode(getNodeInfo(n))
      <4>1. \A n \in local'[h].nodes : n \in Node /\ ~IsMaster(n)
        BY <3>2, MasterNode DEF Registered
      <4> QED
        BY <2>1, <4>1, WorkersStayWorkers DEF ListsWorkers, kubeVars
    <3> QED
      BY <2>1, <3>1, <3>2
  <2> QED
    BY <1>1, <1>6, <2>1, <2>2, ReadOnly, OperationCandidateInv DEF RemovingPC
<1>8. CASE GetMachinePool(h)
  <2>1. UNCHANGED kubeVars /\ local[h].victims = {}
    BY <1>2, <1>8, GetMachinePoolEffect, Zenon DEF ChoiceFits
  <2>2. /\ \/ local'[h] = local[h] /\ pc'[h] = "unlock"
           \/ /\ local'[h] = [local[h] EXCEPT !.pairs = local'[h].pairs,
                                              !.unchecked = local'[h].pairs,
                                              !.evictable = local'[h].evictable]
              /\ pc'[h] \in {"setDesiredSize", "checkCandidates"}
    BY <1>8, GetMachinePoolEffect, Zenon DEF GivesUp
  <2>3. local'[h].nodes = local[h].nodes /\ local'[h].victims = local[h].victims
    <3>1. CASE local'[h] = [local[h] EXCEPT !.pairs = local'[h].pairs,
                                            !.unchecked = local'[h].pairs,
                                            !.evictable = local'[h].evictable]
      BY <1>3, <3>1, Zenon DEF LocalType
    <3> QED
      BY <2>2, <3>1, Zenon
  <2>4. pc'[h] \notin RemovingPC
    BY <2>2, Zenon DEF RemovingPC
  <2>5. HasDestination(h)'
    BY <2>1, <2>3, <2>4 DEF HasDestination, Removing
  <2> QED
    BY <1>1, <1>4, <2>1, <2>3, <2>5, ReadOnly, OperationCandidateInv
<1>9. CASE GetMachine(h)
  <2>1. UNCHANGED kubeVars /\ local[h].victims = {}
    BY <1>2, <1>9, GetMachineEffect, Zenon DEF ChoiceFits
  <2>2. /\ \/ local'[h] = local[h] /\ pc'[h] = "unlock"
           \/ \E n \in local[h].nodes :
                /\ local'[h] = [local[h] EXCEPT !.pairs = {n}, !.unchecked = {n},
                                                !.evictable = local'[h].evictable]
                /\ pc'[h] = "checkCandidates"
    BY <1>9, GetMachineEffect, Zenon DEF GivesUp
  <2>3. local'[h].nodes = local[h].nodes /\ local'[h].victims = local[h].victims
    <3>1. ASSUME NEW n \in local[h].nodes,
                 local'[h] = [local[h] EXCEPT !.pairs = {n}, !.unchecked = {n},
                                              !.evictable = local'[h].evictable]
          PROVE  local'[h].nodes = local[h].nodes /\ local'[h].victims = local[h].victims
      BY <1>3, <3>1, Zenon DEF LocalType
    <3> QED
      BY <2>2, <3>1, Zenon
  <2>4. pc'[h] \notin RemovingPC
    BY <2>2, Zenon DEF RemovingPC
  <2>5. HasDestination(h)'
    BY <2>1, <2>3, <2>4 DEF HasDestination, Removing
  <2> QED
    BY <1>1, <1>4, <2>1, <2>3, <2>5, ReadOnly, OperationCandidateInv
<1>10. CASE SetDesiredSize(h)
  <2>1. UNCHANGED kubeVars /\ local'[h] = local[h] /\ pc'[h] = "unlock"
    BY <1>10, SetDesiredSizeEffect
  <2> QED
    BY <1>1, <1>4, <1>6, <2>1, ReadOnly, OperationCandidateInv DEF RemovingPC
<1>11. CASE CheckCandidate(h)
  <2>1. UNCHANGED kubeVars /\ pc[h] = "checkCandidates"
    BY <1>11, CheckCandidateEffect, Zenon
  <2>2. \/ local'[h] = local[h] /\ pc'[h] = "panicked"
        \/ /\ pc'[h] = "checkCandidates"
           /\ \E n \in local[h].unchecked :
                \/ local'[h] = [local[h] EXCEPT !.unchecked = @ \ {n}]
                \/ /\ local'[h] = [local[h] EXCEPT !.unchecked = @ \ {n},
                                                   !.victims = @ \cup {n}]
                   /\ "candidate" \in IsScaleDownCandidate(Snapshot(h, n), getNodeInfos, PDBs)
    BY <1>11, CheckCandidateEffect, Zenon
  <2>3. CASE local'[h] = local[h] /\ pc'[h] = "panicked"
    BY <1>1, <1>4, <1>6, <2>1, <2>3, ReadOnly, OperationCandidateInv DEF RemovingPC
  <2>4. ASSUME pc'[h] = "checkCandidates", NEW n \in local[h].unchecked,
               local'[h] = [local[h] EXCEPT !.unchecked = @ \ {n}]
        PROVE  CandidateInv'
    <3>1. local'[h].nodes = local[h].nodes /\ local'[h].victims = local[h].victims
      BY <1>3, <2>4 DEF LocalType
    <3>2. pc'[h] = "checkCandidates" /\ pc'[h] \notin RemovingPC
      BY <2>4 DEF RemovingPC
    <3>3. HasDestination(h)'
      BY <1>2, <1>5, <2>1, <3>1, <3>2 DEF HasDestination, Removing
    <3> QED
      BY <1>1, <1>4, <2>1, <3>1, <3>3, ReadOnly, OperationCandidateInv, Zenon
  <2>5. ASSUME pc'[h] = "checkCandidates", NEW n \in local[h].unchecked,
               local'[h] = [local[h] EXCEPT !.unchecked = @ \ {n}, !.victims = @ \cup {n}],
               "candidate" \in IsScaleDownCandidate(Snapshot(h, n), getNodeInfos, PDBs)
        PROVE  CandidateInv'
    <3>1. /\ local'[h].nodes = local[h].nodes /\ local'[h].victims = local[h].victims \cup {n}
          /\ n \in Node
      BY <1>3, <2>5 DEF LocalType
    <3>2. pc'[h] = "checkCandidates" /\ pc'[h] \notin RemovingPC
      BY <2>5 DEF RemovingPC
    <3>3. \E m \in Node : IsDestination(n, m)
      BY <2>5, <3>1, CandidateIsVetted
    <3>4. HasDestination(h)'
      BY <1>2, <1>5, <2>1, <3>1, <3>2, <3>3 DEF HasDestination, Removing
    <3> QED
      BY <1>1, <1>4, <2>1, <3>1, <3>4, ReadOnly, OperationCandidateInv, Zenon
  <2> QED
    BY <2>2, <2>3, <2>4, <2>5, Zenon
<1>12. CASE SelectVictims(h)
  <2>1. UNCHANGED kubeVars /\ pc[h] = "checkCandidates"
    BY <1>12, SelectVictimsEffect, Zenon
  <2>2. \/ local'[h] = local[h] /\ pc'[h] = "unlock"
        \/ /\ local'[h] = [local[h] EXCEPT !.queue = local'[h].queue]
           /\ local[h].i = 1 /\ local'[h].queue \in Seq(Node) /\ local'[h].queue # << >>
           /\ \A j \in DOMAIN local'[h].queue : local'[h].queue[j] \in local[h].victims
           /\ pc'[h] = "markUnschedulable"
    BY <1>12, SelectVictimsEffect, Zenon DEF GivesUp
  <2>3. CASE local'[h] = local[h] /\ pc'[h] = "unlock"
    BY <1>1, <1>4, <1>6, <2>1, <2>3, ReadOnly, OperationCandidateInv, Zenon DEF RemovingPC
  <2>4. CASE /\ local'[h] = [local[h] EXCEPT !.queue = local'[h].queue]
             /\ local[h].i = 1 /\ local'[h].queue \in Seq(Node) /\ local'[h].queue # << >>
             /\ \A j \in DOMAIN local'[h].queue : local'[h].queue[j] \in local[h].victims
             /\ pc'[h] = "markUnschedulable"
    <3>1. local'[h].nodes = local[h].nodes /\ local'[h].i = 1
      BY <1>3, <2>4 DEF LocalType
    <3>2. 1 \in DOMAIN local'[h].queue
      BY <2>4
    <3>3. victim(h)' \in local[h].victims
      BY <2>4, <3>1, <3>2, Zenon DEF victim
    <3>4. \E m \in Node : IsDestination(victim(h)', m)
      BY <1>2, <2>1, <3>3 DEF HasDestination
    <3>5. \E m \in Node : IsDestination(victim(h), m)'
      BY <1>5, <2>1, <3>4
    <3>6. HasDestination(h)'
      BY <2>4, <3>5, Zenon DEF HasDestination
    <3> QED
      BY <1>1, <1>4, <2>1, <3>1, <3>6, ReadOnly, OperationCandidateInv, Zenon
  <2> QED
    BY <2>2, <2>3, <2>4, Zenon
<1> QED
  BY <1>7, <1>8, <1>9, <1>10, <1>11, <1>12

(* The victim of a removal was vetted and is not protected. *)
LEMMA VictimIsVetted ==
  ASSUME TypeInv, CandidateInv, NEW h \in Handler, pc[h] \in RemovingPC
  PROVE  Unprotected(victim(h)) /\ Vetted(local[h], victim(h))
<1>1. pc[h] \in UpdatingPC
  BY DEF RemovingPC, UpdatingPC, PC
<1>2. ChoiceFits(pc[h], local[h]) /\ ListsWorkers(h)
  BY <1>1 DEF CandidateInv, OperationsAreVetted
<1>3. local[h].i \in DOMAIN local[h].queue
  <2>1. local[h].queue \in Seq(Node)
    BY DEF TypeInv, TypeOK, LocalType
  <2> QED
    BY <2>1, VictimType
<1>4. victim(h) \in local[h].victims /\ victim(h) \in local[h].nodes
  BY <1>2, <1>3 DEF ChoiceFits, victim
<1> QED
  BY <1>2, <1>4 DEF ChoiceFits, Vetted, ListsWorkers, Unprotected

(* A step of evictAndTerminate that touches no node but its victim, and no *)
(* pods but movable ones, keeps the invariant.                             *)
LEMMA RemovingCandidateInv ==
  ASSUME TypeInv, TypeInv', CandidateInv, NEW h \in Handler, Operation(h),
         pc[h] \in RemovingPC, pc'[h] \in RemovingPC \cup {"unlock"},
         KeepsVictims(h), UNCHANGED host,
         \A n \in Node \ {victim(h)} :
           nodeState'[n] = nodeState[n] /\ (n \in tainted' => n \in tainted),
         local'[h].i = local[h].i \/ local'[h].i # 1,
         EvictedPodsAreMovable'
  PROVE  CandidateInv'
<1>1. ListsWorkers(h) /\ HasDestination(h)
  BY OperationAlone DEF CandidateInv, OperationsAreVetted
<1>2. ListsWorkers(h)'
  <2>1. local[h].nodes \subseteq Node
    BY DEF TypeInv, TypeOK, LocalType
  <2> QED
    BY <1>1, <2>1, WorkersStayWorkers DEF ListsWorkers, KeepsVictims
<1>3. TouchedAreUnprotected'
  <2> SUFFICES ASSUME NEW n \in Node, n \in tainted' \/ nodeState'[n] = "deleted"
               PROVE  Unprotected(n)'
    BY DEF TouchedAreUnprotected
  <2>1. Unprotected(n)
    BY VictimIsVetted DEF CandidateInv, TouchedAreUnprotected
  <2> QED
    BY <2>1, WorkersStayWorkers DEF Unprotected
<1>4. HasDestination(h)'
  <2>1. pc'[h] # "checkCandidates"
    BY DEF RemovingPC
  <2>2. CASE local[h].i = 1 /\ local'[h].i = local[h].i
    <3>1. victim(h)' = victim(h)
      BY <2>2 DEF victim, KeepsVictims
    <3>2. PICK m \in Node : IsDestination(victim(h), m)
      BY <1>1, <2>2 DEF HasDestination, Removing
    <3>3. nodeState'[m] = nodeState[m]
      BY <3>2 DEF IsDestination
    <3>4. IsDestination(victim(h), m)'
      <4> DEFINE v == victim(h)
      <4>1. v' = v /\ IsDestination(v, m)
        BY <3>1, <3>2
      <4> HIDE DEF v
      <4>2. PICK w : w = v
        OBVIOUS
      <4>3. IsDestination(w, m)'
        BY <3>3, <4>1, <4>2, DestinationStays
      <4> QED
        BY <4>1, <4>2, <4>3 DEF v, IsDestination
    <3> QED
      BY <2>1, <3>4 DEF HasDestination
  <2>3. CASE local'[h].i # 1
    BY <2>1, <2>3 DEF HasDestination
  <2> QED
    BY <2>2, <2>3
<1> QED
  BY <1>2, <1>3, <1>4, OperationCandidateInv

(* Every step of every actor keeps the invariant. *)
LEMMA NextCandidateInv == TypeInv /\ TypeInv' /\ CandidateInv /\ [Next]_vars => CandidateInv'
<1> SUFFICES ASSUME TypeInv, TypeInv', CandidateInv, [Next]_vars PROVE CandidateInv'
  OBVIOUS
<1>1. CASE Restart
  <2>1. TouchedAreUnprotected' /\ EvictedPodsAreMovable'
    BY <1>1, ReadOnly DEF Restart
  <2> QED
    BY <1>1, <2>1 DEF Restart, CandidateInv, OperationsAreVetted, UpdatingPC
<1>2. ASSUME NEW h \in Handler, Operation(h) PROVE CandidateInv'
  <2>1. CASE MarkUnschedulable(h)
    <3>1. /\ KeepsVictims(h) /\ local'[h].i = local[h].i
          /\ UNCHANGED <<nodeState, host, leaving>> /\ pc[h] = "markUnschedulable"
          /\ tainted' = tainted \/ tainted' = tainted \cup {victim(h)}
          /\ pc'[h] \in {"deleteNode", "evictPods", "unlock"}
      BY <2>1, MarkUnschedulableEffect DEF GivesUp
    <3>2. EvictedPodsAreMovable'
      BY <3>1 DEF CandidateInv, EvictedPodsAreMovable
    <3>3. pc[h] \in RemovingPC /\ pc'[h] \in RemovingPC \cup {"unlock"}
      BY <3>1 DEF RemovingPC
    <3> QED
      BY <1>2, <3>1, <3>2, <3>3, RemovingCandidateInv
  <2>2. CASE EvictOnePod(h)
    <3>1. PICK p \in local[h].evict :
            /\ leaving' = leaving \/ leaving' = leaving \cup {p}
            /\ pc'[h] \in {"deleteNode", "evictPods", "markSchedulable"}
      BY <2>2, EvictOnePodEffect
    <3>2. /\ KeepsVictims(h) /\ local'[h].i = local[h].i
          /\ UNCHANGED <<nodeState, tainted, host>> /\ pc[h] = "evictPods"
      BY <2>2, EvictOnePodEffect
    <3>3. pc[h] \in RemovingPC /\ pc'[h] \in RemovingPC \cup {"unlock"}
      BY <3>1, <3>2 DEF RemovingPC
    <3>4. p \in local[h].pods[victim(h)] /\ NonSystemActive(p)
      BY <1>2, <3>2, OperationAlone DEF CandidateInv, OperationsAreVetted, ChoiceFits, victim
    <3>5. podMobility(PodSpec[p]) = "mobile"
      BY <3>3, <3>4, VictimIsVetted DEF Vetted
    <3>6. hasController(PodSpec[p]) = "yes" /\ ~hasNodeLocalStorage(PodSpec[p])
      <4>1. ~(hasNodeLocalStorage(PodSpec[p]) \/ hasController(PodSpec[p]) = "no")
        BY <3>5 DEF podMobility
      <4>2. hasController(PodSpec[p]) # "panic"
        BY <3>5, <4>1 DEF podMobility
      <4>3. hasController(PodSpec[p]) \in {"no", "panic", "yes"}
        BY DEF hasController
      <4> QED
        BY <4>1, <4>2, <4>3
    <3>7. EvictedPodsAreMovable'
      BY <3>1, <3>4, <3>6 DEF CandidateInv, EvictedPodsAreMovable
    <3> QED
      BY <1>2, <3>2, <3>3, <3>7, RemovingCandidateInv
  <2>3. CASE MarkSchedulable(h)
    <3>1. /\ local'[h] = local[h] /\ tainted' \subseteq tainted
          /\ UNCHANGED <<nodeState, host, leaving>> /\ pc[h] = "markSchedulable"
          /\ pc'[h] = "unlock"
      BY <2>3, MarkSchedulableEffect DEF GivesUp
    <3>2. EvictedPodsAreMovable' /\ KeepsVictims(h)
      BY <3>1 DEF CandidateInv, EvictedPodsAreMovable, KeepsVictims
    <3>3. pc[h] \in RemovingPC /\ pc'[h] \in RemovingPC \cup {"unlock"}
      BY <3>1 DEF RemovingPC
    <3> QED
      BY <1>2, <3>1, <3>2, <3>3, RemovingCandidateInv
  <2>4. CASE DeleteNode(h)
    <3>1. /\ local'[h] = local[h] /\ UNCHANGED <<host, leaving>> /\ pc[h] = "deleteNode"
          /\ tainted' \subseteq tainted
          /\ \A n \in Node \ {victim(h)} : nodeState'[n] = nodeState[n]
          /\ pc'[h] \in {"terminateMachine", "unlock"}
      BY <2>4, DeleteNodeEffect DEF GivesUp, kubeVars
    <3>2. EvictedPodsAreMovable' /\ KeepsVictims(h)
      BY <3>1 DEF CandidateInv, EvictedPodsAreMovable, KeepsVictims
    <3>3. pc[h] \in RemovingPC /\ pc'[h] \in RemovingPC \cup {"unlock"}
      BY <3>1 DEF RemovingPC
    <3> QED
      BY <1>2, <3>1, <3>2, <3>3, RemovingCandidateInv
  <2>5. CASE TerminateMachine(h)
    <3>1. /\ KeepsVictims(h) /\ UNCHANGED kubeVars /\ pc[h] = "terminateMachine"
          /\ pc'[h] \in {"markUnschedulable", "unlock"}
          /\ local'[h].i = local[h].i \/ local'[h].i = local[h].i + 1
      BY <2>5, TerminateMachineEffect DEF GivesUp
    <3>2. EvictedPodsAreMovable'
      BY <3>1 DEF CandidateInv, EvictedPodsAreMovable, kubeVars
    <3>3. pc[h] \in RemovingPC /\ pc'[h] \in RemovingPC \cup {"unlock"}
      BY <3>1 DEF RemovingPC
    <3>4. local'[h].i = local[h].i \/ local'[h].i # 1
      <4>1. local[h].i \in 1..Len(local[h].queue)
        BY <3>3, VictimType
      <4> QED
        BY <3>1, <4>1
    <3> QED
      BY <1>2, <3>1, <3>2, <3>3, <3>4, RemovingCandidateInv DEF kubeVars
  <2> QED
    BY <1>2, <2>1, <2>2, <2>3, <2>4, <2>5, SelectingCandidateInv DEF Operation
<1> QED
  BY <1>1, <1>2, StepKinds, OutsideCandidateInv

(* At the start nothing is tainted, deleted or evicted. *)
LEMMA InitCandidateInv == Init => CandidateInv
<1> SUFFICES ASSUME Init PROVE CandidateInv
  OBVIOUS
<1>1. OperationsAreVetted
  BY DEF Init, OperationsAreVetted, UpdatingPC
<1>2. tainted = {} /\ leaving = {} /\ \A n \in Node : nodeState[n] # "deleted"
  BY ProxyAssumption DEF Init, InitType
<1> QED
  BY <1>1, <1>2 DEF CandidateInv, TouchedAreUnprotected, EvictedPodsAreMovable

(* The inductive invariants hold together. *)
LEMMA CandidateInvariant == Spec => [](TypeInv /\ CandidateInv)
BY InitTypeInv, NextTypeInv, InitCandidateInv, NextCandidateInv, PTL DEF Spec

-----------------------------------------------------------------------------
(* DrainNode evicts only pods that IsScaleDownCandidate found movable, for *)
(* any cluster and any timing of other requests: the snapshot that it was  *)
(* asked about is the one that is drained.                                 *)
THEOREM OnlyMovablePodsAreEvicted == Spec => []EvictedPodsAreMovable
<1>1. CandidateInv => EvictedPodsAreMovable
  BY DEF CandidateInv
<1> QED
  BY <1>1, CandidateInvariant, PTL

(* No node with the annotation is tainted or deleted, and none that hosts  *)
(* the API server: ListWorkerNodes passes over it, and a worker does not   *)
(* become a master while it is being vetted, drained or deleted.           *)
THEOREM ProtectionIsRespected == Spec => []ProtectedNodesAreKept
<1>1. CandidateInv => ProtectedNodesAreKept
  <2> SUFFICES ASSUME CandidateInv, NEW n \in Node, n \in tainted \/ nodeState[n] = "deleted"
               PROVE  ~NodeSpec[n].annotation /\ ~isMasterNode(getNodeInfo(n))
    BY Zenon DEF ProtectedNodesAreKept
  <2>1. ~NodeSpec[n].annotation /\ ~IsMaster(n)
    BY DEF CandidateInv, TouchedAreUnprotected, Unprotected
  <2> QED
    BY <2>1, MasterNode
<1> QED
  BY <1>1, CandidateInvariant, PTL

(* While the first victim is drained, deleted and terminated, another      *)
(* ready and schedulable worker remains: the evidence of                   *)
(* IsScaleDownCandidate is not stale, because the lock keeps other updates *)
(* out until then.                                                         *)
THEOREM FirstVictimLeavesAWorker == Spec => []DestinationRemains
<1>1. CandidateInv => DestinationRemains
  <2> SUFFICES ASSUME CandidateInv, NEW h \in Handler, Removing(h), local[h].i = 1
               PROVE  \E m \in Node : IsDestination(victim(h), m)
    BY DEF DestinationRemains
  <2>1. pc[h] \in UpdatingPC
    BY DEF Removing, RemovingPC, UpdatingPC, PC
  <2> QED
    BY <2>1 DEF CandidateInv, OperationsAreVetted, HasDestination
<1> QED
  BY <1>1, CandidateInvariant, PTL
=============================================================================
