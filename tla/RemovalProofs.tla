---------------------------- MODULE RemovalProofs ----------------------------
(***************************************************************************)
(* What a removal of nodes guarantees, for every cluster, every number of  *)
(* handlers and every bound on the faults: SetDesiredSize does not delete  *)
(* too many nodes, a reported success is one, and a drain misses no pod it *)
(* knew of.                                                                *)
(***************************************************************************)
EXTENDS CandidateProofs

(* Node n has registered and was not deleted by the proxy. *)
Present(n) == nodeState[n] \in {"registered", "vanished"}

(* The machine of n is on its way out. *)
MachineGone(n) == machineState[externalID(n)] \in {"TERMINATING", "TERMINATED"}

(* As long as victims are sought, the listed nodes are in the cluster; and *)
(* TerminateMachine listed those of its machine.                           *)
ListFits(h) ==
  /\ pc[h] \in {"getMachinePool", "getMachine", "checkCandidates"} =>
       \A n \in local[h].nodes : Present(n)
  /\ pc[h] = "getMachine" => \A n \in local[h].nodes : externalID(n) = req[h].machine

(* A pair has a machine of the pool. *)
PairsFit(h) == \A n \in local[h].pairs : machineState[externalID(n)] # "NONE"

(* The queue has each victim once and no more than nodesToRemove of them,  *)
(* and the operation deletes no other node.                                *)
QueueFits(h) ==
  /\ \A j, k \in DOMAIN local[h].queue : local[h].queue[j] = local[h].queue[k] => j = k
  /\ local[h].queue # << >> /\ req[h].op = "setDesiredSize" =>
       Len(local[h].queue) <= Cardinality(local[h].pairs) - req[h].size
  /\ local[h].queue # << >> =>
       \A n \in local[h].pairs :
         nodeState[n] = "deleted" => \E j \in DOMAIN local[h].queue : local[h].queue[j] = n

(* The victims before the current one are gone, those after it are not     *)
(* deleted, and it is deleted itself when its machine is terminated.       *)
ProgressFits(h) ==
  pc[h] \in RemovingPC =>
    \A j \in DOMAIN local[h].queue :
      /\ j < local[h].i => nodeState[local[h].queue[j]] = "deleted" /\ MachineGone(local[h].queue[j])
      /\ j > local[h].i => Present(local[h].queue[j])
      /\ j = local[h].i => IF pc[h] = "terminateMachine"
                           THEN nodeState[local[h].queue[j]] = "deleted"
                           ELSE Present(local[h].queue[j])

(* A node that is being drained has the taint, and of the pods that were   *)
(* seen on it those that are still there are leaving, or are to be         *)
(* evicted, or came back because they tolerate the taint.                  *)
DrainFits(h) ==
  pc[h] \in {"evictPods", "deleteNode"} =>
    /\ nodeState[victim(h)] = "registered" => victim(h) \in tainted
    /\ \A p \in podsToDrain(h) : host[p] = victim(h) =>
         \/ p \in leaving
         \/ p \in local[h].evict /\ pc[h] = "evictPods"
         \/ hasToleration(PodSpec[p], NodeAboutToBeDrainedTaint)

(* An operation that succeeded has removed its whole queue. *)
SuccessFits(h) ==
  pc[h] = "unlock" /\ result[h] = "ok" =>
    \A j \in DOMAIN local[h].queue :
      nodeState[local[h].queue[j]] = "deleted" /\ MachineGone(local[h].queue[j])

RemovalFits(h) ==
  ListFits(h) /\ PairsFit(h) /\ QueueFits(h) /\ ProgressFits(h) /\ DrainFits(h) /\ SuccessFits(h)

(* Only registered nodes have the taint. *)
TaintsFit == \A n \in tainted : nodeState[n] = "registered"

(* A deleted node had a machine. *)
DeletionsFit == \A n \in Node : nodeState[n] = "deleted" => machineState[externalID(n)] # "NONE"

RemovalInv ==
  /\ \A h \in Handler : pc[h] \in UpdatingPC => RemovalFits(h)
  /\ TaintsFit
  /\ DeletionsFit

-----------------------------------------------------------------------------
(* The cluster and the pool beside a removal.                              *)

(* Nodes stay in the cluster, or vanish from it. *)
LEMMA PresentStays ==
  ASSUME ClusterRuns, NEW n \in Node, Present(n) PROVE Present(n)'
BY DEF ClusterRuns, Present

(* The machine of a node that is gone stays away. *)
LEMMA GoneStays ==
  ASSUME PoolRuns, NEW n \in Node, MachineGone(n) PROVE MachineGone(n)'
BY ExternalIDType DEF PoolRuns, MachineGone

(* Of a node's state only the proxy makes "deleted". *)
LEMMA ClusterDeletesNothing ==
  ASSUME ClusterRuns, NEW n \in Node PROVE nodeState'[n] = "deleted" <=> nodeState[n] = "deleted"
BY DEF ClusterRuns

(* The cluster keeps taints on registered nodes, and deletions. *)
LEMMA ClusterFits ==
  ASSUME TypeInv, ClusterRuns, PoolRuns, TaintsFit, DeletionsFit
  PROVE  TaintsFit' /\ DeletionsFit'
<1>1. TaintsFit'
  <2> SUFFICES ASSUME NEW n \in tainted' PROVE nodeState'[n] = "registered"
    BY DEF TaintsFit
  <2>1. n \in tainted /\ n \in Node
    BY DEF ClusterRuns, TypeInv, TypeOK, KubeTypeOK
  <2> QED
    BY <2>1 DEF ClusterRuns, TaintsFit
<1>2. DeletionsFit'
  BY ExternalIDType DEF ClusterRuns, PoolRuns, DeletionsFit
<1> QED
  BY <1>1, <1>2

(* What goes on outside the operation of g does not disturb it. *)
LEMMA WaitingFits ==
  ASSUME TypeInv, ClusterRuns, PoolRuns, NEW g \in Handler, pc[g] \in UpdatingPC,
         RemovalFits(g), Waits(g), TaintsFit
  PROVE  RemovalFits(g)'
<1>1. /\ pc'[g] = pc[g] /\ local'[g] = local[g] /\ req'[g] = req[g] /\ result'[g] = result[g]
  BY DEF Waits
<1>2. /\ local[g].nodes \subseteq Node /\ local[g].pairs \subseteq Node
      /\ local[g].queue \in Seq(Node)
  BY DEF TypeInv, TypeOK, LocalType
<1>3. \A j \in DOMAIN local[g].queue : local[g].queue[j] \in Node
  BY <1>2
<1>4. ListFits(g)'
  BY <1>1, <1>2, PresentStays DEF RemovalFits, ListFits
<1>5. PairsFit(g)'
  BY <1>1, <1>2, ExternalIDType DEF RemovalFits, PairsFit, PoolRuns
<1>6. QueueFits(g)'
  BY <1>1, <1>2, ClusterDeletesNothing DEF RemovalFits, QueueFits
<1>7. ProgressFits(g)'
  BY <1>1, <1>3, PresentStays, GoneStays, ClusterDeletesNothing DEF RemovalFits, ProgressFits
<1>8. SuccessFits(g)'
  BY <1>1, <1>3, GoneStays, ClusterDeletesNothing DEF RemovalFits, SuccessFits
<1>9. DrainFits(g)'
  <2> SUFFICES ASSUME pc[g] \in {"evictPods", "deleteNode"} PROVE DrainFits(g)'
    BY <1>1 DEF DrainFits
  <2>1. pc[g] \in RemovingPC
    BY DEF RemovingPC
  <2>2. victim(g) \in Node /\ local[g].i \in DOMAIN local[g].queue /\ podsToDrain(g) \subseteq Pod
    BY <1>2, <2>1, VictimType
  <2>3. Present(victim(g))
    BY <2>1, <2>2 DEF RemovalFits, ProgressFits, victim
  <2>4. victim(g)' = victim(g) /\ podsToDrain(g)' = podsToDrain(g)
    BY <1>1 DEF victim, podsToDrain
  <2>5. nodeState[victim(g)] = "registered" => victim(g) \in tainted
    BY DEF RemovalFits, DrainFits
  <2>6. nodeState'[victim(g)] = "registered" => victim(g) \in tainted'
    BY <2>2, <2>3, <2>5 DEF ClusterRuns, Present
  <2>7. ASSUME NEW p \in podsToDrain(g), host'[p] = victim(g)
        PROVE  \/ p \in leaving'
               \/ p \in local[g].evict /\ pc[g] = "evictPods"
               \/ hasToleration(PodSpec[p], NodeAboutToBeDrainedTaint)
    <3>1. p \in Pod /\ victim(g) # NoNode
      BY <2>2, NoNodeAssumption
    <3>2. CASE host'[p] = host[p]
      BY <2>7, <3>1, <3>2 DEF RemovalFits, DrainFits, ClusterRuns
    <3>3. CASE /\ host'[p] \in Registered
               /\ host'[p] \in tainted => hasToleration(PodSpec[p], NodeAboutToBeDrainedTaint)
      BY <2>5, <2>7, <3>3 DEF Registered
    <3> QED
      BY <2>7, <3>1, <3>2, <3>3 DEF ClusterRuns
  <2> QED
    BY <1>1, <2>4, <2>6, <2>7 DEF DrainFits
<1> QED
  BY <1>4, <1>5, <1>6, <1>7, <1>8, <1>9 DEF RemovalFits

(* An operation that has only begun fits. *)
LEMMA BeginningFits ==
  ASSUME NEW g \in Handler, pc'[g] = "listWorkerNodes", local'[g] = NoLocals
  PROVE  RemovalFits(g)'
<1>1. local'[g].pairs = {} /\ local'[g].queue = << >>
  BY DEF NoLocals
<1> QED
  BY <1>1 DEF RemovalFits, ListFits, PairsFit, QueueFits, ProgressFits, DrainFits, SuccessFits,
     RemovingPC

(* Steps outside operations keep the invariant. *)
LEMMA OutsideRemovalInv ==
  ASSUME TypeInv, TypeInv', RemovalInv, Outside, PoolRuns
  PROVE  RemovalInv'
<1>1. ClusterRuns
  BY DEF Outside
<1>2. TaintsFit' /\ DeletionsFit'
  BY <1>1, ClusterFits DEF RemovalInv
<1>3. ASSUME NEW g \in Handler, pc'[g] \in UpdatingPC PROVE RemovalFits(g)'
  <2>1. CASE Waits(g)
    BY <1>1, <1>3, <2>1, WaitingFits DEF RemovalInv, Waits
  <2>2. CASE pc'[g] = "listWorkerNodes" /\ local'[g] = NoLocals
    BY <2>2, BeginningFits
  <2> QED
    BY <1>3, <2>1, <2>2 DEF Outside
<1> QED
  BY <1>2, <1>3 DEF RemovalInv

-----------------------------------------------------------------------------
(* The steps of an operation.                                              *)

(* Only the handler that takes the step runs an operation. *)
LEMMA OperationRemovalInv ==
  ASSUME TypeInv, TypeInv', RemovalInv, NEW h \in Handler, Operation(h),
         RemovalFits(h)', TaintsFit', DeletionsFit'
  PROVE  RemovalInv'
BY OperationAlone DEF RemovalInv

(* Without a queue there is no progress to fit. *)
LEMMA NoQueueFits ==
  ASSUME NEW h \in Handler, local'[h].queue = << >>, pc'[h] \notin RemovingPC,
         ListFits(h)', PairsFit(h)'
  PROVE  RemovalFits(h)'
BY DEF RemovalFits, QueueFits, ProgressFits, DrainFits, SuccessFits, RemovingPC

(* ListWorkerNodes lists registered nodes. *)
LEMMA ListWorkerNodesRemoval ==
  ASSUME TypeInv, TypeInv', CandidateInv, RemovalInv, PoolRuns, NEW h \in Handler,
         ListWorkerNodes(h)
  PROVE  RemovalInv'
<1>1. Operation(h) /\ pc[h] \in UpdatingPC
  BY OperationAlone DEF Operation
<1>2. /\ UNCHANGED <<kubeVars, poolVars>> /\ pc[h] = "listWorkerNodes" /\ req'[h] = req[h]
      /\ pc'[h] \in {"getMachinePool", "getMachine", "unlock"}
  BY ListWorkerNodesEffect, Zenon DEF Frame
<1>3. \/ local'[h] = local[h] /\ pc'[h] = "unlock"
      \/ /\ local'[h] = [local[h] EXCEPT !.nodes = local'[h].nodes, !.pods = local'[h].pods]
         /\ \A n \in local'[h].nodes : n \in Registered
         /\ pc'[h] = "getMachine" => \A n \in local'[h].nodes : externalID(n) = req[h].machine
  BY ListWorkerNodesEffect, Zenon
<1>4. local[h].pairs = {} /\ local[h].queue = << >>
  BY <1>1, <1>2 DEF CandidateInv, OperationsAreVetted, ChoiceFits, NoLocals
<1>5. TaintsFit' /\ DeletionsFit'
  BY <1>2, ClusterRests, ClusterFits DEF RemovalInv
<1>6. CASE local'[h] = local[h] /\ pc'[h] = "unlock"
  <2>1. ListFits(h)' /\ PairsFit(h)' /\ pc'[h] \notin RemovingPC
    BY <1>4, <1>6 DEF ListFits, PairsFit, RemovingPC
  <2> QED
    BY <1>1, <1>4, <1>5, <1>6, <2>1, NoQueueFits, OperationRemovalInv
<1>7. CASE /\ local'[h] = [local[h] EXCEPT !.nodes = local'[h].nodes, !.pods = local'[h].pods]
           /\ \A n \in local'[h].nodes : n \in Registered
           /\ pc'[h] = "getMachine" => \A n \in local'[h].nodes : externalID(n) = req[h].machine
  <2>1. local[h] \in LocalType
    BY DEF TypeInv, TypeOK
  <2>2. local'[h].pairs = {} /\ local'[h].queue = << >>
    BY <1>4, <1>7, <2>1, Zenon DEF LocalType
  <2>3. \A n \in local'[h].nodes : nodeState'[n] = "registered"
    BY <1>2, <1>7, Zenon DEF Registered, kubeVars
  <2>4. pc'[h] = "getMachine" => \A n \in local'[h].nodes : externalID(n) = req'[h].machine
    BY <1>2, <1>7, Zenon
  <2>5. ListFits(h)' /\ PairsFit(h)' /\ pc'[h] \notin RemovingPC
    BY <1>2, <2>2, <2>3, <2>4 DEF ListFits, PairsFit, RemovingPC, Present
  <2> QED
    BY <1>1, <1>5, <2>2, <2>5, NoQueueFits, OperationRemovalInv
<1> QED
  BY <1>3, <1>6, <1>7, Zenon

(* GetMachinePool and GetMachine pair nodes with machines of the pool. *)
LEMMA PairingRemoval ==
  ASSUME TypeInv, TypeInv', CandidateInv, RemovalInv, PoolRuns, NEW h \in Handler,
         GetMachinePool(h) \/ GetMachine(h)
  PROVE  RemovalInv'
<1>1. Operation(h) /\ pc[h] \in UpdatingPC
  BY OperationAlone DEF Operation
<1>2. UNCHANGED <<kubeVars, poolVars>> /\ pc[h] \in {"getMachinePool", "getMachine"}
  BY GetMachinePoolEffect, GetMachineEffect, Zenon
<1>3. local[h].queue = << >> /\ RemovalFits(h)
  BY <1>1, <1>2 DEF CandidateInv, OperationsAreVetted, ChoiceFits, SelectingPC, RemovalInv
<1>4. local[h] \in LocalType
  BY DEF TypeInv, TypeOK
<1>5. TaintsFit' /\ DeletionsFit'
  BY <1>2, ClusterRests, ClusterFits DEF RemovalInv
<1>6. ASSUME local'[h].queue = << >>, local'[h].nodes = local[h].nodes,
             pc'[h] \in {"setDesiredSize", "checkCandidates", "unlock"},
             \A n \in local'[h].pairs : machineState[externalID(n)] # "NONE"
      PROVE  RemovalInv'
  <2>1. PairsFit(h)' /\ pc'[h] \notin RemovingPC
    BY <1>2, <1>6 DEF PairsFit, RemovingPC, poolVars
  <2>2. ListFits(h)'
    BY <1>2, <1>3, <1>6 DEF RemovalFits, ListFits, Present, kubeVars
  <2> QED
    BY <1>1, <1>5, <1>6, <2>1, <2>2, NoQueueFits, OperationRemovalInv
<1>7. CASE local'[h] = local[h] /\ pc'[h] = "unlock"
  BY <1>3, <1>6, <1>7 DEF RemovalFits, PairsFit
<1>8. CASE /\ local'[h] = [local[h] EXCEPT !.pairs = local'[h].pairs,
                                           !.unchecked = local'[h].pairs,
                                           !.evictable = local'[h].evictable]
           /\ \A n \in local'[h].pairs : IsMachineAllocated(externalID(n))
           /\ pc'[h] \in {"setDesiredSize", "checkCandidates"}
  <2>1. local'[h].queue = local[h].queue /\ local'[h].nodes = local[h].nodes
    BY <1>4, <1>8, Zenon DEF LocalType
  <2>2. \A n \in local'[h].pairs : machineState[externalID(n)] # "NONE"
    <3>1. \A m : IsMachineAllocated(m) => machineState[m] # "NONE"
      BY DEF IsMachineAllocated
    <3> QED
      BY <1>8, <3>1, Zenon
  <2>3. pc'[h] \in {"setDesiredSize", "checkCandidates", "unlock"}
    BY <1>8, Zenon
  <2> QED
    BY <1>3, <1>6, <2>1, <2>2, <2>3, Zenon
<1>9. ASSUME NEW n \in local[h].nodes,
             local'[h] = [local[h] EXCEPT !.pairs = {n}, !.unchecked = {n},
                                          !.evictable = local'[h].evictable],
             req[h].machine \in InPool, pc[h] = "getMachine", pc'[h] = "checkCandidates"
      PROVE  RemovalInv'
  <2>1. /\ local'[h].queue = local[h].queue /\ local'[h].nodes = local[h].nodes
        /\ local'[h].pairs = {n}
    BY <1>4, <1>9, Zenon DEF LocalType
  <2>2. machineState[externalID(n)] # "NONE"
    <3>1. req[h].machine \in InPool /\ pc[h] = "getMachine"
      BY <1>9
    <3> QED
      BY <1>3, <3>1 DEF InPool, RemovalFits, ListFits
  <2>3. \A m \in local'[h].pairs : machineState[externalID(m)] # "NONE"
    BY <2>1, <2>2
  <2>4. pc'[h] \in {"setDesiredSize", "checkCandidates", "unlock"}
    BY <1>9, Zenon
  <2> QED
    BY <1>3, <1>6, <2>1, <2>3, <2>4, Zenon
<1>10. CASE GetMachinePool(h)
  <2>1. \/ local'[h] = local[h] /\ pc'[h] = "unlock"
        \/ /\ local'[h] = [local[h] EXCEPT !.pairs = local'[h].pairs,
                                           !.unchecked = local'[h].pairs,
                                           !.evictable = local'[h].evictable]
           /\ \A n \in local'[h].pairs : IsMachineAllocated(externalID(n))
           /\ pc'[h] \in {"setDesiredSize", "checkCandidates"}
    BY <1>10, GetMachinePoolEffect, Zenon DEF GivesUp
  <2> QED
    BY <1>7, <1>8, <2>1, Zenon
<1>11. CASE GetMachine(h)
  <2>1. /\ pc[h] = "getMachine"
        /\ \/ local'[h] = local[h] /\ pc'[h] = "unlock"
           \/ \E n \in local[h].nodes :
                /\ local'[h] = [local[h] EXCEPT !.pairs = {n}, !.unchecked = {n},
                                                !.evictable = local'[h].evictable]
                /\ req[h].machine \in InPool
                /\ pc'[h] = "checkCandidates"
    BY <1>11, GetMachineEffect, Zenon DEF GivesUp
  <2> QED
    BY <1>7, <1>9, <2>1, Zenon
<1> QED
  BY <1>10, <1>11

(* Vetting changes nothing, and the queue that is made of candidates has   *)
(* nothing deleted in it.                                                  *)
LEMMA VettingRemoval ==
  ASSUME TypeInv, TypeInv', CandidateInv, RemovalInv, PoolRuns, NEW h \in Handler,
         CheckCandidate(h) \/ SelectVictims(h)
  PROVE  RemovalInv'
<1>1. Operation(h) /\ pc[h] \in UpdatingPC
  BY OperationAlone DEF Operation
<1>2. UNCHANGED <<kubeVars, poolVars>> /\ pc[h] = "checkCandidates" /\ req'[h] = req[h]
  BY CheckCandidateEffect, SelectVictimsEffect, Zenon DEF Frame
<1>3. /\ ChoiceFits(pc[h], local[h]) /\ RemovalFits(h) /\ local[h].queue = << >>
      /\ local[h].victims \subseteq local[h].nodes /\ local[h].pairs \subseteq local[h].nodes
  BY <1>1, <1>2, Zenon DEF CandidateInv, OperationsAreVetted, ChoiceFits, SelectingPC, RemovalInv
<1>4. local[h] \in LocalType
  BY DEF TypeInv, TypeOK
<1>5. TaintsFit' /\ DeletionsFit'
  BY <1>2, ClusterRests, ClusterFits DEF RemovalInv
<1>6. ASSUME local'[h].nodes = local[h].nodes, local'[h].pairs = local[h].pairs,
             local'[h].queue = << >>, pc'[h] \in {"checkCandidates", "panicked", "unlock"}
      PROVE  RemovalInv'
  <2>1. PairsFit(h)' /\ pc'[h] \notin RemovingPC
    BY <1>2, <1>3, <1>6 DEF RemovalFits, PairsFit, RemovingPC, poolVars
  <2>2. ListFits(h)'
    BY <1>2, <1>3, <1>6 DEF RemovalFits, ListFits, Present, kubeVars
  <2> QED
    BY <1>1, <1>5, <1>6, <2>1, <2>2, NoQueueFits, OperationRemovalInv
<1>7. CASE local'[h] = local[h] /\ pc'[h] \in {"panicked", "unlock"}
  BY <1>3, <1>6, <1>7
<1>8. CASE CheckCandidate(h)
  <2>1. \/ local'[h] = local[h] /\ pc'[h] = "panicked"
        \/ /\ pc'[h] = "checkCandidates"
           /\ \E n \in local[h].unchecked :
                \/ local'[h] = [local[h] EXCEPT !.unchecked = @ \ {n}]
                \/ local'[h] = [local[h] EXCEPT !.unchecked = @ \ {n}, !.victims = @ \cup {n}]
    BY <1>8, CheckCandidateEffect, Zenon
  <2>2. ASSUME NEW n \in local[h].unchecked,
               \/ local'[h] = [local[h] EXCEPT !.unchecked = @ \ {n}]
               \/ local'[h] = [local[h] EXCEPT !.unchecked = @ \ {n}, !.victims = @ \cup {n}]
        PROVE  /\ local'[h].nodes = local[h].nodes /\ local'[h].pairs = local[h].pairs
               /\ local'[h].queue = local[h].queue
    BY <1>4, <2>2, Zenon DEF LocalType
  <2> QED
    BY <1>3, <1>6, <1>7, <2>1, <2>2, Zenon
<1>9. CASE SelectVictims(h)
  <2>1. \/ local'[h] = local[h] /\ pc'[h] = "unlock"
        \/ /\ local'[h] = [local[h] EXCEPT !.queue = local'[h].queue]
           /\ local[h].i = 1
           /\ \A j \in DOMAIN local'[h].queue : local'[h].queue[j] \in local[h].victims
           /\ \A j, k \in DOMAIN local'[h].queue :
                local'[h].queue[j] = local'[h].queue[k] => j = k
           /\ req[h].op = "setDesiredSize" =>
                Len(local'[h].queue) <= Cardinality(local[h].pairs) - req[h].size
           /\ pc'[h] = "markUnschedulable"
    BY <1>9, SelectVictimsEffect, Zenon DEF GivesUp
  <2>2. CASE /\ local'[h] = [local[h] EXCEPT !.queue = local'[h].queue]
             /\ local[h].i = 1
             /\ \A j \in DOMAIN local'[h].queue : local'[h].queue[j] \in local[h].victims
             /\ \A j, k \in DOMAIN local'[h].queue :
                  local'[h].queue[j] = local'[h].queue[k] => j = k
             /\ req[h].op = "setDesiredSize" =>
                  Len(local'[h].queue) <= Cardinality(local[h].pairs) - req[h].size
             /\ pc'[h] = "markUnschedulable"
    <3>1. /\ local'[h].nodes = local[h].nodes /\ local'[h].pairs = local[h].pairs
          /\ local'[h].i = 1
      BY <1>4, <2>2, Zenon DEF LocalType
    <3>2. /\ pc'[h] = "markUnschedulable"
          /\ \A j \in DOMAIN local'[h].queue : local'[h].queue[j] \in local[h].victims
          /\ \A j, k \in DOMAIN local'[h].queue :
               local'[h].queue[j] = local'[h].queue[k] => j = k
          /\ req[h].op = "setDesiredSize" =>
               Len(local'[h].queue) <= Cardinality(local[h].pairs) - req[h].size
      BY <2>2, Zenon
    <3> HIDE <2>2
    <3>3. \A n \in local[h].nodes : nodeState'[n] \in {"registered", "vanished"}
      BY <1>2, <1>3 DEF RemovalFits, ListFits, Present, kubeVars
    <3>4. \A n \in local[h].pairs : nodeState'[n] # "deleted"
      BY <1>3, <3>3
    <3>5. \A j \in DOMAIN local'[h].queue :
            nodeState'[local'[h].queue[j]] \in {"registered", "vanished"}
      BY <1>3, <3>2, <3>3, Zenon
    <3>6. ListFits(h)' /\ DrainFits(h)' /\ SuccessFits(h)'
      BY <3>2 DEF ListFits, DrainFits, SuccessFits
    <3>7. PairsFit(h)'
      BY <1>2, <1>3, <3>1 DEF RemovalFits, PairsFit, poolVars
    <3>8. QueueFits(h)'
      BY <1>2, <3>1, <3>2, <3>4 DEF QueueFits
    <3>9. ProgressFits(h)'
      <4>1. \A j \in DOMAIN local'[h].queue : ~(j < 1)
        <5>1. local'[h].queue \in Seq(Node)
          BY DEF TypeInv, TypeOK, LocalType
        <5> QED
          BY <5>1
      <4> QED
        BY <3>1, <3>2, <3>5, <4>1 DEF ProgressFits, Present
    <3> QED
      BY <1>1, <1>5, <3>6, <3>7, <3>8, <3>9, OperationRemovalInv DEF RemovalFits
  <2> QED
    BY <1>7, <2>1, <2>2, Zenon
<1> QED
  BY <1>8, <1>9

(* Passing a desired size on removes nothing. *)
LEMMA SetDesiredSizeRemoval ==
  ASSUME TypeInv, TypeInv', CandidateInv, RemovalInv, PoolRuns, NEW h \in Handler,
         SetDesiredSize(h)
  PROVE  RemovalInv'
<1>1. Operation(h) /\ pc[h] \in UpdatingPC
  BY OperationAlone DEF Operation
<1>2. /\ UNCHANGED <<kubeVars, machineState>> /\ local'[h] = local[h]
      /\ pc[h] = "setDesiredSize" /\ pc'[h] = "unlock"
  BY SetDesiredSizeEffect
<1>3. local[h].queue = << >> /\ RemovalFits(h)
  BY <1>1, <1>2 DEF CandidateInv, OperationsAreVetted, ChoiceFits, RemovalInv
<1>4. TaintsFit' /\ DeletionsFit'
  BY <1>2, ClusterRests, ClusterFits DEF RemovalInv
<1>5. ListFits(h)' /\ PairsFit(h)' /\ pc'[h] \notin RemovingPC
  BY <1>2, <1>3 DEF RemovalFits, ListFits, PairsFit, RemovingPC
<1> QED
  BY <1>1, <1>2, <1>3, <1>4, <1>5, NoQueueFits, OperationRemovalInv

(* What is known of the victim of a removal. *)
LEMMA VictimFacts ==
  ASSUME TypeInv, CandidateInv, RemovalInv, NEW h \in Handler, pc[h] \in RemovingPC
  PROVE  /\ RemovalFits(h) /\ local[h].queue \in Seq(Node) /\ local[h].queue # << >>
         /\ victim(h) \in Node /\ victim(h) \in local[h].pairs
         /\ local[h].i \in DOMAIN local[h].queue /\ local[h].queue[local[h].i] = victim(h)
         /\ local[h].pairs \subseteq Node
         /\ machineState[externalID(victim(h))] # "NONE"
<1>1. pc[h] \in UpdatingPC
  BY DEF RemovingPC, UpdatingPC, PC
<1>2. RemovalFits(h) /\ ChoiceFits(pc[h], local[h])
  BY <1>1 DEF RemovalInv, CandidateInv, OperationsAreVetted
<1>3. local[h].queue \in Seq(Node) /\ local[h].pairs \subseteq Node
  BY DEF TypeInv, TypeOK, LocalType
<1>4. /\ local[h].i \in DOMAIN local[h].queue /\ victim(h) \in Node
      /\ local[h].queue[local[h].i] = victim(h) /\ local[h].queue # << >>
  BY <1>3, VictimType DEF victim
<1>5. victim(h) \in local[h].pairs
  BY <1>2, <1>4 DEF ChoiceFits
<1> QED
  BY <1>2, <1>3, <1>4, <1>5 DEF RemovalFits, PairsFit

(* A step of evictAndTerminate that deletes at most its victim keeps what  *)
(* is known of the queue.                                                  *)
LEMMA RemovingKeeps ==
  ASSUME TypeInv, CandidateInv, RemovalInv, PoolRuns, NEW h \in Handler, pc[h] \in RemovingPC,
         pc'[h] \in RemovingPC \cup {"unlock"}, KeepsVictims(h), req'[h] = req[h],
         \A n \in Node \ {victim(h)} : nodeState'[n] = nodeState[n]
  PROVE  ListFits(h)' /\ PairsFit(h)' /\ QueueFits(h)'
<1>1. /\ RemovalFits(h) /\ local[h].pairs \subseteq Node
      /\ local[h].i \in DOMAIN local[h].queue /\ local[h].queue[local[h].i] = victim(h)
  BY VictimFacts
<1>2. /\ local'[h].pairs = local[h].pairs /\ local'[h].queue = local[h].queue
      /\ local'[h].nodes = local[h].nodes
  BY DEF KeepsVictims
<1>3. ListFits(h)'
  BY DEF ListFits, RemovingPC
<1>4. PairsFit(h)'
  BY <1>1, <1>2, ExternalIDType DEF RemovalFits, PairsFit, PoolRuns
<1>5. QueueFits(h)'
  <2>1. QueueFits(h)
    BY <1>1, Zenon DEF RemovalFits
  <2>2. ASSUME NEW n \in local[h].pairs, nodeState'[n] = "deleted", local[h].queue # << >>
        PROVE  \E j \in DOMAIN local[h].queue : local[h].queue[j] = n
    <3>1. CASE n = victim(h)
      BY <1>1, <3>1
    <3>2. CASE n # victim(h)
      BY <1>1, <2>1, <2>2, <3>2 DEF QueueFits
    <3> QED
      BY <3>1, <3>2
  <2>3. local'[h].queue # << >> =>
          \A n \in local'[h].pairs :
            nodeState'[n] = "deleted" => \E j \in DOMAIN local'[h].queue : local'[h].queue[j] = n
    BY <1>2, <2>2, ZenonT(30)
  <2> QED
    BY <1>2, <2>1, <2>3, Zenon DEF QueueFits
<1> QED
  BY <1>3, <1>4, <1>5

(* A removal that is given up keeps the invariant if the nodes do. *)
LEMMA GivingUpRemoval ==
  ASSUME TypeInv, TypeInv', CandidateInv, RemovalInv, PoolRuns, NEW h \in Handler, Operation(h),
         pc[h] \in RemovingPC, GivesUp(h), KeepsVictims(h),
         \A n \in Node \ {victim(h)} : nodeState'[n] = nodeState[n],
         TaintsFit', DeletionsFit'
  PROVE  RemovalInv'
<1>1. req'[h] = req[h] /\ pc'[h] = "unlock" /\ result'[h] = "error"
  BY OperationAlone DEF Frame, GivesUp
<1>2. ListFits(h)' /\ PairsFit(h)' /\ QueueFits(h)'
  BY <1>1, RemovingKeeps
<1>3. ProgressFits(h)' /\ DrainFits(h)' /\ SuccessFits(h)'
  BY <1>1, Zenon DEF ProgressFits, DrainFits, SuccessFits, RemovingPC
<1> QED
  BY <1>2, <1>3, OperationRemovalInv DEF RemovalFits

(* Tainting a registered node, and untainting one, keep the taints fit. *)
LEMMA TaintingFits ==
  ASSUME TypeInv, RemovalInv, UNCHANGED <<nodeState, machineState>>, NEW n,
         \/ tainted' \subseteq tainted
         \/ n \in Registered /\ tainted' = tainted \cup {n}
  PROVE  TaintsFit' /\ DeletionsFit'
<1>1. TaintsFit'
  BY DEF RemovalInv, TaintsFit, Registered
<1>2. DeletionsFit'
  BY DEF RemovalInv, DeletionsFit
<1> QED
  BY <1>1, <1>2

(* markUnschedulable taints the victim and plans its evictions. *)
LEMMA MarkUnschedulableRemoval ==
  ASSUME TypeInv, TypeInv', CandidateInv, RemovalInv, PoolRuns, NEW h \in Handler,
         MarkUnschedulable(h)
  PROVE  RemovalInv'
<1>1. /\ KeepsVictims(h) /\ local'[h].i = local[h].i /\ req'[h] = req[h]
      /\ UNCHANGED <<poolVars, nodeState, host, leaving>> /\ pc[h] = "markUnschedulable"
  BY MarkUnschedulableEffect, Zenon DEF Frame
<1>2. Operation(h) /\ pc[h] \in RemovingPC
  BY <1>1, Zenon DEF Operation, RemovingPC
<1>3. TaintsFit' /\ DeletionsFit'
  <2>1. \/ tainted' \subseteq tainted
        \/ victim(h) \in Registered /\ tainted' = tainted \cup {victim(h)}
    BY MarkUnschedulableEffect
  <2> QED
    BY <1>1, <2>1, TaintingFits DEF poolVars
<1>4. CASE GivesUp(h)
  BY <1>1, <1>2, <1>3, <1>4, GivingUpRemoval
<1>5. CASE /\ tainted' = tainted \cup {victim(h)} /\ local'[h].evict = podsToDrain(h)
           /\ pc'[h] = IF podsToDrain(h) = {} THEN "deleteNode" ELSE "evictPods"
  <2>1. pc'[h] \in {"deleteNode", "evictPods"} /\ pc'[h] \in RemovingPC
    BY <1>5 DEF RemovingPC
  <2>2. ListFits(h)' /\ PairsFit(h)' /\ QueueFits(h)'
    BY <1>1, <1>2, <2>1, RemovingKeeps
  <2>3. victim(h)' = victim(h) /\ podsToDrain(h)' = podsToDrain(h)
    BY <1>1 DEF victim, podsToDrain, KeepsVictims
  <2>4. DrainFits(h)'
    BY <1>5, <2>1, <2>3, Zenon DEF DrainFits
  <2>5. ProgressFits(h)'
    <3>1. ProgressFits(h) /\ local'[h].queue = local[h].queue
      BY <1>1, <1>2, VictimFacts, Zenon DEF RemovalFits, KeepsVictims
    <3> QED
      BY <1>1, <1>2, <2>1, <3>1, Zenon DEF ProgressFits, Present, MachineGone, poolVars
  <2>6. SuccessFits(h)'
    BY <2>1 DEF SuccessFits
  <2> QED
    BY <1>2, <1>3, <2>2, <2>4, <2>5, <2>6, OperationRemovalInv DEF RemovalFits
<1> QED
  BY <1>4, <1>5, MarkUnschedulableEffect

(* An eviction makes its pod leave. *)
LEMMA EvictOnePodRemoval ==
  ASSUME TypeInv, TypeInv', CandidateInv, RemovalInv, PoolRuns, NEW h \in Handler,
         EvictOnePod(h)
  PROVE  RemovalInv'
<1>1. /\ KeepsVictims(h) /\ local'[h].i = local[h].i /\ req'[h] = req[h]
      /\ UNCHANGED <<poolVars, nodeState, tainted, host>> /\ pc[h] = "evictPods"
  BY EvictOnePodEffect DEF Frame
<1>2. Operation(h) /\ pc[h] \in RemovingPC
  BY <1>1, Zenon DEF Operation, RemovingPC
<1>3. TaintsFit' /\ DeletionsFit'
  BY <1>1, TaintingFits DEF poolVars
<1>4. PICK p \in local[h].evict :
        /\ local'[h].evict = local[h].evict \ {p}
        /\ \/ /\ leaving' = leaving \cup {p}
              /\ pc'[h] = IF local[h].evict = {p} THEN "deleteNode" ELSE "evictPods"
           \/ pc'[h] = "markSchedulable"
  BY EvictOnePodEffect
<1>5. pc'[h] \in {"deleteNode", "evictPods", "markSchedulable"} /\ pc'[h] \in RemovingPC
  BY <1>4 DEF RemovingPC
<1>6. ListFits(h)' /\ PairsFit(h)' /\ QueueFits(h)'
  BY <1>1, <1>2, <1>5, RemovingKeeps
<1>7. victim(h)' = victim(h) /\ podsToDrain(h)' = podsToDrain(h)
  BY <1>1 DEF victim, podsToDrain, KeepsVictims
<1>8. DrainFits(h)'
  <2>1. CASE pc'[h] = "markSchedulable"
    BY <2>1 DEF DrainFits
  <2>2. CASE /\ leaving' = leaving \cup {p}
             /\ pc'[h] = IF local[h].evict = {p} THEN "deleteNode" ELSE "evictPods"
    <3>1. DrainFits(h)
      BY <1>2, VictimFacts DEF RemovalFits
    <3> QED
      BY <1>1, <1>4, <1>7, <2>2, <3>1 DEF DrainFits
  <2> QED
    BY <1>4, <2>1, <2>2
<1>9. ProgressFits(h)'
  <2>1. ProgressFits(h) /\ local'[h].queue = local[h].queue
    BY <1>1, <1>2, VictimFacts, Zenon DEF RemovalFits, KeepsVictims
  <2> QED
    BY <1>1, <1>2, <1>5, <2>1, Zenon DEF ProgressFits, Present, MachineGone, poolVars
<1>10. SuccessFits(h)'
  BY <1>5 DEF SuccessFits
<1> QED
  BY <1>2, <1>3, <1>6, <1>8, <1>9, <1>10, OperationRemovalInv, Zenon DEF RemovalFits

(* markSchedulable ends the operation. *)
LEMMA MarkSchedulableRemoval ==
  ASSUME TypeInv, TypeInv', CandidateInv, RemovalInv, PoolRuns, NEW h \in Handler,
         MarkSchedulable(h)
  PROVE  RemovalInv'
<1>1. /\ local'[h] = local[h] /\ GivesUp(h) /\ tainted' \subseteq tainted
      /\ UNCHANGED <<poolVars, nodeState, host, leaving>> /\ pc[h] = "markSchedulable"
  BY MarkSchedulableEffect, Zenon
<1>2. Operation(h) /\ pc[h] \in RemovingPC /\ KeepsVictims(h)
  BY <1>1 DEF Operation, RemovingPC, KeepsVictims
<1>3. TaintsFit' /\ DeletionsFit'
  BY <1>1, TaintingFits DEF poolVars
<1> QED
  BY <1>1, <1>2, <1>3, GivingUpRemoval

(* DeleteNode deletes the current victim and no other. *)
LEMMA DeleteNodeRemoval ==
  ASSUME TypeInv, TypeInv', CandidateInv, RemovalInv, PoolRuns, NEW h \in Handler,
         DeleteNode(h)
  PROVE  RemovalInv'
<1>1. /\ local'[h] = local[h] /\ req'[h] = req[h]
      /\ UNCHANGED <<poolVars, host, leaving>> /\ pc[h] = "deleteNode"
      /\ tainted' \subseteq tainted
      /\ \A n \in Node \ {victim(h)} : nodeState'[n] = nodeState[n]
  BY DeleteNodeEffect DEF Frame, kubeVars
<1>2. Operation(h) /\ pc[h] \in RemovingPC /\ KeepsVictims(h)
  BY <1>1 DEF Operation, RemovingPC, KeepsVictims
<1>3. /\ RemovalFits(h) /\ local[h].queue \in Seq(Node) /\ victim(h) \in Node
      /\ local[h].i \in DOMAIN local[h].queue /\ local[h].queue[local[h].i] = victim(h)
      /\ machineState[externalID(victim(h))] # "NONE"
  BY <1>2, VictimFacts
<1>4. UNCHANGED kubeVars \/ (victim(h) \notin tainted' /\ nodeState'[victim(h)] = "deleted")
  BY DeleteNodeEffect
<1>5. TaintsFit'
  <2>1. tainted \subseteq Node
    BY DEF TypeInv, TypeOK, KubeTypeOK
  <2> QED
    BY <1>1, <1>4, <2>1 DEF RemovalInv, TaintsFit, kubeVars
<1>6. DeletionsFit'
  BY <1>1, <1>3, Zenon DEF RemovalInv, DeletionsFit, poolVars
<1>7. CASE GivesUp(h)
  BY <1>1, <1>2, <1>5, <1>6, <1>7, GivingUpRemoval
<1>8. CASE pc'[h] = "terminateMachine" /\ nodeState'[victim(h)] = "deleted"
  <2>1. pc'[h] \in RemovingPC
    BY <1>8 DEF RemovingPC
  <2>2. ListFits(h)' /\ PairsFit(h)' /\ QueueFits(h)'
    BY <1>1, <1>2, <2>1, RemovingKeeps
  <2>3. DrainFits(h)' /\ SuccessFits(h)'
    BY <1>8, Zenon DEF DrainFits, SuccessFits
  <2>4. ASSUME NEW j \in DOMAIN local[h].queue, j # local[h].i
        PROVE  nodeState'[local[h].queue[j]] = nodeState[local[h].queue[j]]
    <3>1. local[h].queue[j] \in Node
      BY <1>3
    <3>2. local[h].queue[j] # victim(h)
      BY <1>3, <2>4, Zenon DEF RemovalFits, QueueFits
    <3> QED
      BY <1>1, <3>1, <3>2, Zenon
  <2>5. ProgressFits(h)'
    <3> SUFFICES ASSUME NEW j \in DOMAIN local[h].queue
                 PROVE  /\ j < local[h].i => /\ nodeState'[local[h].queue[j]] = "deleted"
                                             /\ MachineGone(local[h].queue[j])
                        /\ j > local[h].i => nodeState'[local[h].queue[j]] \in {"registered", "vanished"}
                        /\ j = local[h].i => nodeState'[local[h].queue[j]] = "deleted"
      BY <1>1, <1>8, ZenonT(30) DEF ProgressFits, Present, MachineGone, poolVars
    <3>1. /\ j < local[h].i => nodeState[local[h].queue[j]] = "deleted" /\ MachineGone(local[h].queue[j])
          /\ j > local[h].i => nodeState[local[h].queue[j]] \in {"registered", "vanished"}
      BY <1>2, <1>3, Zenon DEF RemovalFits, ProgressFits, Present
    <3>2. local[h].i \in Nat /\ j \in Nat
      BY <1>3
    <3>3. CASE j = local[h].i
      BY <1>3, <1>8, <3>2, <3>3
    <3>4. CASE j # local[h].i
      BY <2>4, <3>1, <3>4
    <3> QED
      BY <3>3, <3>4, Zenon
  <2> QED
    BY <1>2, <1>5, <1>6, <2>2, <2>3, <2>5, OperationRemovalInv DEF RemovalFits
<1> QED
  BY <1>7, <1>8, DeleteNodeEffect

(* TerminateMachine gives up the machine of the current victim, which is   *)
(* then gone like those before it.                                         *)
LEMMA TerminateMachineRemoval ==
  ASSUME TypeInv, TypeInv', CandidateInv, RemovalInv, PoolRuns, NEW h \in Handler,
         TerminateMachine(h)
  PROVE  RemovalInv'
<1>1. /\ KeepsVictims(h) /\ req'[h] = req[h] /\ UNCHANGED kubeVars /\ pc[h] = "terminateMachine"
  BY TerminateMachineEffect, Zenon DEF Frame
<1>2. Operation(h) /\ pc[h] \in RemovingPC
  BY <1>1, Zenon DEF Operation, RemovingPC
<1>3. /\ RemovalFits(h) /\ local[h].queue \in Seq(Node) /\ victim(h) \in Node
      /\ local[h].i \in DOMAIN local[h].queue /\ local[h].queue[local[h].i] = victim(h)
  BY <1>2, VictimFacts
<1>4. TaintsFit' /\ DeletionsFit'
  BY <1>1, ClusterRests, ClusterFits DEF RemovalInv
<1>5. CASE GivesUp(h)
  BY <1>1, <1>2, <1>4, <1>5, GivingUpRemoval, Zenon DEF kubeVars
<1>6. CASE machineState' = [machineState EXCEPT ![externalID(victim(h))] = "TERMINATING"]
  <2>1. \/ /\ local'[h].i = local[h].i + 1 /\ local[h].i < Len(local[h].queue)
           /\ pc'[h] = "markUnschedulable"
        \/ /\ ~(local[h].i < Len(local[h].queue))
           /\ pc'[h] = "unlock" /\ result'[h] = "ok"
        \/ GivesUp(h)
    BY TerminateMachineEffect
  <2>2. ASSUME NEW j \in DOMAIN local[h].queue, j <= local[h].i
        PROVE  nodeState'[local[h].queue[j]] = "deleted" /\ MachineGone(local[h].queue[j])'
    <3>1. local[h].queue[j] \in Node /\ j \in Nat /\ local[h].i \in Nat
      BY <1>3
    <3>2. nodeState'[local[h].queue[j]] = "deleted"
      <4>1. ProgressFits(h) /\ nodeState' = nodeState
        BY <1>1, <1>3, Zenon DEF RemovalFits, kubeVars
      <4>2. CASE j < local[h].i
        BY <1>2, <4>1, <4>2, Zenon DEF ProgressFits
      <4>3. CASE j = local[h].i
        BY <1>1, <1>2, <4>1, <4>3, Zenon DEF ProgressFits
      <4>4. j < local[h].i \/ j = local[h].i
        BY <2>2, <3>1
      <4> QED
        BY <4>2, <4>3, <4>4, Zenon
    <3>3. CASE j = local[h].i
      <4>1. machineState'[externalID(victim(h))] = "TERMINATING"
        BY <1>3, <1>6, ExternalIDType, Zenon DEF TypeInv, TypeOK, PoolTypeOK
      <4> QED
        BY <1>1, <1>3, <3>2, <3>3, <4>1, Zenon DEF MachineGone, KeepsVictims
    <3>4. CASE j < local[h].i
      <4>1. MachineGone(local[h].queue[j])
        BY <1>2, <1>3, <3>4, Zenon DEF RemovalFits, ProgressFits
      <4>2. externalID(local[h].queue[j]) \in Machine
        BY <3>1, ExternalIDType
      <4> QED
        BY <1>1, <3>2, <4>1, <4>2, Zenon DEF MachineGone, PoolRuns, KeepsVictims
    <3> QED
      BY <2>2, <3>1, <3>3, <3>4
  <2>3. local'[h].queue = local[h].queue
    BY <1>1 DEF KeepsVictims
  <2>4. DOMAIN local[h].queue = 1..Len(local[h].queue) /\ Len(local[h].queue) \in Nat
    BY <1>3
  <2>5. CASE /\ local'[h].i = local[h].i + 1 /\ local[h].i < Len(local[h].queue)
             /\ pc'[h] = "markUnschedulable"
    <3>1. pc'[h] \in RemovingPC
      BY <2>5 DEF RemovingPC
    <3>2. ListFits(h)' /\ PairsFit(h)' /\ QueueFits(h)'
      BY <1>1, <1>2, <3>1, RemovingKeeps, Zenon DEF kubeVars
    <3>3. DrainFits(h)' /\ SuccessFits(h)'
      BY <2>5, Zenon DEF DrainFits, SuccessFits
    <3>4. ASSUME NEW j \in DOMAIN local[h].queue, j > local[h].i
          PROVE  nodeState'[local[h].queue[j]] \in {"registered", "vanished"}
      BY <1>1, <1>2, <1>3, <3>4, Zenon DEF RemovalFits, ProgressFits, Present, kubeVars
    <3>5. ASSUME NEW j \in DOMAIN local'[h].queue
          PROVE  /\ j < local'[h].i => nodeState'[local'[h].queue[j]] = "deleted" /\ MachineGone(local[h].queue[j])'
                 /\ j > local'[h].i => nodeState'[local'[h].queue[j]] \in {"registered", "vanished"}
                 /\ j = local'[h].i => nodeState'[local'[h].queue[j]] \in {"registered", "vanished"}
      <4>1. j \in Nat /\ local[h].i \in Nat /\ j \in DOMAIN local[h].queue
        BY <1>3, <2>3, <2>4
      <4>2. CASE j <= local[h].i
        <5>1. ~(j > local'[h].i) /\ j # local'[h].i
          BY <2>5, <4>1, <4>2
        <5>2. nodeState'[local[h].queue[j]] = "deleted" /\ MachineGone(local[h].queue[j])'
          BY <2>2, <4>1, <4>2, Zenon
        <5> QED
          BY <2>3, <5>1, <5>2, Zenon
      <4>3. CASE j > local[h].i
        <5>1. ~(j < local'[h].i)
          BY <2>5, <4>1, <4>3
        <5>2. nodeState'[local[h].queue[j]] \in {"registered", "vanished"}
          BY <3>4, <4>1, <4>3, Zenon
        <5> QED
          BY <2>3, <5>1, <5>2, Zenon
      <4>4. j <= local[h].i \/ j > local[h].i
        BY <4>1
      <4> QED
        BY <4>2, <4>3, <4>4, Zenon
    <3>6. ProgressFits(h)'
      BY <2>5, <3>5 DEF ProgressFits, Present, MachineGone
    <3> QED
      BY <1>2, <1>4, <3>2, <3>3, <3>6, OperationRemovalInv DEF RemovalFits
  <2>6. CASE ~(local[h].i < Len(local[h].queue)) /\ pc'[h] = "unlock" /\ result'[h] = "ok"
    <3>1. pc'[h] \in RemovingPC \cup {"unlock"}
      BY <2>6
    <3>2. ListFits(h)' /\ PairsFit(h)' /\ QueueFits(h)'
      BY <1>1, <1>2, <3>1, RemovingKeeps, Zenon DEF kubeVars
    <3>3. DrainFits(h)' /\ ProgressFits(h)'
      BY <2>6, Zenon DEF DrainFits, ProgressFits, RemovingPC
    <3>4. \A j \in DOMAIN local[h].queue : j <= local[h].i
      BY <1>3, <2>4, <2>6
    <3>5. SuccessFits(h)'
      BY <2>2, <2>3, <3>4 DEF SuccessFits, MachineGone
    <3> QED
      BY <1>2, <1>4, <3>2, <3>3, <3>5, OperationRemovalInv DEF RemovalFits
  <2> QED
    BY <1>5, <2>1, <2>5, <2>6
<1> QED
  BY <1>5, <1>6, TerminateMachineEffect, Zenon

(* Every step of every actor keeps the invariant. *)
LEMMA NextRemovalInv ==
  TypeInv /\ TypeInv' /\ CandidateInv /\ RemovalInv /\ [Next]_vars => RemovalInv'
<1> SUFFICES ASSUME TypeInv, TypeInv', CandidateInv, RemovalInv, [Next]_vars PROVE RemovalInv'
  OBVIOUS
<1>1. PoolRuns
  BY PoolForward
<1>2. CASE Restart
  <2>1. TaintsFit' /\ DeletionsFit'
    BY <1>1, <1>2, ClusterRests, ClusterFits DEF Restart, RemovalInv
  <2> QED
    BY <1>2, <2>1 DEF Restart, RemovalInv, UpdatingPC
<1>3. ASSUME NEW h \in Handler, Operation(h) PROVE RemovalInv'
  BY <1>1, <1>3, ListWorkerNodesRemoval, PairingRemoval, VettingRemoval, SetDesiredSizeRemoval,
     MarkUnschedulableRemoval, EvictOnePodRemoval, MarkSchedulableRemoval, DeleteNodeRemoval,
     TerminateMachineRemoval DEF Operation
<1> QED
  BY <1>1, <1>2, <1>3, StepKinds, OutsideRemovalInv

(* When the proxy is started no operation runs and nothing is tainted or   *)
(* deleted.                                                                *)
LEMMA InitRemovalInv == Init => RemovalInv
<1> SUFFICES ASSUME Init PROVE RemovalInv
  OBVIOUS
<1>1. tainted = {} /\ \A n \in Node : nodeState[n] # "deleted"
  BY ProxyAssumption DEF Init, InitType
<1>2. \A h \in Handler : pc[h] \notin UpdatingPC
  BY DEF Init, UpdatingPC
<1> QED
  BY <1>1, <1>2 DEF RemovalInv, TaintsFit, DeletionsFit

(* The inductive invariants hold together. *)
LEMMA RemovalInvariant == Spec => [](TypeInv /\ CandidateInv /\ RemovalInv)
BY InitTypeInv, NextTypeInv, InitCandidateInv, NextCandidateInv, InitRemovalInv, NextRemovalInv,
   PTL DEF Spec

-----------------------------------------------------------------------------
(* What follows.                                                           *)

(* A set whose members are all in a sequence is no larger than it. *)
LEMMA SequenceBound ==
  ASSUME NEW q \in Seq(Node), NEW D, \A n \in D : \E j \in DOMAIN q : q[j] = n
  PROVE  IsFiniteSet(D) /\ Cardinality(D) <= Len(q)
<1> DEFINE f == [n \in D |-> CHOOSE j \in DOMAIN q : q[j] = n]
<1>1. Len(q) \in Nat /\ DOMAIN q = 1..Len(q)
  OBVIOUS
<1>2. \A n \in D : f[n] \in DOMAIN q /\ q[f[n]] = n
  OBVIOUS
<1>3. f \in Injection(D, 1..Len(q))
  <2>1. f \in [D -> 1..Len(q)]
    BY <1>1, <1>2
  <2> HIDE DEF f
  <2> QED
    BY <1>2, <2>1 DEF Injection, IsInjective
<1> HIDE DEF f
<1>4. IsFiniteSet(1..Len(q)) /\ Cardinality(1..Len(q)) = Len(q)
  <2>1. PICK k \in Nat : k = Len(q)
    BY <1>1, Zenon
  <2>2. IsFiniteSet(1..k) /\ Cardinality(1..k) = k
    BY FS_Interval, SMTT(20)
  <2> QED
    BY <2>1, <2>2, Zenon
<1> QED
  BY <1>3, <1>4, FS_Injection

(* SetDesiredSize never deletes so many of the nodes it counted that fewer *)
(* than desiredSize are left, whatever fails and wherever its loop ends:   *)
(* the deleted ones are among the at most numExcessNodes of its queue.     *)
THEOREM NeverOvershoots == Spec => []NoOvershoot
<1>1. TypeInv /\ CandidateInv /\ RemovalInv => NoOvershoot
  <2> SUFFICES ASSUME TypeInv, RemovalInv, NEW h \in Handler, Updating(h),
                      req[h].op = "setDesiredSize", local[h].queue # << >>
               PROVE  Cardinality({n \in local[h].pairs : nodeState[n] # "deleted"}) >= req[h].size
    BY DEF NoOvershoot
  <2> DEFINE P == local[h].pairs
             D == {n \in P : nodeState[n] = "deleted"}
  <2>1. QueueFits(h)
    BY DEF RemovalInv, RemovalFits, Updating
  <2>2. local[h].queue \in Seq(Node) /\ P \in SUBSET Node
    BY DEF TypeInv, TypeOK, LocalType
  <2>3. IsFiniteSet(P) /\ Cardinality(P) \in Nat
    BY <2>2, ProxyAssumption, FS_Subset, FS_CardinalityType
  <2>4. IsFiniteSet(D) /\ Cardinality(D) \in Nat /\ Cardinality(D) <= Len(local[h].queue)
    <3>1. \A n \in D : \E j \in DOMAIN local[h].queue : local[h].queue[j] = n
      BY <2>1 DEF QueueFits
    <3> HIDE DEF D
    <3> QED
      BY <2>2, <3>1, SequenceBound, FS_CardinalityType
  <2>5. {n \in local[h].pairs : nodeState[n] # "deleted"} = P \ D /\ P \cap D = D
    OBVIOUS
  <2>6. Cardinality(P \ D) = Cardinality(P) - Cardinality(D)
    <3> HIDE DEF P, D
    <3>1. Cardinality(P \ D) = Cardinality(P) - Cardinality(P \cap D)
      BY <2>3, FS_Difference, Zenon
    <3> QED
      BY <2>5, <3>1, Zenon
  <2>7. Len(local[h].queue) <= Cardinality(P) - req[h].size
    BY <2>1 DEF QueueFits
  <2>8. req[h].size \in Int /\ Len(local[h].queue) \in Nat
    <3>1. req[h] \in RequestType
      BY InOperation DEF Updating
    <3> QED
      BY <2>2, <3>1 DEF RequestType
  <2> HIDE DEF P, D
  <2>9. Cardinality(P \ D) >= req[h].size
    BY <2>3, <2>4, <2>6, <2>7, <2>8
  <2> QED
    BY <2>5, <2>9, Zenon
<1> QED
  BY <1>1, RemovalInvariant, PTL

(* When SetDesiredSize or TerminateMachine reports success after removing  *)
(* nodes, each is deleted and its machine is no longer allocated, also if  *)
(* earlier calls were delayed or other clients interfered.                 *)
THEOREM SuccessIsTrue == Spec => []SuccessMeansGone
<1>1. RemovalInv => SuccessMeansGone
  <2> SUFFICES ASSUME RemovalInv, NEW h \in Handler, pc[h] = "unlock", result[h] = "ok",
                      NEW j \in DOMAIN local[h].queue
               PROVE  /\ nodeState[local[h].queue[j]] = "deleted"
                      /\ ~IsMachineAllocated(externalID(local[h].queue[j]))
    BY DEF SuccessMeansGone, Range
  <2>1. SuccessFits(h)
    BY DEF RemovalInv, RemovalFits, UpdatingPC, PC
  <2> QED
    BY <2>1 DEF SuccessFits, MachineGone, IsMachineAllocated
<1> QED
  BY <1>1, RemovalInvariant, PTL

(* DrainNode misses no pod it knew of: when a node is deleted, every pod   *)
(* that its deletion kills without an eviction had not been there when the *)
(* node was listed, or came back because it tolerates the taint.           *)
THEOREM DrainMissesNoKnownPod == Spec => OnlyUnseenPodsAreStranded
<1> DEFINE Explained(n) ==
      \E h \in Handler :
        /\ Removing(h) /\ n = victim(h)
        /\ \A p \in Stranded(n) :
             \/ p \notin local[h].pods[n]
             \/ hasToleration(PodSpec[p], NodeAboutToBeDrainedTaint)
<1>1. ASSUME TypeInv, TypeInv', CandidateInv, RemovalInv, [Next]_vars,
             NEW n \in Node, nodeState[n] # "deleted", nodeState'[n] = "deleted"
      PROVE  Explained(n)
  <2>1. ~Outside /\ ~Restart
    BY <1>1, ClusterDeletesNothing DEF Outside, Restart, kubeVars
  <2>2. PICK h \in Handler : Operation(h)
    BY <1>1, <2>1, StepKinds
  <2>3. DeleteNode(h)
    <3>1. CASE UNCHANGED nodeState
      BY <1>1, <3>1
    <3>2. CASE ListWorkerNodes(h) \/ GetMachinePool(h) \/ GetMachine(h)
               \/ CheckCandidate(h) \/ SelectVictims(h) \/ SetDesiredSize(h)
      BY <3>1, <3>2, Zenon DEF ListWorkerNodes, GetMachinePool, GetMachine, CheckCandidate,
         SelectVictims, SetDesiredSize, kubeVars
    <3>3. CASE MarkUnschedulable(h) \/ EvictOnePod(h) \/ MarkSchedulable(h) \/ TerminateMachine(h)
      BY <1>1, <3>1, <3>3, MarkUnschedulableEffect, EvictOnePodEffect, MarkSchedulableEffect,
         TerminateMachineEffect, Zenon DEF kubeVars
    <3> QED
      BY <2>2, <3>2, <3>3 DEF Operation
  <2>4. pc[h] = "deleteNode" /\ n = victim(h)
    BY <1>1, <2>3, DeleteNodeEffect DEF kubeVars
  <2>5. Removing(h) /\ DrainFits(h)
    BY <1>1, <2>4, VictimFacts DEF Removing, RemovingPC, RemovalFits
  <2>6. ASSUME NEW p \in Stranded(n), p \in local[h].pods[n]
        PROVE  hasToleration(PodSpec[p], NodeAboutToBeDrainedTaint)
    <3>1. p \in podsToDrain(h) /\ host[p] = victim(h) /\ p \notin leaving
      BY <2>4, <2>6 DEF Stranded, PodsOn, podsToDrain, NonSystemActive
    <3> QED
      BY <2>4, <2>5, <3>1 DEF DrainFits
  <2> QED
    BY <2>4, <2>5, <2>6
<1>2. ASSUME TypeInv, TypeInv', CandidateInv, RemovalInv, [Next]_vars
      PROVE  [\A n \in Node : nodeState[n] # "deleted" /\ nodeState'[n] = "deleted" =>
                Explained(n)]_vars
  BY <1>1, <1>2
<1> QED
  BY <1>2, RemovalInvariant, PTL DEF Spec, OnlyUnseenPodsAreStranded
=============================================================================
