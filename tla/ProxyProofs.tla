---------------------------- MODULE ProxyProofs ----------------------------
(***************************************************************************)
(* Proofs of type correctness and of mutual exclusion, for every number of *)
(* handlers, nodes, machines and pods and every bound on the faults; and   *)
(* the lemmas that the other proofs about module Proxy share.              *)
(***************************************************************************)
EXTENDS ProxyProperties, FiniteSetTheorems, TLAPS

(* A handler that has a request serves one that clients may send, and an   *)
(* operation runs only for a request that was validated.                   *)
RequestsAreValid ==
  \A h \in Handler :
    /\ pc[h] # "idle" => req[h] \in Request
    /\ pc[h] = "lock" \/ Updating(h) => Validate(req[h]) /\ req[h].op # "forward"

(* Whoever runs an operation holds the lock. *)
UpdaterHoldsLock == \A h \in Handler : Updating(h) => updateLock = h

(* The steps of an operation before the removal of nodes begins. *)
SelectingPC == {"listWorkerNodes", "getMachinePool", "getMachine", "checkCandidates"}

(* Local variables l fit the place label in an operation for request r:    *)
(* the loop has not begun before there is a queue, candidates are looked   *)
(* for only when there are too many nodes, and while a node is taken down  *)
(* the loop index is within the queue.                                     *)
LocalsFit(label, l, r) ==
  /\ label \in SelectingPC => l.i = 1
  /\ label = "checkCandidates" /\ r.op = "setDesiredSize" => Cardinality(l.pairs) > r.size
  /\ label = "getMachine" => r.op = "terminateMachine"
  /\ label \in {"getMachinePool", "setDesiredSize"} => r.op = "setDesiredSize"
  /\ label \in RemovingPC => l.i \in 1..Len(l.queue)

LocalsAreSound ==
  \A h \in Handler :
    IF Updating(h) THEN LocalsFit(pc[h], local[h], req[h]) ELSE local[h] = NoLocals

(* The inductive invariant: TypeOK alone is not inductive, since the type  *)
(* of what a step writes depends on the request and on the victim.         *)
TypeInv == TypeOK /\ RequestsAreValid /\ UpdaterHoldsLock /\ LocalsAreSound

-----------------------------------------------------------------------------
(* The invariant holds when the proxy has just been started (NewServer).   *)
LEMMA InitTypeInv == Init => TypeInv
<1> SUFFICES ASSUME Init PROVE TypeInv
  OBVIOUS
<1>1. KubeTypeOK
  BY ProxyAssumption DEF Init, KubeTypeOK, InitType, NodeState
<1>2. PoolTypeOK
  BY ProxyAssumption DEF Init, PoolTypeOK, InitType
<1>3. NoLocals \in LocalType
  BY DEF NoLocals, LocalType
<1>4. TypeOK
  BY <1>1, <1>2, <1>3, ProxyAssumption DEF Init, TypeOK, PC, Result
<1>5. RequestsAreValid /\ UpdaterHoldsLock /\ LocalsAreSound
  BY DEF Init, RequestsAreValid, UpdaterHoldsLock, LocalsAreSound, Updating, UpdatingPC
<1> QED
  BY <1>4, <1>5 DEF TypeInv

-----------------------------------------------------------------------------
(* What the effects of calls do to the types.                              *)

(* The counter of faults stays within its bound.                           *)
LEMMA FaultType ==
  ASSUME TypeOK, NoFault \/ Fault
  PROVE  faults' \in 0..MaxFaults
BY ProxyAssumption DEF TypeOK, NoFault, Fault

(* Every node's ExternalID is a machine identifier.                        *)
LEMMA ExternalIDType == ASSUME NEW n \in Node PROVE externalID(n) \in Machine
BY ProxyAssumption DEF externalID

(* The calls of KubeClient that change the cluster, and what the cluster   *)
(* does by itself, keep the types of its variables.                        *)
LEMMA KubeEffectType ==
  ASSUME KubeTypeOK, NEW n \in Node, NEW p \in Pod,
         \/ UNCHANGED kubeVars
         \/ AddTaint(n) \/ RemoveTaint(n) \/ EvictPod(p) \/ RemoveNode(n)
         \/ SchedulerBinds(p, n) \/ PodGone(p) \/ NodeJoins(n) \/ NodeVanishes(n)
  PROVE  KubeTypeOK'
BY DEF KubeTypeOK, kubeVars, NodeState, AddTaint, RemoveTaint, EvictPod, RemoveNode,
       SchedulerBinds, PodGone, NodeJoins, NodeVanishes

(* The backend keeps the types of its variables when it carries out a      *)
(* call.                                                                   *)
LEMMA CarryOutType ==
  ASSUME PoolTypeOK, NEW call \in Call, CarryOut(call)
  PROVE  /\ machineState' \in [Machine -> MachineState]
         /\ active' \subseteq Machine /\ evictable' \subseteq Machine /\ desiredSize' \in Nat
<1>1. CASE call.op = "terminate"
  <2>1. call \in [op : {"terminate"}, machine : Machine, decrement : BOOLEAN]
    BY <1>1 DEF Call
  <2> QED
    BY <1>1, <2>1 DEF PoolTypeOK, CarryOut, MachineState
<1>2. CASE call.op = "setSize"
  <2>1. call \in [op : {"setSize"}, size : Nat]
    BY <1>2 DEF Call
  <2> QED
    BY <1>2, <2>1 DEF PoolTypeOK, CarryOut
<1> QED
  BY <1>1, <1>2 DEF CarryOut

(* So does every way in which TerminateMachine or SetDesiredSize of the    *)
(* cloudpool client can end.                                               *)
LEMMA BackendType ==
  ASSUME PoolTypeOK, NEW call \in Call, BackendDone(call) \/ BackendFails(call)
  PROVE  PoolTypeOK'
BY CarryOutType DEF PoolTypeOK, poolVars, BackendDone, BackendFails, Delay

(* So does what the backend does by itself.                                *)
LEMMA PoolStepType ==
  ASSUME PoolTypeOK,
         \/ \E m \in Machine : Launch(m) \/ MachineAdvances(m) \/ ScaleIn(m)
         \/ \E call \in delayed : DelayedCallArrives(call)
         \/ \E m \in Machine, a, e \in BOOLEAN : SetMembership(m, a, e)
  PROVE  PoolTypeOK'
<1>1. CASE \E m \in Machine : Launch(m) \/ MachineAdvances(m) \/ ScaleIn(m)
  BY <1>1 DEF PoolTypeOK, Launch, MachineAdvances, ScaleIn, MachineState
<1>2. CASE \E call \in delayed : DelayedCallArrives(call)
  BY <1>2, CarryOutType DEF PoolTypeOK, DelayedCallArrives
<1>3. CASE \E m \in Machine, a, e \in BOOLEAN : SetMembership(m, a, e)
  BY <1>3 DEF PoolTypeOK, SetMembership
<1> QED
  BY <1>1, <1>2, <1>3

-----------------------------------------------------------------------------
(* A step inside an operation, seen from outside: it moves the control of  *)
(* its handler to label, leaves l in the local variables and r as result.  *)

(* A step of an operation under updateLock changes only its own handler's  *)
(* state, so it preserves the invariant when its new locals fit its new    *)
(* place.                                                                  *)
LEMMA OperationStep ==
  ASSUME TypeInv, NEW h \in Handler, Updating(h),
         KubeTypeOK', PoolTypeOK', NoFault \/ Fault, UNCHANGED <<updateLock, req>>,
         NEW label \in UpdatingPC, pc' = [pc EXCEPT ![h] = label],
         NEW r \in Result, result' = [result EXCEPT ![h] = r],
         NEW l \in LocalType, local' = [local EXCEPT ![h] = l],
         LocalsFit(label, l, req[h])
  PROVE  TypeInv'
<1> USE DEF TypeInv, UpdatingPC
<1>1. TypeOK'
  BY FaultType DEF TypeOK
<1>2. RequestsAreValid'
  BY DEF TypeOK, RequestsAreValid, Updating
<1>3. UpdaterHoldsLock'
  BY DEF TypeOK, UpdaterHoldsLock, Updating
<1>4. LocalsAreSound'
  BY DEF TypeOK, LocalsAreSound, Updating
<1> QED
  BY <1>1, <1>2, <1>3, <1>4

(* The operation returns: local variables stay or are replaced by l. *)
LEMMA ReturnStep ==
  ASSUME TypeInv, NEW h \in Handler, Updating(h),
         KubeTypeOK', PoolTypeOK', NoFault \/ Fault, UNCHANGED <<updateLock, req>>,
         NEW r \in Result, Return(h, r),
         NEW l \in LocalType, local' = [local EXCEPT ![h] = l]
  PROVE  TypeInv'
<1>1. "unlock" \in UpdatingPC /\ LocalsFit("unlock", l, req[h])
  BY DEF UpdatingPC, RemovingPC, SelectingPC, PC, LocalsFit
<1> QED
  BY <1>1, OperationStep, Zenon DEF Return

(* The operation goes on at label. *)
LEMMA GotoStep ==
  ASSUME TypeInv, NEW h \in Handler, Updating(h),
         KubeTypeOK', PoolTypeOK', NoFault \/ Fault, UNCHANGED <<updateLock, req>>,
         NEW label \in UpdatingPC, Goto(h, label),
         NEW l \in LocalType, local' = [local EXCEPT ![h] = l],
         LocalsFit(label, l, req[h])
  PROVE  TypeInv'
<1>1. result[h] \in Result /\ result' = [result EXCEPT ![h] = result[h]]
  BY DEF TypeInv, TypeOK, Goto
<1> QED
  BY <1>1, OperationStep, Zenon DEF Goto

(* What is known of a handler that runs an operation. *)
LEMMA InOperation ==
  ASSUME TypeInv, NEW h \in Handler, pc[h] \in UpdatingPC
  PROVE  /\ Updating(h)
         /\ local[h] \in LocalType /\ LocalsFit(pc[h], local[h], req[h])
         /\ req[h] \in RequestType /\ req[h].op \in {"setDesiredSize", "terminateMachine"}
         /\ UNCHANGED local => local' = [local EXCEPT ![h] = local[h]]
         /\ UNCHANGED kubeVars => KubeTypeOK'
         /\ UNCHANGED poolVars => PoolTypeOK'
<1>1. Updating(h) /\ local[h] \in LocalType
  BY DEF TypeInv, TypeOK, Updating
<1>2. req[h] \in Request /\ req[h].op # "forward"
  BY <1>1 DEF TypeInv, RequestsAreValid, UpdatingPC, Updating
<1>3. req[h] \in RequestType /\ req[h].op \in {"setDesiredSize", "terminateMachine"}
  BY <1>2, ProxyAssumption DEF RequestType
<1>4. UNCHANGED local => local' = [local EXCEPT ![h] = local[h]]
  BY DEF TypeInv, TypeOK
<1>5. UNCHANGED kubeVars => KubeTypeOK'
  BY DEF TypeInv, TypeOK, KubeTypeOK, kubeVars
<1>6. UNCHANGED poolVars => PoolTypeOK'
  BY DEF TypeInv, TypeOK, PoolTypeOK, poolVars
<1> QED
  BY <1>1, <1>3, <1>4, <1>5, <1>6 DEF TypeInv, LocalsAreSound

(* ... and of one that is taking a node down. *)
LEMMA VictimType ==
  ASSUME TypeInv, NEW h \in Handler, pc[h] \in RemovingPC
  PROVE  victim(h) \in Node /\ local[h].i \in 1..Len(local[h].queue) /\ podsToDrain(h) \subseteq Pod
<1>1. pc[h] \in UpdatingPC
  BY DEF RemovingPC, UpdatingPC, PC
<1>2. local[h] \in LocalType /\ local[h].i \in 1..Len(local[h].queue)
  BY <1>1, InOperation DEF LocalsFit
<1>3. victim(h) \in Node
  BY <1>2 DEF LocalType, victim
<1>4. local[h].pods[victim(h)] \subseteq Pod
  BY <1>2, <1>3 DEF LocalType
<1> QED
  BY <1>2, <1>3, <1>4 DEF podsToDrain

(* ListWorkerNodes (nodescaler.go) preserves the invariant.                *)
LEMMA StepListWorkerNodes ==
  ASSUME TypeInv, NEW h \in Handler, ListWorkerNodes(h) PROVE TypeInv'
<1> DEFINE workers == {n \in Registered : ~isMasterNode(getNodeInfo(n))}
           matching == getNodeWithExternalID(workers, req[h].machine)
           l == [local[h] EXCEPT
                   !.nodes = IF req[h].op = "setDesiredSize" THEN workers ELSE matching,
                   !.pods = [n \in Node |-> IF n \in workers THEN PodsOn(n) ELSE {}]]
<1>1. Updating(h) /\ KubeTypeOK' /\ PoolTypeOK' /\ UNCHANGED <<updateLock, req>>
  BY DEF TypeInv, TypeOK, ListWorkerNodes, Updating, UpdatingPC, PC,
         KubeTypeOK, PoolTypeOK, kubeVars, poolVars
<1>2. local[h] \in LocalType /\ local[h].i = 1 /\ local' \in {local, [local EXCEPT ![h] = l]}
  BY <1>1, Zenon DEF TypeInv, TypeOK, ListWorkerNodes, LocalsAreSound, LocalsFit, SelectingPC
<1>3. l \in LocalType /\ l.i = 1
  <2>1. workers \subseteq Node /\ matching \subseteq Node
    BY DEF Registered, getNodeWithExternalID
  <2>2. \A n \in Node : PodsOn(n) \subseteq Pod
    BY DEF PodsOn
  <2> HIDE DEF workers, matching
  <2> QED
    BY <1>2, <2>1, <2>2, Zenon DEF LocalType
<1>4. PICK k \in LocalType : local' = [local EXCEPT ![h] = k] /\ k.i = 1
  BY <1>2, <1>3, Zenon DEF TypeInv, TypeOK
<1>5. NoFault \/ Fault
  BY DEF ListWorkerNodes
<1>6. \/ req[h].op = "setDesiredSize" /\ Goto(h, "getMachinePool")
      \/ req[h].op # "setDesiredSize" /\ Goto(h, "getMachine")
      \/ Return(h, "error")
  BY DEF ListWorkerNodes
<1>7. /\ "getMachinePool" \in UpdatingPC
      /\ req[h].op = "setDesiredSize" => LocalsFit("getMachinePool", k, req[h])
      /\ "getMachine" \in UpdatingPC
      /\ req[h].op # "setDesiredSize" => LocalsFit("getMachine", k, req[h])
  BY <1>4, InOperation, <1>1, Zenon DEF UpdatingPC, Updating, RemovingPC, PC, LocalsFit
<1>8. "error" \in Result
  BY DEF Result
<1> HIDE DEF l
<1> QED
  BY <1>1, <1>4, <1>5, <1>6, <1>7, <1>8, GotoStep, ReturnStep, Zenon

(* GetMachinePool and the comparison of sizes in Proxy.SetDesiredSize      *)
(* preserve the invariant.                                                 *)
LEMMA StepGetMachinePool ==
  ASSUME TypeInv, NEW h \in Handler, GetMachinePool(h) PROVE TypeInv'
<1> DEFINE pairs == pairNodesWithMachines(local[h].nodes)
           l == [local[h] EXCEPT !.pairs = pairs, !.unchecked = pairs,
                                 !.evictable = {n \in pairs : isMachineEvictable(n)}]
<1>1. Updating(h) /\ KubeTypeOK' /\ PoolTypeOK' /\ UNCHANGED <<updateLock, req>>
  BY Zenon DEF TypeInv, TypeOK, GetMachinePool, Updating, UpdatingPC, PC,
         KubeTypeOK, PoolTypeOK, kubeVars, poolVars
<1>2. local[h] \in LocalType /\ local[h].i = 1
  BY <1>1, Zenon DEF TypeInv, TypeOK, GetMachinePool, LocalsAreSound, LocalsFit, SelectingPC
<1>3. l \in LocalType /\ l.i = 1 /\ l.pairs = pairs
  <2>1. pairs \subseteq Node
    BY <1>2 DEF LocalType, pairNodesWithMachines
  <2> HIDE DEF pairs
  <2> QED
    BY <1>2, <2>1, Zenon DEF LocalType
<1>4. NoFault \/ Fault
  BY Zenon DEF GetMachinePool
<1>5. "error" \in Result
  BY DEF Result
<1>6. CASE Return(h, "error") /\ UNCHANGED local
  <2>1. local' = [local EXCEPT ![h] = local[h]]
    BY <1>6 DEF TypeInv, TypeOK
  <2> QED
    BY <1>1, <1>2, <1>4, <1>5, <1>6, <2>1, ReturnStep, Zenon
<1>7. CASE local' = [local EXCEPT ![h] = l] /\ req[h].size >= Cardinality(pairs)
           /\ Goto(h, "setDesiredSize")
  <2>1. req[h].op = "setDesiredSize"
    BY <1>1, Zenon DEF TypeInv, GetMachinePool, LocalsAreSound, LocalsFit
  <2>2. "setDesiredSize" \in UpdatingPC /\ LocalsFit("setDesiredSize", l, req[h])
    BY <2>1 DEF UpdatingPC, RemovingPC, SelectingPC, PC, LocalsFit
  <2> HIDE DEF l, pairs
  <2> QED
    BY <1>1, <1>3, <1>4, <1>7, <2>2, GotoStep, Zenon
<1>8. CASE local' = [local EXCEPT ![h] = l] /\ ~(req[h].size >= Cardinality(pairs))
           /\ Goto(h, "checkCandidates")
  <2>1. req[h].size \in Int /\ Cardinality(pairs) \in Nat
    <3>1. req[h] \in RequestType
      BY <1>1, ProxyAssumption, Zenon DEF TypeInv, RequestsAreValid, GetMachinePool
    <3>2. IsFiniteSet(pairs)
      BY <1>2, ProxyAssumption, FS_Subset DEF LocalType, pairNodesWithMachines
    <3> QED
      BY <3>1, <3>2, FS_CardinalityType DEF RequestType
  <2>2. "checkCandidates" \in UpdatingPC /\ LocalsFit("checkCandidates", l, req[h])
    <3> HIDE DEF l, pairs
    <3> QED
      BY <1>3, <1>8, <2>1 DEF UpdatingPC, RemovingPC, SelectingPC, PC, LocalsFit
  <2> HIDE DEF l, pairs
  <2> QED
    BY <1>1, <1>3, <1>4, <1>8, <2>2, GotoStep, Zenon
<1> QED
  BY <1>6, <1>7, <1>8, Zenon DEF GetMachinePool

(* GetMachine in Proxy.TerminateMachine preserves the invariant.           *)
LEMMA StepGetMachine ==
  ASSUME TypeInv, NEW h \in Handler, GetMachine(h) PROVE TypeInv'
<1>1. pc[h] = "getMachine" /\ pc[h] \in UpdatingPC
  BY Zenon DEF GetMachine, UpdatingPC, PC
<1>2. UNCHANGED <<updateLock, req, kubeVars, poolVars>> /\ (NoFault \/ Fault)
  BY Zenon DEF GetMachine
<1>3. "error" \in Result /\ "checkCandidates" \in UpdatingPC
  BY DEF Result, UpdatingPC, PC
<1>4. CASE Return(h, "error") /\ UNCHANGED local
  BY <1>1, <1>2, <1>3, <1>4, InOperation, ReturnStep
<1>5. CASE Goto(h, "checkCandidates")
  <2> DEFINE e(n) == {n} \cap {m \in Node : isMachineEvictable(m)}
             l(n) == [local[h] EXCEPT !.pairs = {n}, !.unchecked = {n}, !.evictable = e(n)]
  <2>1. PICK n \in local[h].nodes : local' = [local EXCEPT ![h] = l(n)]
    BY <1>5, <1>1, Zenon DEF GetMachine, Goto, Return, TypeInv, TypeOK
  <2>2. e(n) \subseteq Node
    OBVIOUS
  <2>3. l(n) \in LocalType /\ l(n).i = 1
    <3>1. local[h] \in LocalType /\ local[h].i = 1
      BY <1>1, InOperation DEF LocalsFit, SelectingPC
    <3>2. n \in Node
      BY <2>1, <3>1 DEF LocalType
    <3> HIDE DEF e
    <3> QED
      BY <2>2, <3>1, <3>2, Zenon DEF LocalType
  <2>4. req[h].op # "setDesiredSize"
    BY <1>1, InOperation DEF LocalsFit
  <2>5. LocalsFit("checkCandidates", l(n), req[h])
    BY <2>3, <2>4 DEF LocalsFit, SelectingPC, RemovingPC
  <2> HIDE DEF l
  <2> QED
    BY <1>1, <1>2, <1>3, <1>5, <2>1, <2>3, <2>5, InOperation, GotoStep, Zenon
<1> QED
  BY <1>4, <1>5, Zenon DEF GetMachine

(* A turn of partitionScaleDownCandidates preserves the invariant.         *)
LEMMA StepCheckCandidate ==
  ASSUME TypeInv, NEW h \in Handler, CheckCandidate(h) PROVE TypeInv'
<1>1. pc[h] = "checkCandidates" /\ pc[h] \in UpdatingPC
  BY DEF CheckCandidate, UpdatingPC, PC
<1>2. UNCHANGED <<updateLock, req, kubeVars, poolVars>> /\ (NoFault \/ Fault)
  BY DEF CheckCandidate
<1>3. local[h] \in LocalType /\ LocalsFit("checkCandidates", local[h], req[h])
  BY <1>1, InOperation
<1>4. PICK n \in local[h].unchecked :
        \/ local' = [local EXCEPT ![h].unchecked = @ \ {n}, ![h].victims = @ \cup {n}]
             /\ UNCHANGED <<pc, result>>
        \/ local' = [local EXCEPT ![h].unchecked = @ \ {n}] /\ UNCHANGED <<pc, result>>
        \/ Goto(h, "panicked") /\ UNCHANGED local
  BY DEF CheckCandidate
<1>5. n \in Node
  BY <1>3, <1>4 DEF LocalType
<1>6. CASE UNCHANGED <<pc, result>>
  <2> DEFINE l1 == [local[h] EXCEPT !.unchecked = @ \ {n}, !.victims = @ \cup {n}]
             l2 == [local[h] EXCEPT !.unchecked = @ \ {n}]
  <2>1. local' = [local EXCEPT ![h] = l1] \/ local' = [local EXCEPT ![h] = l2]
        \/ Goto(h, "panicked")
    BY <1>4 DEF TypeInv, TypeOK
  <2>2. ~Goto(h, "panicked")
    BY <1>1, <1>6 DEF Goto, TypeInv, TypeOK
  <2>3. l1 \in LocalType /\ l1.i = local[h].i /\ l1.pairs = local[h].pairs
    BY <1>3, <1>5, Zenon DEF LocalType
  <2>4. l2 \in LocalType /\ l2.i = local[h].i /\ l2.pairs = local[h].pairs
    BY <1>3, SMTT(20) DEF LocalType
  <2>5. Goto(h, "checkCandidates")
    BY <1>1, <1>6 DEF Goto, TypeInv, TypeOK
  <2>6. PICK l \in LocalType : /\ local' = [local EXCEPT ![h] = l]
                               /\ l.i = local[h].i /\ l.pairs = local[h].pairs
    <3> HIDE DEF l1, l2
    <3> QED
      BY <2>1, <2>2, <2>3, <2>4
  <2>7. LocalsFit("checkCandidates", l, req[h])
    BY <1>3, <2>6 DEF LocalsFit, SelectingPC, RemovingPC
  <2> QED
    BY <1>1, <1>2, <2>5, <2>6, <2>7, InOperation, GotoStep, Zenon
<1>7. CASE Goto(h, "panicked") /\ UNCHANGED local
  <2>1. "panicked" \in UpdatingPC /\ LocalsFit("panicked", local[h], req[h])
    BY DEF UpdatingPC, PC, LocalsFit, SelectingPC, RemovingPC
  <2> QED
    BY <1>1, <1>2, <1>7, <2>1, InOperation, GotoStep
<1> QED
  BY <1>4, <1>6, <1>7

(* A prefix of an ordering of a set of nodes is a sequence of nodes. *)
LEMMA PrefixType ==
  ASSUME NEW S \in SUBSET Node, NEW s \in Injection(1..Cardinality(S), S), NEW k \in 1..Cardinality(S)
  PROVE  /\ SubSeq(s, 1, k) \in Seq(Node) /\ Len(SubSeq(s, 1, k)) = k
         /\ \A j \in 1..k : SubSeq(s, 1, k)[j] = s[j] /\ s[j] \in S
<1>1. Cardinality(S) \in Nat
  BY ProxyAssumption, FS_Subset, FS_CardinalityType
<1>2. s \in [1..Cardinality(S) -> S]
  BY DEF Injection
<1>3. s \in Seq(Node) /\ Len(s) = Cardinality(S)
  BY <1>1, <1>2
<1> QED
  BY <1>1, <1>2, <1>3

(* nodesToRemove in Proxy.SetDesiredSize is between one and the number of  *)
(* candidates, so the loop stays within the slice.                         *)
LEMMA NodesToRemove ==
  ASSUME TypeInv, NEW h \in Handler, pc[h] = "checkCandidates", local[h].victims # {}
  PROVE  /\ nodesToRemove(h) \in 1..Cardinality(local[h].victims)
         /\ req[h].op = "setDesiredSize" =>
              nodesToRemove(h) <= Cardinality(local[h].pairs) - req[h].size
<1>1. pc[h] \in UpdatingPC
  BY DEF UpdatingPC, PC
<1>2. /\ local[h] \in LocalType /\ req[h] \in RequestType
      /\ req[h].op \in {"setDesiredSize", "terminateMachine"}
      /\ req[h].op = "setDesiredSize" => Cardinality(local[h].pairs) > req[h].size
  BY <1>1, InOperation DEF LocalsFit
<1>3. IsFiniteSet(local[h].victims) /\ IsFiniteSet(local[h].pairs)
  BY <1>2, ProxyAssumption, FS_Subset DEF LocalType
<1>4. Cardinality(local[h].victims) \in Nat \ {0} /\ Cardinality(local[h].pairs) \in Nat
  BY <1>3, FS_CardinalityType, FS_EmptySet
<1>5. req[h].size \in Int
  BY <1>2 DEF RequestType
<1> QED
  BY <1>2, <1>4, <1>5 DEF nodesToRemove

(* Sorting the candidates and picking the victims preserves the invariant. *)
LEMMA StepSelectVictims ==
  ASSUME TypeInv, NEW h \in Handler, SelectVictims(h) PROVE TypeInv'
<1>1. pc[h] = "checkCandidates" /\ pc[h] \in UpdatingPC
  BY DEF SelectVictims, UpdatingPC, PC
<1>2. UNCHANGED <<updateLock, req, kubeVars, poolVars>> /\ (NoFault \/ Fault)
  BY DEF SelectVictims, NoFault
<1>3. CASE Return(h, "error") /\ UNCHANGED local
  BY <1>1, <1>2, <1>3, InOperation, ReturnStep DEF Result
<1>4. CASE local[h].victims # {}
  <2> DEFINE k == nodesToRemove(h)
             l(s) == [local[h] EXCEPT !.queue = SubSeq(s, 1, k)]
  <2>1. PICK s \in sortByLoad(h) : local' = [local EXCEPT ![h] = l(s)]
    BY <1>4 DEF SelectVictims, TypeInv, TypeOK
  <2>2. local[h] \in LocalType /\ local[h].i = 1
    BY <1>1, InOperation DEF LocalsFit, SelectingPC
  <2>3. /\ local[h].victims \in SUBSET Node
        /\ s \in Injection(1..Cardinality(local[h].victims), local[h].victims)
    BY <2>1, <2>2 DEF LocalType, sortByLoad
  <2>4. k \in 1..Cardinality(local[h].victims)
    BY <1>1, <1>4, NodesToRemove
  <2>5. SubSeq(s, 1, k) \in Seq(Node) /\ Len(SubSeq(s, 1, k)) = k
    <3> HIDE DEF k
    <3> QED
      BY <2>3, <2>4, PrefixType
  <2>6. l(s) \in LocalType /\ l(s).i = 1 /\ l(s).queue = SubSeq(s, 1, k)
    <3> HIDE DEF k
    <3> QED
      BY <2>2, <2>5, Zenon DEF LocalType
  <2>7. Cardinality(local[h].victims) \in Nat
    BY <2>3, ProxyAssumption, FS_Subset, FS_CardinalityType
  <2>8. "markUnschedulable" \in UpdatingPC /\ LocalsFit("markUnschedulable", l(s), req[h])
    <3> HIDE DEF k, l
    <3> QED
      BY <2>4, <2>5, <2>6, <2>7 DEF UpdatingPC, PC, LocalsFit, SelectingPC
  <2>9. Goto(h, "markUnschedulable")
    BY <1>4 DEF SelectVictims
  <2> HIDE DEF l
  <2> QED
    BY <1>1, <1>2, <2>1, <2>6, <2>8, <2>9, InOperation, GotoStep, Zenon
<1> QED
  BY <1>3, <1>4 DEF SelectVictims

(* Passing a desired size on to the backend preserves the invariant.       *)
LEMMA StepSetDesiredSize ==
  ASSUME TypeInv, NEW h \in Handler, SetDesiredSize(h) PROVE TypeInv'
<1> DEFINE call == [op |-> "setSize", size |-> req[h].size]
<1>1. pc[h] = "setDesiredSize" /\ pc[h] \in UpdatingPC
  BY DEF SetDesiredSize, UpdatingPC, PC
<1>2. /\ UNCHANGED <<updateLock, req, kubeVars, local>>
      /\ BackendDone(call) \/ BackendFails(call)
      /\ \E r \in Result : Return(h, r)
  BY DEF SetDesiredSize, Result
<1>3. req[h].size \in Nat
  <2>1. req[h] \in RequestType /\ Validate(req[h]) /\ req[h].op = "setDesiredSize"
    BY <1>1, InOperation DEF TypeInv, RequestsAreValid, LocalsFit, Updating
  <2> QED
    BY <2>1 DEF RequestType, Validate
<1>4. call \in Call
  BY <1>3 DEF Call
<1>5. PoolTypeOK' /\ (NoFault \/ Fault)
  <2> HIDE DEF call
  <2> QED
    BY <1>2, <1>4, BackendType DEF TypeInv, TypeOK, BackendDone, BackendFails
<1> QED
  BY <1>1, <1>2, <1>5, InOperation, ReturnStep

(* markUnschedulable (nodescaler.go) preserves the invariant.              *)
LEMMA StepMarkUnschedulable ==
  ASSUME TypeInv, NEW h \in Handler, MarkUnschedulable(h) PROVE TypeInv'
<1>1. pc[h] = "markUnschedulable" /\ pc[h] \in UpdatingPC /\ pc[h] \in RemovingPC
  BY DEF MarkUnschedulable, UpdatingPC, RemovingPC, PC
<1>2. UNCHANGED <<updateLock, req, poolVars>> /\ (NoFault \/ Fault)
  BY DEF MarkUnschedulable
<1>3. KubeTypeOK'
  <2>1. UNCHANGED kubeVars \/ AddTaint(victim(h))
    BY DEF MarkUnschedulable
  <2>2. victim(h) \in Node
    BY <1>1, VictimType
  <2> QED
    BY <2>1, <2>2 DEF TypeInv, TypeOK, KubeTypeOK, kubeVars, AddTaint
<1>4. CASE Return(h, "error") /\ UNCHANGED local
  BY <1>1, <1>2, <1>3, <1>4, InOperation, ReturnStep DEF Result
<1>5. CASE /\ local' = [local EXCEPT ![h].evict = podsToDrain(h)]
           /\ Goto(h, IF podsToDrain(h) = {} THEN "deleteNode" ELSE "evictPods")
  <2> DEFINE l == [local[h] EXCEPT !.evict = podsToDrain(h)]
  <2>1. local' = [local EXCEPT ![h] = l]
    BY <1>5 DEF TypeInv, TypeOK
  <2>2. local[h] \in LocalType /\ local[h].i \in 1..Len(local[h].queue)
    BY <1>1, InOperation, VictimType
  <2>3. l \in LocalType /\ l.i \in 1..Len(l.queue)
    BY <1>1, <2>2, VictimType, SMTT(20) DEF LocalType
  <2>4. PICK label \in {"deleteNode", "evictPods"} : Goto(h, label)
    BY <1>5
  <2>5. label \in UpdatingPC /\ LocalsFit(label, l, req[h])
    BY <2>3 DEF UpdatingPC, PC, LocalsFit, SelectingPC
  <2> HIDE DEF l
  <2> QED
    BY <1>1, <1>2, <1>3, <2>1, <2>3, <2>4, <2>5, InOperation, GotoStep, Zenon
<1> QED
  BY <1>4, <1>5 DEF MarkUnschedulable

(* An eviction of DrainNode preserves the invariant.                       *)
LEMMA StepEvictOnePod ==
  ASSUME TypeInv, NEW h \in Handler, EvictOnePod(h) PROVE TypeInv'
<1>1. pc[h] = "evictPods" /\ pc[h] \in UpdatingPC /\ pc[h] \in RemovingPC
  BY DEF EvictOnePod, UpdatingPC, RemovingPC, PC
<1>2. UNCHANGED <<updateLock, req, poolVars>> /\ (NoFault \/ Fault)
  BY DEF EvictOnePod
<1>3. local[h] \in LocalType /\ local[h].i \in 1..Len(local[h].queue)
  BY <1>1, InOperation, VictimType
<1> DEFINE l(p) == [local[h] EXCEPT !.evict = @ \ {p}]
<1>4. PICK p \in local[h].evict :
        /\ local' = [local EXCEPT ![h].evict = @ \ {p}]
        /\ UNCHANGED kubeVars \/ EvictPod(p)
        /\ UNCHANGED <<pc, result>> \/ Goto(h, "deleteNode") \/ Goto(h, "markSchedulable")
  BY Zenon DEF EvictOnePod
<1>5. KubeTypeOK'
  BY <1>3, <1>4 DEF LocalType, TypeInv, TypeOK, KubeTypeOK, kubeVars, EvictPod
<1>6. local' = [local EXCEPT ![h] = l(p)]
  BY <1>4 DEF TypeInv, TypeOK
<1>7. l(p) \in LocalType /\ l(p).i \in 1..Len(l(p).queue)
  BY <1>3, SMTT(20) DEF LocalType
<1>8. PICK label \in {"evictPods", "deleteNode", "markSchedulable"} : Goto(h, label)
  BY <1>1, <1>4 DEF TypeInv, TypeOK, Goto
<1>9. label \in UpdatingPC /\ LocalsFit(label, l(p), req[h])
  BY <1>7 DEF UpdatingPC, PC, LocalsFit, SelectingPC
<1> HIDE DEF l
<1> QED
  BY <1>1, <1>2, <1>5, <1>6, <1>7, <1>8, <1>9, InOperation, GotoStep, Zenon

(* The deferred markSchedulable of DrainNode preserves the invariant.      *)
LEMMA StepMarkSchedulable ==
  ASSUME TypeInv, NEW h \in Handler, MarkSchedulable(h) PROVE TypeInv'
<1>1. pc[h] = "markSchedulable" /\ pc[h] \in UpdatingPC
  BY DEF MarkSchedulable, UpdatingPC, PC
<1>2. /\ UNCHANGED <<updateLock, req, poolVars, local>> /\ (NoFault \/ Fault)
      /\ Return(h, "error")
      /\ UNCHANGED kubeVars \/ RemoveTaint(victim(h))
  BY DEF MarkSchedulable
<1>3. KubeTypeOK'
  BY <1>2 DEF TypeInv, TypeOK, KubeTypeOK, kubeVars, RemoveTaint
<1> QED
  BY <1>1, <1>2, <1>3, InOperation, ReturnStep DEF Result

(* DeleteNode (nodescaler.go) preserves the invariant.                     *)
LEMMA StepDeleteNode ==
  ASSUME TypeInv, NEW h \in Handler, DeleteNode(h) PROVE TypeInv'
<1>1. pc[h] = "deleteNode" /\ pc[h] \in UpdatingPC /\ pc[h] \in RemovingPC
  BY DEF DeleteNode, UpdatingPC, RemovingPC, PC
<1>2. /\ UNCHANGED <<updateLock, req, poolVars, local>> /\ (NoFault \/ Fault)
      /\ UNCHANGED kubeVars \/ RemoveNode(victim(h))
      /\ Goto(h, "terminateMachine") \/ Return(h, "error")
  BY DEF DeleteNode
<1>3. KubeTypeOK'
  BY <1>2 DEF TypeInv, TypeOK, KubeTypeOK, kubeVars, RemoveNode, NodeState
<1>4. "terminateMachine" \in UpdatingPC /\ LocalsFit("terminateMachine", local[h], req[h])
  BY <1>1, VictimType DEF UpdatingPC, PC, LocalsFit, SelectingPC
<1>5. CASE Return(h, "error")
  BY <1>1, <1>2, <1>3, <1>5, InOperation, ReturnStep DEF Result
<1>6. CASE Goto(h, "terminateMachine")
  BY <1>1, <1>2, <1>3, <1>4, <1>6, InOperation, GotoStep
<1> QED
  BY <1>2, <1>5, <1>6

(* The last call of evictAndTerminate, with the move to the next victim,   *)
(* preserves the invariant.                                                *)
LEMMA StepTerminateMachine ==
  ASSUME TypeInv, NEW h \in Handler, TerminateMachine(h) PROVE TypeInv'
<1> DEFINE call == [op |-> "terminate", machine |-> externalID(victim(h)),
                    decrement |-> req[h].op = "setDesiredSize" \/ req[h].decrement]
<1>1. pc[h] = "terminateMachine" /\ pc[h] \in UpdatingPC /\ pc[h] \in RemovingPC
  BY DEF TerminateMachine, UpdatingPC, RemovingPC, PC
<1>2. UNCHANGED <<updateLock, req, kubeVars>> /\ (BackendDone(call) \/ BackendFails(call))
  BY DEF TerminateMachine
<1>3. call \in Call
  <2>1. req[h].decrement \in BOOLEAN
    BY <1>1, InOperation DEF RequestType
  <2>2. externalID(victim(h)) \in Machine
    BY <1>1, VictimType, ExternalIDType
  <2> QED
    BY <2>1, <2>2 DEF Call
<1>4. PoolTypeOK' /\ (NoFault \/ Fault)
  <2> HIDE DEF call
  <2> QED
    BY <1>2, <1>3, BackendType DEF TypeInv, TypeOK, BackendDone, BackendFails
<1>5. CASE (Return(h, "ok") \/ Return(h, "error")) /\ UNCHANGED local
  BY <1>1, <1>2, <1>4, <1>5, InOperation, ReturnStep DEF Result
<1>6. CASE /\ local[h].i < Len(local[h].queue)
           /\ local' = [local EXCEPT ![h].i = @ + 1]
           /\ Goto(h, "markUnschedulable")
  <2> DEFINE l == [local[h] EXCEPT !.i = @ + 1]
  <2>1. local' = [local EXCEPT ![h] = l]
    BY <1>6 DEF TypeInv, TypeOK
  <2>2. local[h] \in LocalType /\ local[h].i \in 1..Len(local[h].queue)
    BY <1>1, InOperation, VictimType
  <2>3. Len(local[h].queue) \in Nat
    BY <2>2 DEF LocalType
  <2>4. l \in LocalType /\ l.i \in 1..Len(l.queue)
    BY <1>6, <2>2, <2>3, SMTT(20) DEF LocalType
  <2>5. "markUnschedulable" \in UpdatingPC /\ LocalsFit("markUnschedulable", l, req[h])
    BY <2>4 DEF UpdatingPC, PC, LocalsFit, SelectingPC
  <2> HIDE DEF l
  <2> QED
    BY <1>1, <1>2, <1>4, <1>6, <2>1, <2>4, <2>5, InOperation, GotoStep, Zenon
<1> QED
  BY <1>5, <1>6 DEF TerminateMachine

-----------------------------------------------------------------------------
(* The steps outside an operation, and at its ends.                        *)

(* A step that leaves the cluster, the pool and the faults alone, and of   *)
(* the handlers only changes h, keeps the cluster and the pool typed.      *)
LEMMA HandlerOnly ==
  ASSUME TypeInv, UNCHANGED <<kubeVars, poolVars, faults>>
  PROVE  KubeTypeOK' /\ PoolTypeOK' /\ faults' \in 0..MaxFaults
<1>1. KubeTypeOK'
  BY DEF TypeInv, TypeOK, KubeTypeOK, kubeVars
<1>2. PoolTypeOK'
  BY DEF TypeInv, TypeOK, PoolTypeOK, poolVars
<1> QED
  BY <1>1, <1>2 DEF TypeInv, TypeOK

(* Reading, decoding and validating a request (server.go) preserves the    *)
(* invariant.                                                              *)
LEMMA StepReceive ==
  ASSUME TypeInv, NEW h \in Handler, Receive(h) PROVE TypeInv'
<1>1. PICK r \in Request :
        /\ pc[h] = "idle" /\ UNCHANGED <<updateLock, local>>
        /\ req' = [req EXCEPT ![h] = r]
        /\ \/ pc' = [pc EXCEPT ![h] = "forward"] /\ UNCHANGED result
           \/ pc' = [pc EXCEPT ![h] = "lock"] /\ UNCHANGED result
                /\ Validate(r) /\ r.op # "forward"
           \/ pc' = [pc EXCEPT ![h] = "respond"]
                /\ result' = [result EXCEPT ![h] = "badRequest"]
  BY Zenon DEF Receive, Goto
<1>2. TypeOK'
  BY <1>1, HandlerOnly DEF Receive, TypeInv, TypeOK, PC, Result
<1>3. RequestsAreValid'
  BY <1>1 DEF TypeInv, TypeOK, RequestsAreValid, Updating, UpdatingPC
<1>4. UpdaterHoldsLock'
  BY <1>1 DEF TypeInv, TypeOK, UpdaterHoldsLock, Updating, UpdatingPC
<1>5. LocalsAreSound'
  BY <1>1 DEF TypeInv, TypeOK, LocalsAreSound, Updating, UpdatingPC
<1> QED
  BY <1>2, <1>3, <1>4, <1>5 DEF TypeInv

(* updateLock.Lock preserves the invariant: the lock was free, so nobody   *)
(* else is updating.                                                       *)
LEMMA StepLock ==
  ASSUME TypeInv, NEW h \in Handler, Lock(h) PROVE TypeInv'
<1>1. /\ pc[h] = "lock" /\ updateLock = NoHandler /\ updateLock' = h
      /\ pc' = [pc EXCEPT ![h] = "listWorkerNodes"]
      /\ UNCHANGED <<result, req, local>>
  BY DEF Lock, Goto
<1>2. TypeOK'
  BY <1>1, HandlerOnly DEF Lock, TypeInv, TypeOK, PC
<1>3. RequestsAreValid'
  BY <1>1 DEF TypeInv, TypeOK, RequestsAreValid, Updating
<1>4. UpdaterHoldsLock'
  BY <1>1, ProxyAssumption DEF TypeInv, TypeOK, UpdaterHoldsLock, Updating
<1>5. LocalsAreSound'
  <2>1. LocalsFit("listWorkerNodes", NoLocals, req[h])
    BY DEF LocalsFit, NoLocals, RemovingPC
  <2>2. local[h] = NoLocals
    BY <1>1 DEF TypeInv, LocalsAreSound, Updating, UpdatingPC
  <2> QED
    BY <1>1, <2>1, <2>2 DEF TypeInv, TypeOK, LocalsAreSound, Updating
<1> QED
  BY <1>2, <1>3, <1>4, <1>5 DEF TypeInv

(* updateLock.Unlock preserves the invariant: only its holder gets there.  *)
LEMMA StepUnlock ==
  ASSUME TypeInv, NEW h \in Handler, Unlock(h) PROVE TypeInv'
<1>1. /\ pc[h] = "unlock" /\ updateLock' = NoHandler
      /\ pc' = [pc EXCEPT ![h] = "respond"]
      /\ local' = [local EXCEPT ![h] = NoLocals]
      /\ UNCHANGED <<result, req>>
  BY DEF Unlock, Goto
<1>2. updateLock = h /\ \A g \in Handler : Updating(g) => g = h
  BY <1>1 DEF TypeInv, UpdaterHoldsLock, Updating, UpdatingPC, PC
<1>3. NoLocals \in LocalType
  BY DEF NoLocals, LocalType
<1>4. TypeOK'
  BY <1>1, <1>3, HandlerOnly DEF Unlock, TypeInv, TypeOK, PC
<1>5. RequestsAreValid'
  BY <1>1 DEF TypeInv, TypeOK, RequestsAreValid, Updating, UpdatingPC
<1>6. UpdaterHoldsLock'
  BY <1>1, <1>2 DEF TypeInv, TypeOK, UpdaterHoldsLock, Updating, UpdatingPC
<1>7. LocalsAreSound'
  BY <1>1 DEF TypeInv, TypeOK, LocalsAreSound, Updating, UpdatingPC
<1> QED
  BY <1>4, <1>5, <1>6, <1>7 DEF TypeInv

(* Respond and ForwardToBackend: a handler that runs no operation moves to *)
(* a place where it runs none either.                                      *)
LEMMA StepOutside ==
  ASSUME TypeInv, NEW h \in Handler, KubeTypeOK', PoolTypeOK', NoFault \/ Fault,
         UNCHANGED <<updateLock, local>>, ~Updating(h),
         NEW label \in {"idle", "respond"}, pc' = [pc EXCEPT ![h] = label],
         NEW r \in Result, result' = [result EXCEPT ![h] = r],
         NEW q \in Request \cup {NoRequest}, req' = [req EXCEPT ![h] = q],
         label = "respond" => q \in Request
  PROVE  TypeInv'
<1>1. TypeOK'
  BY FaultType DEF TypeInv, TypeOK, PC
<1>2. RequestsAreValid'
  BY DEF TypeInv, TypeOK, RequestsAreValid, Updating, UpdatingPC
<1>3. UpdaterHoldsLock'
  BY DEF TypeInv, TypeOK, UpdaterHoldsLock, Updating, UpdatingPC
<1>4. LocalsAreSound'
  BY DEF TypeInv, TypeOK, LocalsAreSound, Updating, UpdatingPC
<1> QED
  BY <1>1, <1>2, <1>3, <1>4 DEF TypeInv

(* Writing the response preserves the invariant.                           *)
LEMMA StepRespond ==
  ASSUME TypeInv, NEW h \in Handler, Respond(h) PROVE TypeInv'
<1>1. /\ ~Updating(h) /\ "none" \in Result /\ UNCHANGED <<updateLock, local>> /\ NoFault
      /\ pc' = [pc EXCEPT ![h] = "idle"]
      /\ result' = [result EXCEPT ![h] = "none"]
      /\ req' = [req EXCEPT ![h] = NoRequest]
  BY DEF Respond, Updating, UpdatingPC, NoFault, Result
<1>2. KubeTypeOK' /\ PoolTypeOK'
  BY HandlerOnly DEF Respond
<1> QED
  BY <1>1, <1>2, StepOutside, Zenon

(* ForwardToBackend, which takes no lock, preserves the invariant.         *)
LEMMA StepForwardToBackend ==
  ASSUME TypeInv, NEW h \in Handler, ForwardToBackend(h) PROVE TypeInv'
<1>1. /\ ~Updating(h) /\ UNCHANGED <<updateLock, local>> /\ (NoFault \/ Fault)
      /\ pc' = [pc EXCEPT ![h] = "respond"]
      /\ \E r \in Result : result' = [result EXCEPT ![h] = r]
  BY DEF ForwardToBackend, Updating, UpdatingPC, Result
<1>2. req[h] \in Request /\ req' = [req EXCEPT ![h] = req[h]]
  BY DEF ForwardToBackend, TypeInv, TypeOK, RequestsAreValid
<1>3. KubeTypeOK'
  BY DEF ForwardToBackend, TypeInv, TypeOK, KubeTypeOK, kubeVars
<1>4. PoolTypeOK'
  <2>1. CASE UNCHANGED poolVars
    BY <2>1 DEF TypeInv, TypeOK, PoolTypeOK, poolVars
  <2>2. CASE \E a, e \in BOOLEAN : SetMembership(req[h].machine, a, e)
    <3>1. req[h].machine \in Machine
      BY <1>2, ProxyAssumption DEF RequestType
    <3> QED
      BY <2>2, <3>1, PoolStepType DEF TypeInv, TypeOK
  <2> QED
    BY <2>1, <2>2 DEF ForwardToBackend
<1> QED
  BY <1>1, <1>2, <1>3, <1>4, StepOutside, Zenon

(* A restart of the process preserves the invariant.                       *)
LEMMA StepCrash ==
  ASSUME TypeInv, Crash PROVE TypeInv'
<1>1. KubeTypeOK' /\ PoolTypeOK'
  BY DEF Crash, TypeInv, TypeOK, KubeTypeOK, PoolTypeOK, kubeVars, poolVars
<1>2. NoLocals \in LocalType
  BY DEF NoLocals, LocalType
<1>3. TypeOK'
  BY <1>1, <1>2, FaultType DEF Crash, TypeInv, TypeOK, PC, Result
<1>4. RequestsAreValid' /\ UpdaterHoldsLock' /\ LocalsAreSound'
  BY DEF Crash, RequestsAreValid, UpdaterHoldsLock, LocalsAreSound, Updating, UpdatingPC
<1> QED
  BY <1>3, <1>4 DEF TypeInv

(* The cluster and the pool do not touch the variables of the proxy. *)
LEMMA ProxyVarsUnchanged ==
  ASSUME TypeInv, KubeTypeOK', PoolTypeOK', UNCHANGED proxyVars PROVE TypeInv'
BY DEF TypeInv, TypeOK, RequestsAreValid, UpdaterHoldsLock, LocalsAreSound, Updating, proxyVars

(* The cluster and the backend running by themselves preserve the          *)
(* invariant.                                                              *)
LEMMA StepEnvironment ==
  ASSUME TypeInv, Environment PROVE TypeInv'
<1>1. CASE /\ \/ \E p \in Pod : PodGone(p) \/ \E n \in Node : SchedulerBinds(p, n)
              \/ \E n \in Node : NodeJoins(n) \/ NodeVanishes(n)
           /\ UNCHANGED <<poolVars, proxyVars>>
  <2>1. KubeTypeOK'
    BY <1>1 DEF TypeInv, TypeOK, KubeTypeOK, NodeState, PodGone, SchedulerBinds,
                NodeJoins, NodeVanishes
  <2>2. PoolTypeOK'
    BY <1>1 DEF TypeInv, TypeOK, PoolTypeOK, poolVars
  <2> QED
    BY <1>1, <2>1, <2>2, ProxyVarsUnchanged
<1>2. CASE /\ \/ \E m \in Machine : Launch(m) \/ MachineAdvances(m) \/ ScaleIn(m)
              \/ \E call \in delayed : DelayedCallArrives(call)
           /\ UNCHANGED <<kubeVars, proxyVars>>
  <2>1. PoolTypeOK'
    BY <1>2, PoolStepType DEF TypeInv, TypeOK
  <2>2. KubeTypeOK'
    BY <1>2 DEF TypeInv, TypeOK, KubeTypeOK, kubeVars
  <2> QED
    BY <1>2, <2>1, <2>2, ProxyVarsUnchanged
<1> QED
  BY <1>1, <1>2 DEF Environment

-----------------------------------------------------------------------------
(* Every step of the proxy, the cluster and the pool keeps TypeInv. *)
LEMMA NextTypeInv == TypeInv /\ [Next]_vars => TypeInv'
<1> SUFFICES ASSUME TypeInv, [Next]_vars PROVE TypeInv'
  OBVIOUS
<1>1. ASSUME NEW h \in Handler, Receive(h) \/ Lock(h) PROVE TypeInv'
  BY <1>1, StepReceive, StepLock
<1>2. ASSUME NEW h \in Handler, Serve(h) PROVE TypeInv'
  BY <1>2, StepForwardToBackend, StepListWorkerNodes, StepGetMachinePool, StepGetMachine,
     StepCheckCandidate, StepSelectVictims, StepSetDesiredSize, StepMarkUnschedulable,
     StepEvictOnePod, StepMarkSchedulable, StepDeleteNode, StepTerminateMachine,
     StepUnlock, StepRespond DEF Serve
<1>3. CASE UNCHANGED vars
  <2>1. UNCHANGED <<kubeVars, poolVars, faults, proxyVars>>
    BY <1>3 DEF vars, proxyVars
  <2> QED
    BY <2>1, HandlerOnly, ProxyVarsUnchanged
<1> QED
  BY <1>1, <1>2, <1>3, StepCrash, StepEnvironment DEF Next

(* Every variable of the proxy, the cluster and the pool keeps its type,   *)
(* in particular the victim that evictAndTerminate works on is always a    *)
(* node of the list it was chosen from.                                    *)
THEOREM TypeCorrect == Spec => []TypeOK
<1>1. TypeInv => TypeOK
  BY DEF TypeInv
<1> QED
  BY <1>1, InitTypeInv, NextTypeInv, PTL DEF Spec

(* updateLock of server.go serialises updates: between Lock and Unlock     *)
(* there is at most one handler, for any number of requests, failures,     *)
(* panics and restarts.                                                    *)
THEOREM MutualExclusion == Spec => []NoConcurrentUpdates
<1>1. TypeInv => NoConcurrentUpdates
  BY DEF TypeInv, UpdaterHoldsLock, NoConcurrentUpdates
<1> QED
  BY <1>1, InitTypeInv, NextTypeInv, PTL DEF Spec

-----------------------------------------------------------------------------
(* What each step of the proxy does, field by field.  A step of an         *)
(* operation changes the state of its own handler only; while an operation *)
(* runs, what the others do does not touch the nodes; and the cluster and  *)
(* the pool only move forward.                                             *)

(* Nothing of the handlers other than h changes, nor which requests are    *)
(* being served and who holds the lock.                                    *)
Frame(h) ==
  /\ \A g \in Handler \ {h} :
       pc'[g] = pc[g] /\ local'[g] = local[g] /\ result'[g] = result[g]
  /\ UNCHANGED <<req, updateLock>>

(* The operation of h gives up with an error. *)
GivesUp(h) == pc'[h] = "unlock" /\ result'[h] = "error"

(* ListWorkerNodes records workers; TerminateMachine keeps those of its    *)
(* machine.                                                                *)
LEMMA ListWorkerNodesEffect ==
  ASSUME TypeInv, NEW h \in Handler, ListWorkerNodes(h)
  PROVE  /\ Frame(h) /\ UNCHANGED <<kubeVars, poolVars>> /\ (NoFault \/ Fault)
         /\ pc[h] = "listWorkerNodes"
         /\ pc'[h] \in {"getMachinePool", "getMachine", "unlock"}
         /\ pc'[h] = "unlock" => result'[h] = "error"
         /\ \/ local'[h] = local[h] /\ pc'[h] = "unlock"
            \/ /\ local'[h] = [local[h] EXCEPT !.nodes = local'[h].nodes, !.pods = local'[h].pods]
               /\ \A n \in local'[h].nodes : n \in Registered /\ ~isMasterNode(getNodeInfo(n))
               /\ pc'[h] = "getMachine" =>
                    \A n \in local'[h].nodes : externalID(n) = req[h].machine
<1> DEFINE workers == {n \in Registered : ~isMasterNode(getNodeInfo(n))}
           matching == getNodeWithExternalID(workers, req[h].machine)
           nodes == IF req[h].op = "setDesiredSize" THEN workers ELSE matching
           pods == [n \in Node |-> IF n \in workers THEN PodsOn(n) ELSE {}]
           l == [local[h] EXCEPT !.nodes = nodes, !.pods = pods]
<1>1. UNCHANGED <<kubeVars, poolVars, updateLock, req>> /\ pc[h] = "listWorkerNodes"
      /\ (NoFault \/ Fault)
  BY DEF ListWorkerNodes
<1>2. local[h] \in LocalType /\ local \in [Handler -> LocalType]
  BY DEF TypeInv, TypeOK
<1>3. \/ /\ local' = [local EXCEPT ![h] = l]
         /\ IF req[h].op = "setDesiredSize" THEN Goto(h, "getMachinePool")
            ELSE IF matching # {} THEN Goto(h, "getMachine")
            ELSE Return(h, "error")
      \/ local' = local /\ Return(h, "error")
  BY Zenon, <1>2 DEF ListWorkerNodes
<1>4. /\ \A g \in Handler \ {h} : pc'[g] = pc[g] /\ result'[g] = result[g]
      /\ pc'[h] \in {"getMachinePool", "getMachine", "unlock"}
      /\ pc'[h] = "unlock" => result'[h] = "error"
      /\ pc'[h] = "getMachine" => nodes = matching
  BY <1>3, SMTT(20) DEF TypeInv, TypeOK, Goto, Return
<1>5. l.nodes = nodes /\ l.pods = pods
  BY <1>2 DEF LocalType
<1>6. l = [local[h] EXCEPT !.nodes = l.nodes, !.pods = l.pods]
  BY <1>5
<1>7. /\ \A n \in nodes : n \in Registered /\ ~isMasterNode(getNodeInfo(n))
      /\ nodes = matching => \A n \in nodes : externalID(n) = req[h].machine
  BY DEF getNodeWithExternalID
<1>8. CASE local' = [local EXCEPT ![h] = l]
  <2> HIDE DEF l, nodes, matching, pods
  <2>1. local'[h] = l /\ \A g \in Handler \ {h} : local'[g] = local[g]
    BY <1>2, <1>8
  <2> QED
    BY <1>1, <1>4, <1>5, <1>6, <1>7, <2>1, Zenon DEF Frame
<1>9. CASE local' = local /\ Return(h, "error")
  BY <1>1, <1>4, <1>9 DEF Frame, Return, TypeInv, TypeOK
<1> QED
  BY <1>3, <1>8, <1>9

(* A step that writes l to the local variables of h writes nothing else to *)
(* them.                                                                   *)
LEMMA LocalWrite ==
  ASSUME TypeInv, NEW h \in Handler, NEW l, local' = [local EXCEPT ![h] = l]
  PROVE  local'[h] = l /\ \A g \in Handler \ {h} : local'[g] = local[g]
BY DEF TypeInv, TypeOK

(* Goto and Return move the control of h only. *)
LEMMA ControlWrite ==
  ASSUME TypeInv, NEW h \in Handler, NEW label, NEW r,
         \/ Goto(h, label) \/ Return(h, r)
         \/ UNCHANGED <<pc, result>>
  PROVE  /\ \A g \in Handler \ {h} : pc'[g] = pc[g] /\ result'[g] = result[g]
         /\ Goto(h, label) => pc'[h] = label /\ result'[h] = result[h]
         /\ Return(h, r) => pc'[h] = "unlock" /\ result'[h] = r
BY DEF TypeInv, TypeOK, Goto, Return

(* GetMachinePool pairs nodes with active machines and, if there are more  *)
(* than were asked for, looks for candidates among the pairs.              *)
LEMMA GetMachinePoolEffect ==
  ASSUME TypeInv, NEW h \in Handler, GetMachinePool(h)
  PROVE  /\ Frame(h) /\ UNCHANGED <<kubeVars, poolVars>> /\ (NoFault \/ Fault)
         /\ pc[h] = "getMachinePool"
         /\ \/ local'[h] = local[h] /\ GivesUp(h)
            \/ /\ local'[h] = [local[h] EXCEPT !.pairs = local'[h].pairs,
                                               !.unchecked = local'[h].pairs,
                                               !.evictable = local'[h].evictable]
               /\ \A n \in local'[h].pairs :
                    n \in local[h].nodes /\ IsMachineAllocated(externalID(n))
               /\ pc'[h] \in {"setDesiredSize", "checkCandidates"}
               /\ pc'[h] = "checkCandidates" => ~(req[h].size >= Cardinality(local'[h].pairs))
<1> DEFINE pairs == pairNodesWithMachines(local[h].nodes)
           e == {n \in pairs : isMachineEvictable(n)}
           l == [local[h] EXCEPT !.pairs = pairs, !.unchecked = pairs, !.evictable = e]
<1>1. UNCHANGED <<kubeVars, poolVars, updateLock, req>> /\ pc[h] = "getMachinePool"
      /\ (NoFault \/ Fault)
  BY Zenon DEF GetMachinePool
<1>2. local[h] \in LocalType
  BY DEF TypeInv, TypeOK
<1>3. \/ /\ local' = [local EXCEPT ![h] = l]
         /\ \/ Goto(h, "setDesiredSize")
            \/ Goto(h, "checkCandidates") /\ ~(req[h].size >= Cardinality(pairs))
      \/ local' = local /\ Return(h, "error")
  BY Zenon DEF GetMachinePool
<1>4. \A n \in pairs : n \in local[h].nodes /\ IsMachineAllocated(externalID(n))
  BY DEF pairNodesWithMachines, ActiveMachines, IsMachineActive
<1>5. l.pairs = pairs /\ l.evictable = e
  BY <1>2, Zenon DEF LocalType
<1>6. l = [local[h] EXCEPT !.pairs = l.pairs, !.unchecked = l.pairs, !.evictable = l.evictable]
  BY <1>5, Zenon
<1>7. CASE /\ local' = [local EXCEPT ![h] = l]
           /\ \/ Goto(h, "setDesiredSize")
              \/ Goto(h, "checkCandidates") /\ ~(req[h].size >= Cardinality(pairs))
  <2> HIDE DEF l, pairs, e
  <2>1. local'[h] = l /\ \A g \in Handler \ {h} : local'[g] = local[g]
    BY <1>7, LocalWrite, Zenon
  <2>2. \A g \in Handler \ {h} : pc'[g] = pc[g] /\ result'[g] = result[g]
    BY <1>7, ControlWrite
  <2>3. \/ pc'[h] = "setDesiredSize"
        \/ pc'[h] = "checkCandidates" /\ ~(req[h].size >= Cardinality(pairs))
    <3>1. Goto(h, "setDesiredSize") => pc'[h] = "setDesiredSize"
      BY ControlWrite
    <3>2. Goto(h, "checkCandidates") => pc'[h] = "checkCandidates"
      BY ControlWrite
    <3> QED
      BY <1>7, <3>1, <3>2
  <2> QED
    BY <1>1, <1>4, <1>5, <1>6, <2>1, <2>2, <2>3, Zenon DEF Frame
<1>8. CASE local' = local /\ Return(h, "error")
  BY <1>1, <1>8, ControlWrite DEF Frame, GivesUp
<1> QED
  BY <1>3, <1>7, <1>8

(* GetMachine pairs the node of the machine with it, if the pool has it. *)
LEMMA GetMachineEffect ==
  ASSUME TypeInv, NEW h \in Handler, GetMachine(h)
  PROVE  /\ Frame(h) /\ UNCHANGED <<kubeVars, poolVars>> /\ (NoFault \/ Fault)
         /\ pc[h] = "getMachine"
         /\ \/ local'[h] = local[h] /\ GivesUp(h)
            \/ \E n \in local[h].nodes :
                 /\ local'[h] = [local[h] EXCEPT !.pairs = {n}, !.unchecked = {n},
                                                 !.evictable = local'[h].evictable]
                 /\ req[h].machine \in InPool
                 /\ pc'[h] = "checkCandidates"
<1> DEFINE e(n) == {n} \cap {m \in Node : isMachineEvictable(m)}
           l(n) == [local[h] EXCEPT !.pairs = {n}, !.unchecked = {n}, !.evictable = e(n)]
<1>1. UNCHANGED <<kubeVars, poolVars, updateLock, req>> /\ pc[h] = "getMachine"
      /\ (NoFault \/ Fault)
  BY Zenon DEF GetMachine
<1>2. local[h] \in LocalType
  BY DEF TypeInv, TypeOK
<1>3. CASE local' = local /\ Return(h, "error")
  BY <1>1, <1>3, ControlWrite, Zenon DEF Frame, GivesUp
<1>4. ASSUME NEW n \in local[h].nodes, req[h].machine \in InPool,
             local' = [local EXCEPT ![h] = l(n)], Goto(h, "checkCandidates")
      PROVE  /\ Frame(h)
             /\ local'[h] = [local[h] EXCEPT !.pairs = {n}, !.unchecked = {n},
                                             !.evictable = local'[h].evictable]
             /\ pc'[h] = "checkCandidates"
  <2>1. l(n).evictable = e(n)
    BY <1>2, Zenon DEF LocalType
  <2>2. l(n) = [local[h] EXCEPT !.pairs = {n}, !.unchecked = {n}, !.evictable = l(n).evictable]
    BY <2>1, Zenon
  <2> HIDE DEF l, e
  <2>3. local'[h] = l(n) /\ \A g \in Handler \ {h} : local'[g] = local[g]
    BY <1>4, LocalWrite, Zenon
  <2>4. pc'[h] = "checkCandidates" /\ \A g \in Handler \ {h} : pc'[g] = pc[g] /\ result'[g] = result[g]
    BY <1>4, ControlWrite
  <2> QED
    BY <1>1, <2>2, <2>3, <2>4, Zenon DEF Frame
<1>5. \/ local' = local /\ Return(h, "error")
      \/ /\ req[h].machine \in InPool /\ Goto(h, "checkCandidates")
         /\ \E n \in local[h].nodes : local' = [local EXCEPT ![h] = l(n)]
  BY Zenon DEF GetMachine
<1> HIDE DEF l, e
<1> QED
  BY <1>1, <1>3, <1>4, <1>5, Zenon

(* What isScaleDownCandidate establishes when it accepts a node. *)
LEMMA CandidateFacts ==
  ASSUME NEW node, NEW nodes, NEW pdbs, "candidate" \in IsScaleDownCandidate(node, nodes, pdbs)
  PROVE  /\ ~node.annotation
         /\ \A p \in podsToEvacuate(node) : podMobility(p) = "mobile"
         /\ \E n \in nodes : /\ ~isMasterNode(n) /\ n.name # node.name
                             /\ isNodeReady(n) /\ isNodeSchedulable(n)
<1> DEFINE remaining == remainingWorkerNodes(node, nodes)
           pods == podsToEvacuate(node)
           immobile == {podMobility(p) : p \in pods} \ {"mobile"}
<1>1. \A p \in pods : podMobility(p) \in {"rejected", "panic", "mobile"}
  BY DEF podMobility
<1>2. ~node.annotation /\ remaining # {} /\ immobile = {}
  <2>1. "candidate" \notin immobile
    BY <1>1
  <2> HIDE DEF remaining, immobile
  <2>2. CASE node.annotation \/ remaining = {}
    BY <2>2, Zenon DEF IsScaleDownCandidate, remaining
  <2>3. CASE ~(node.annotation \/ remaining = {}) /\ immobile # {}
    BY <2>1, <2>3, Zenon DEF IsScaleDownCandidate, remaining, immobile
  <2> QED
    BY <2>2, <2>3
<1>3. \A p \in pods : podMobility(p) = "mobile"
  BY <1>2
<1> QED
  BY <1>2, <1>3 DEF remainingWorkerNodes

(* A turn of partitionScaleDownCandidates vets one pair. *)
LEMMA CheckCandidateEffect ==
  ASSUME TypeInv, NEW h \in Handler, CheckCandidate(h)
  PROVE  /\ Frame(h) /\ UNCHANGED <<kubeVars, poolVars>> /\ (NoFault \/ Fault)
         /\ pc[h] = "checkCandidates"
         /\ \/ local'[h] = local[h] /\ pc'[h] = "panicked"
            \/ /\ pc'[h] = "checkCandidates" /\ result'[h] = result[h]
               /\ \E n \in local[h].unchecked :
                    \/ local'[h] = [local[h] EXCEPT !.unchecked = @ \ {n}]
                    \/ /\ local'[h] = [local[h] EXCEPT !.unchecked = @ \ {n},
                                                       !.victims = @ \cup {n}]
                       /\ "candidate" \in IsScaleDownCandidate(Snapshot(h, n), getNodeInfos, PDBs)
<1>1. UNCHANGED <<kubeVars, poolVars, updateLock, req>> /\ pc[h] = "checkCandidates"
      /\ (NoFault \/ Fault)
  BY Zenon DEF CheckCandidate
<1> DEFINE l1(n) == [local[h] EXCEPT !.unchecked = @ \ {n}]
           l2(n) == [local[h] EXCEPT !.unchecked = @ \ {n}, !.victims = @ \cup {n}]
<1>2. \/ local' = local /\ Goto(h, "panicked")
      \/ /\ UNCHANGED <<pc, result>>
         /\ \E n \in local[h].unchecked :
              \/ local' = [local EXCEPT ![h] = l1(n)]
              \/ /\ local' = [local EXCEPT ![h] = l2(n)]
                 /\ "candidate" \in isScaleDownCandidate(h, n)
  BY Zenon DEF CheckCandidate
<1>3. CASE local' = local /\ Goto(h, "panicked")
  BY <1>1, <1>3, ControlWrite, Zenon DEF Frame
<1>4. ASSUME NEW n \in local[h].unchecked, UNCHANGED <<pc, result>>,
             \/ local' = [local EXCEPT ![h] = l1(n)]
             \/ /\ local' = [local EXCEPT ![h] = l2(n)]
                /\ "candidate" \in isScaleDownCandidate(h, n)
      PROVE  /\ Frame(h)
             /\ \/ local'[h] = l1(n)
                \/ /\ local'[h] = l2(n)
                   /\ "candidate" \in IsScaleDownCandidate(Snapshot(h, n), getNodeInfos, PDBs)
  <2>1. "candidate" \in isScaleDownCandidate(h, n)
          => "candidate" \in IsScaleDownCandidate(Snapshot(h, n), getNodeInfos, PDBs)
    BY DEF isScaleDownCandidate
  <2> HIDE DEF l1, l2
  <2>2. \/ local'[h] = l1(n) 
        \/ local'[h] = l2(n) /\ "candidate" \in isScaleDownCandidate(h, n)
    BY <1>4, LocalWrite, Zenon
  <2>3. \A g \in Handler \ {h} : local'[g] = local[g]
    BY <1>4, LocalWrite, Zenon
  <2> QED
    BY <1>1, <1>4, <2>1, <2>2, <2>3, Zenon DEF Frame
<1>5. UNCHANGED <<pc, result>> => pc'[h] = "checkCandidates" /\ result'[h] = result[h]
  BY <1>1
<1> QED
  BY <1>1, <1>2, <1>3, <1>4, <1>5, Zenon

(* The queue is made of different candidates, at most nodesToRemove of     *)
(* them.                                                                   *)
LEMMA SelectVictimsEffect ==
  ASSUME TypeInv, NEW h \in Handler, SelectVictims(h)
  PROVE  /\ Frame(h) /\ UNCHANGED <<kubeVars, poolVars, faults>> /\ pc[h] = "checkCandidates"
         /\ \/ local'[h] = local[h] /\ GivesUp(h)
            \/ /\ local'[h] = [local[h] EXCEPT !.queue = local'[h].queue]
               /\ local[h].i = 1 /\ local'[h].queue \in Seq(Node) /\ local'[h].queue # << >>
               /\ \A j \in DOMAIN local'[h].queue : local'[h].queue[j] \in local[h].victims
               /\ \A j, k \in DOMAIN local'[h].queue :
                    local'[h].queue[j] = local'[h].queue[k] => j = k
               /\ req[h].op = "setDesiredSize" =>
                    Len(local'[h].queue) <= Cardinality(local[h].pairs) - req[h].size
               /\ pc'[h] = "markUnschedulable"
<1> DEFINE k == nodesToRemove(h)
           q(s) == SubSeq(s, 1, k)
           l(s) == [local[h] EXCEPT !.queue = q(s)]
<1>1. UNCHANGED <<kubeVars, poolVars, updateLock, req, faults>> /\ pc[h] = "checkCandidates"
  BY DEF SelectVictims
<1>2. \/ local' = local /\ Return(h, "error")
      \/ /\ local[h].victims # {} /\ Goto(h, "markUnschedulable")
         /\ \E s \in sortByLoad(h) : local' = [local EXCEPT ![h] = l(s)]
  BY Zenon DEF SelectVictims
<1>3. CASE local' = local /\ Return(h, "error")
  BY <1>1, <1>3, ControlWrite DEF Frame, GivesUp
<1>4. CASE /\ local[h].victims # {} /\ Goto(h, "markUnschedulable")
           /\ \E s \in sortByLoad(h) : local' = [local EXCEPT ![h] = l(s)]
  <2>1. PICK s \in sortByLoad(h) : local' = [local EXCEPT ![h] = l(s)]
    BY <1>4, Zenon
  <2>2. pc[h] \in UpdatingPC
    BY <1>1 DEF UpdatingPC, PC
  <2>3. local[h] \in LocalType /\ local[h].i = 1
    BY <1>1, <2>2, InOperation DEF LocalsFit, SelectingPC
  <2>4. /\ local[h].victims \in SUBSET Node
        /\ s \in Injection(1..Cardinality(local[h].victims), local[h].victims)
    BY <2>1, <2>3 DEF LocalType, sortByLoad
  <2>5. /\ k \in 1..Cardinality(local[h].victims)
        /\ req[h].op = "setDesiredSize" => k <= Cardinality(local[h].pairs) - req[h].size
    BY <1>1, <1>4, NodesToRemove
  <2>6. /\ q(s) \in Seq(Node) /\ Len(q(s)) = k
        /\ \A j \in 1..k : q(s)[j] = s[j] /\ s[j] \in local[h].victims
    <3> HIDE DEF k
    <3> QED
      BY <2>4, <2>5, PrefixType
  <2>7. DOMAIN q(s) = 1..k /\ q(s) # << >> /\ Cardinality(local[h].victims) \in Nat
    <3>1. Cardinality(local[h].victims) \in Nat
      BY <2>4, ProxyAssumption, FS_Subset, FS_CardinalityType
    <3> HIDE DEF k, q
    <3> QED
      BY <2>5, <2>6, <3>1
  <2>8. \A a, b \in 1..k : s[a] = s[b] => a = b
    <3>1. \A a, b \in 1..Cardinality(local[h].victims) : s[a] = s[b] => a = b
      BY <2>4 DEF Injection, IsInjective
    <3> HIDE DEF k
    <3> QED
      BY <2>5, <2>7, <3>1
  <2>9. l(s).queue = q(s)
    <3> HIDE DEF q
    <3> QED
      BY <2>3, Zenon DEF LocalType
  <2>10. l(s) = [local[h] EXCEPT !.queue = l(s).queue]
    BY <2>9, Zenon
  <2> HIDE DEF l, q, k
  <2>11. local'[h] = l(s) /\ \A g \in Handler \ {h} : local'[g] = local[g]
    BY <2>1, LocalWrite, Zenon
  <2>12. pc'[h] = "markUnschedulable"
         /\ \A g \in Handler \ {h} : pc'[g] = pc[g] /\ result'[g] = result[g]
    BY <1>4, ControlWrite
  <2>13. Frame(h)
    BY <1>1, <2>11, <2>12 DEF Frame
  <2>14. /\ \A j \in DOMAIN q(s) : q(s)[j] \in local[h].victims
         /\ \A a, b \in DOMAIN q(s) : q(s)[a] = q(s)[b] => a = b
         /\ req[h].op = "setDesiredSize" => Len(q(s)) <= Cardinality(local[h].pairs) - req[h].size
    BY <2>5, <2>6, <2>7, <2>8
  <2>15. local'[h].queue = q(s) /\ local'[h] = [local[h] EXCEPT !.queue = local'[h].queue]
    BY <2>9, <2>10, <2>11, Zenon
  <2>16. q(s) \in Seq(Node)
    BY <2>6
  <2> QED
    BY <1>1, <2>3, <2>7, <2>12, <2>13, <2>14, <2>15, <2>16, Zenon
<1> QED
  BY <1>2, <1>3, <1>4, Zenon

-----------------------------------------------------------------------------
(* The steps of evictAndTerminate.                                         *)

(* The operation of h keeps what it knows of nodes, and its choice of      *)
(* victims.                                                                *)
KeepsVictims(h) ==
  /\ local'[h].nodes = local[h].nodes
  /\ local'[h].pods = local[h].pods
  /\ local'[h].pairs = local[h].pairs
  /\ local'[h].unchecked = local[h].unchecked
  /\ local'[h].victims = local[h].victims
  /\ local'[h].queue = local[h].queue

(* Writing evict or i keeps the victims. *)
LEMMA EvictWrite ==
  ASSUME TypeInv, NEW h \in Handler, NEW e, local' = [local EXCEPT ![h].evict = e]
  PROVE  /\ KeepsVictims(h) /\ local'[h].i = local[h].i /\ local'[h].evict = e
         /\ \A g \in Handler \ {h} : local'[g] = local[g]
<1> DEFINE l == [local[h] EXCEPT !.evict = e]
<1>1. local[h] \in LocalType
  BY DEF TypeInv, TypeOK
<1>2. /\ l.nodes = local[h].nodes /\ l.pods = local[h].pods /\ l.pairs = local[h].pairs
      /\ l.unchecked = local[h].unchecked /\ l.victims = local[h].victims
      /\ l.queue = local[h].queue /\ l.i = local[h].i /\ l.evict = e
  BY <1>1 DEF LocalType
<1>3. local' = [local EXCEPT ![h] = l]
  BY Zenon
<1> HIDE DEF l
<1>4. local'[h] = l /\ \A g \in Handler \ {h} : local'[g] = local[g]
  BY <1>3, LocalWrite, Zenon
<1> QED
  BY <1>2, <1>4 DEF KeepsVictims

(* Moving on to another position of the queue keeps it. *)
LEMMA IndexWrite ==
  ASSUME TypeInv, NEW h \in Handler, NEW j, local' = [local EXCEPT ![h].i = j]
  PROVE  /\ KeepsVictims(h) /\ local'[h].i = j
         /\ \A g \in Handler \ {h} : local'[g] = local[g]
<1> DEFINE l == [local[h] EXCEPT !.i = j]
<1>1. local[h] \in LocalType
  BY DEF TypeInv, TypeOK
<1>2. /\ l.nodes = local[h].nodes /\ l.pods = local[h].pods /\ l.pairs = local[h].pairs
      /\ l.unchecked = local[h].unchecked /\ l.victims = local[h].victims
      /\ l.queue = local[h].queue /\ l.i = j
  BY <1>1 DEF LocalType
<1>3. local' = [local EXCEPT ![h] = l]
  BY Zenon
<1> HIDE DEF l
<1>4. local'[h] = l /\ \A g \in Handler \ {h} : local'[g] = local[g]
  BY <1>3, LocalWrite, Zenon
<1> QED
  BY <1>2, <1>4 DEF KeepsVictims

(* markUnschedulable taints the victim, which is registered, or fails. *)
LEMMA MarkUnschedulableEffect ==
  ASSUME TypeInv, NEW h \in Handler, MarkUnschedulable(h)
  PROVE  /\ Frame(h) /\ KeepsVictims(h) /\ local'[h].i = local[h].i
         /\ UNCHANGED <<poolVars, nodeState, host, leaving>> /\ pc[h] = "markUnschedulable"
         /\ \/ /\ NoFault /\ victim(h) \in Registered /\ tainted' = tainted \cup {victim(h)}
               /\ local'[h].evict = podsToDrain(h)
               /\ pc'[h] = IF podsToDrain(h) = {} THEN "deleteNode" ELSE "evictPods"
            \/ NoFault /\ victim(h) \notin Registered /\ tainted' = tainted /\ GivesUp(h)
            \/ /\ Fault /\ GivesUp(h)
               /\ \/ tainted' = tainted
                  \/ victim(h) \in Registered /\ tainted' = tainted \cup {victim(h)}
<1>1. /\ UNCHANGED <<poolVars, nodeState, host, leaving, updateLock, req>>
      /\ pc[h] = "markUnschedulable"
  BY DEF MarkUnschedulable, AddTaint, kubeVars
<1>2. CASE /\ NoFault /\ victim(h) \in Registered /\ AddTaint(victim(h))
           /\ local' = [local EXCEPT ![h].evict = podsToDrain(h)]
           /\ Goto(h, IF podsToDrain(h) = {} THEN "deleteNode" ELSE "evictPods")
  <2>1. /\ KeepsVictims(h) /\ local'[h].i = local[h].i /\ local'[h].evict = podsToDrain(h)
        /\ \A g \in Handler \ {h} : local'[g] = local[g]
    BY <1>2, EvictWrite, Zenon
  <2>2. /\ pc'[h] = IF podsToDrain(h) = {} THEN "deleteNode" ELSE "evictPods"
        /\ \A g \in Handler \ {h} : pc'[g] = pc[g] /\ result'[g] = result[g]
    BY <1>2, ControlWrite, Zenon
  <2> QED
    BY <1>1, <1>2, <2>1, <2>2, Zenon DEF Frame, AddTaint
<1>3. CASE UNCHANGED local /\ Return(h, "error")
  <2>1. GivesUp(h) /\ Frame(h)
    BY <1>1, <1>3, ControlWrite DEF Frame, GivesUp
  <2>2. KeepsVictims(h) /\ local'[h].i = local[h].i
    BY <1>3 DEF KeepsVictims
  <2>3. \/ NoFault /\ victim(h) \notin Registered /\ tainted' = tainted
        \/ Fault /\ (\/ tainted' = tainted
                     \/ victim(h) \in Registered /\ tainted' = tainted \cup {victim(h)})
    <3>1. pc'[h] = "unlock"
      BY <2>1 DEF GivesUp
    <3>2. ~Goto(h, IF podsToDrain(h) = {} THEN "deleteNode" ELSE "evictPods")
      BY <3>1, ControlWrite
    <3> QED
      BY <3>2, Zenon DEF MarkUnschedulable, AddTaint, kubeVars
  <2> QED
    BY <1>1, <2>1, <2>2, <2>3
<1> QED
  BY <1>2, <1>3, Zenon DEF MarkUnschedulable

(* One eviction: granted, so that the pod is leaving, or the drain fails. *)
LEMMA EvictOnePodEffect ==
  ASSUME TypeInv, NEW h \in Handler, EvictOnePod(h)
  PROVE  /\ Frame(h) /\ KeepsVictims(h) /\ local'[h].i = local[h].i
         /\ UNCHANGED <<poolVars, nodeState, tainted, host>> /\ pc[h] = "evictPods"
         /\ \E p \in local[h].evict :
              /\ local'[h].evict = local[h].evict \ {p}
              /\ \/ /\ NoFault /\ leaving' = leaving \cup {p}
                    /\ pc'[h] = IF local[h].evict = {p} THEN "deleteNode" ELSE "evictPods"
                 \/ /\ NoFault \/ Fault
                    /\ leaving' = leaving \/ leaving' = leaving \cup {p}
                    /\ pc'[h] = "markSchedulable"
<1>1. /\ UNCHANGED <<poolVars, nodeState, tainted, host, updateLock, req>>
      /\ pc[h] = "evictPods"
  BY DEF EvictOnePod, EvictPod, kubeVars
<1>2. PICK p \in local[h].evict :
        /\ local' = [local EXCEPT ![h].evict = @ \ {p}]
        /\ \/ /\ NoFault /\ EvictPod(p)
              /\ IF local[h].evict = {p} THEN Goto(h, "deleteNode") ELSE UNCHANGED <<pc, result>>
           \/ /\ NoFault \/ Fault
              /\ UNCHANGED kubeVars \/ EvictPod(p)
              /\ Goto(h, "markSchedulable")
  BY Zenon DEF EvictOnePod
<1>3. local' = [local EXCEPT ![h].evict = local[h].evict \ {p}]
  BY <1>2, Zenon
<1>4. /\ KeepsVictims(h) /\ local'[h].i = local[h].i /\ local'[h].evict = local[h].evict \ {p}
      /\ \A g \in Handler \ {h} : local'[g] = local[g]
  <2> DEFINE e == local[h].evict \ {p}
  <2>1. local' = [local EXCEPT ![h].evict = e]
    BY <1>3
  <2> HIDE DEF e
  <2>2. /\ KeepsVictims(h) /\ local'[h].i = local[h].i /\ local'[h].evict = e
        /\ \A g \in Handler \ {h} : local'[g] = local[g]
    BY <2>1, EvictWrite, Zenon
  <2> QED
    BY <2>2 DEF e
<1>5. \A g \in Handler \ {h} : pc'[g] = pc[g] /\ result'[g] = result[g]
  BY <1>2, ControlWrite
<1>6. \/ /\ NoFault /\ leaving' = leaving \cup {p}
         /\ pc'[h] = IF local[h].evict = {p} THEN "deleteNode" ELSE "evictPods"
      \/ /\ NoFault \/ Fault
         /\ leaving' = leaving \/ leaving' = leaving \cup {p}
         /\ pc'[h] = "markSchedulable"
  <2>1. /\ Goto(h, "deleteNode") => pc'[h] = "deleteNode"
        /\ Goto(h, "markSchedulable") => pc'[h] = "markSchedulable"
        /\ UNCHANGED <<pc, result>> => pc'[h] = "evictPods"
    BY <1>1 DEF Goto, TypeInv, TypeOK
  <2> QED
    BY <1>2, <2>1 DEF EvictPod, kubeVars
<1> QED
  BY <1>1, <1>4, <1>5, <1>6, Zenon DEF Frame

(* The deferred markSchedulable takes the taint away, unless it fails. *)
LEMMA MarkSchedulableEffect ==
  ASSUME TypeInv, NEW h \in Handler, MarkSchedulable(h)
  PROVE  /\ Frame(h) /\ local'[h] = local[h] /\ GivesUp(h)
         /\ UNCHANGED <<poolVars, nodeState, host, leaving>> /\ pc[h] = "markSchedulable"
         /\ \/ /\ NoFault
               /\ tainted' = IF victim(h) \in Registered THEN tainted \ {victim(h)} ELSE tainted
            \/ Fault /\ (tainted' = tainted \/ tainted' = tainted \ {victim(h)})
<1>1. /\ UNCHANGED <<poolVars, nodeState, host, leaving, updateLock, req, local>>
      /\ pc[h] = "markSchedulable" /\ Return(h, "error")
      /\ \/ /\ NoFault
            /\ tainted' = IF victim(h) \in Registered THEN tainted \ {victim(h)} ELSE tainted
         \/ Fault /\ (tainted' = tainted \/ tainted' = tainted \ {victim(h)})
  BY DEF MarkSchedulable, RemoveTaint, kubeVars
<1> QED
  BY <1>1, ControlWrite DEF Frame, GivesUp

(* DeleteNode deletes the victim, which is registered, or fails. *)
LEMMA DeleteNodeEffect ==
  ASSUME TypeInv, NEW h \in Handler, DeleteNode(h)
  PROVE  /\ Frame(h) /\ local'[h] = local[h]
         /\ UNCHANGED <<poolVars, host, leaving>> /\ pc[h] = "deleteNode"
         /\ \/ NoFault /\ victim(h) \notin Registered /\ UNCHANGED kubeVars /\ GivesUp(h)
            \/ Fault /\ UNCHANGED kubeVars /\ GivesUp(h)
            \/ /\ victim(h) \in Registered
               /\ tainted' = tainted \ {victim(h)} /\ nodeState'[victim(h)] = "deleted"
               /\ \A n \in Node \ {victim(h)} : nodeState'[n] = nodeState[n]
               /\ \/ NoFault /\ pc'[h] = "terminateMachine"
                  \/ Fault /\ GivesUp(h)
<1>1. /\ UNCHANGED <<poolVars, host, leaving, updateLock, req, local>>
      /\ pc[h] = "deleteNode"
      /\ \/ /\ NoFault /\ victim(h) \in Registered /\ RemoveNode(victim(h))
            /\ Goto(h, "terminateMachine")
         \/ /\ \/ NoFault /\ victim(h) \notin Registered /\ UNCHANGED kubeVars
               \/ Fault /\ UNCHANGED kubeVars
               \/ Fault /\ victim(h) \in Registered /\ RemoveNode(victim(h))
            /\ Return(h, "error")
  BY DEF DeleteNode, RemoveNode, kubeVars
<1>2. /\ Frame(h)
      /\ Goto(h, "terminateMachine") => pc'[h] = "terminateMachine"
      /\ Return(h, "error") => GivesUp(h)
  BY <1>1, ControlWrite, Zenon DEF Frame, GivesUp
<1>3. RemoveNode(victim(h)) /\ victim(h) \in Registered =>
        /\ tainted' = tainted \ {victim(h)} /\ nodeState'[victim(h)] = "deleted"
        /\ \A n \in Node \ {victim(h)} : nodeState'[n] = nodeState[n]
  BY DEF RemoveNode, Registered, TypeInv, TypeOK, KubeTypeOK
<1> QED
  BY <1>1, <1>2, <1>3

(* TerminateMachine: the machine of the victim is given up, and the next   *)
(* victim's turn comes or the operation succeeds; or the call fails, and a *)
(* machine that is still allocated is then due to a fault.                 *)
LEMMA TerminateMachineEffect ==
  ASSUME TypeInv, NEW h \in Handler, TerminateMachine(h)
  PROVE  /\ Frame(h) /\ KeepsVictims(h)
         /\ UNCHANGED <<kubeVars, active, evictable>> /\ pc[h] = "terminateMachine"
         /\ \/ /\ NoFault /\ IsMachineAllocated(externalID(victim(h)))
               /\ machineState' = [machineState EXCEPT ![externalID(victim(h))] = "TERMINATING"]
               /\ \/ /\ local'[h].i = local[h].i + 1 /\ local[h].i < Len(local[h].queue)
                     /\ pc'[h] = "markUnschedulable"
                  \/ /\ local'[h] = local[h] /\ ~(local[h].i < Len(local[h].queue))
                     /\ pc'[h] = "unlock" /\ result'[h] = "ok"
            \/ /\ local'[h] = local[h] /\ machineState' = machineState /\ GivesUp(h)
               /\ \/ NoFault /\ ~IsMachineAllocated(externalID(victim(h)))
                  \/ Fault
<1> DEFINE m == externalID(victim(h))
           call == [op |-> "terminate", machine |-> m,
                    decrement |-> req[h].op = "setDesiredSize" \/ req[h].decrement]
<1>1. /\ UNCHANGED <<updateLock, req, kubeVars>> /\ pc[h] = "terminateMachine"
      /\ \/ /\ BackendDone(call)
            /\ IF local[h].i < Len(local[h].queue)
               THEN local' = [local EXCEPT ![h].i = @ + 1] /\ Goto(h, "markUnschedulable")
               ELSE Return(h, "ok") /\ UNCHANGED local
         \/ BackendFails(call) /\ Return(h, "error") /\ UNCHANGED local
  BY Zenon DEF TerminateMachine
<1>2. call.op = "terminate" /\ call.machine = m
  BY Zenon
<1> HIDE DEF call, m
<1>3. BackendDone(call) => /\ NoFault /\ IsMachineAllocated(m) /\ UNCHANGED <<active, evictable>>
                           /\ machineState' = [machineState EXCEPT ![m] = "TERMINATING"]
  BY <1>2 DEF BackendDone, CarryOut, Accepts
<1>4. BackendFails(call) => /\ machineState' = machineState /\ UNCHANGED <<active, evictable>>
                            /\ \/ NoFault /\ ~IsMachineAllocated(m)
                               \/ Fault
  BY <1>2 DEF BackendFails, Accepts, Delay, poolVars
<1>5. CASE /\ BackendDone(call) /\ local[h].i < Len(local[h].queue)
           /\ local' = [local EXCEPT ![h].i = @ + 1] /\ Goto(h, "markUnschedulable")
  <2> DEFINE j == local[h].i + 1
  <2>1. local' = [local EXCEPT ![h].i = j]
    BY <1>5, Zenon
  <2> HIDE DEF j
  <2>2. /\ KeepsVictims(h) /\ local'[h].i = j
        /\ \A g \in Handler \ {h} : local'[g] = local[g]
    BY <2>1, IndexWrite, Zenon
  <2>3. /\ pc'[h] = "markUnschedulable"
        /\ \A g \in Handler \ {h} : pc'[g] = pc[g] /\ result'[g] = result[g]
    BY <1>5, ControlWrite, Zenon
  <2> QED
    BY <1>1, <1>3, <1>5, <2>2, <2>3, Zenon DEF Frame, j, m
<1>6. CASE /\ BackendDone(call) /\ ~(local[h].i < Len(local[h].queue))
           /\ Return(h, "ok") /\ UNCHANGED local
  <2>1. /\ pc'[h] = "unlock" /\ result'[h] = "ok"
        /\ \A g \in Handler \ {h} : pc'[g] = pc[g] /\ result'[g] = result[g]
    BY <1>6, ControlWrite, Zenon
  <2> QED
    BY <1>1, <1>3, <1>6, <2>1, Zenon DEF Frame, KeepsVictims, m
<1>7. CASE BackendFails(call) /\ Return(h, "error") /\ UNCHANGED local
  <2>1. /\ GivesUp(h)
        /\ \A g \in Handler \ {h} : pc'[g] = pc[g] /\ result'[g] = result[g]
    BY <1>7, ControlWrite, Zenon DEF GivesUp
  <2> QED
    BY <1>1, <1>4, <1>7, <2>1, Zenon DEF Frame, KeepsVictims, m
<1> QED
  BY <1>1, <1>5, <1>6, <1>7, Zenon

(* Passing a desired size on leaves the nodes and the machines alone. *)
LEMMA SetDesiredSizeEffect ==
  ASSUME TypeInv, NEW h \in Handler, SetDesiredSize(h)
  PROVE  /\ Frame(h) /\ local'[h] = local[h] /\ UNCHANGED kubeVars /\ (NoFault \/ Fault)
         /\ machineState' = machineState
         /\ pc[h] = "setDesiredSize" /\ pc'[h] = "unlock"
<1> DEFINE call == [op |-> "setSize", size |-> req[h].size]
<1>1. /\ UNCHANGED <<updateLock, req, kubeVars, local>> /\ pc[h] = "setDesiredSize"
      /\ BackendDone(call) \/ BackendFails(call)
      /\ Return(h, "ok") \/ Return(h, "error")
  BY Zenon DEF SetDesiredSize
<1>2. call.op = "setSize"
  OBVIOUS
<1> HIDE DEF call
<1>3. machineState' = machineState /\ (NoFault \/ Fault)
  BY <1>1, <1>2 DEF BackendDone, BackendFails, CarryOut, Delay, poolVars
<1> QED
  BY <1>1, <1>3, ControlWrite DEF Frame

-----------------------------------------------------------------------------
(* The cluster and the pool.                                               *)

(* The cluster runs: nodes join and vanish, pods go, and waiting pods are  *)
(* bound to nodes that are registered and accept them; a tainted one       *)
(* accepts only a pod that tolerates the taint.                            *)
ClusterRuns ==
  /\ \A n \in Node : \/ nodeState'[n] = nodeState[n]
                     \/ nodeState[n] = "unregistered" /\ nodeState'[n] = "registered"
                     \/ nodeState[n] = "registered" /\ nodeState'[n] = "vanished" /\ n \notin tainted'
  /\ tainted' \subseteq tainted
  /\ \A n \in tainted : n \in tainted' \/ nodeState'[n] = "vanished"
  /\ \A p \in Pod : \/ host'[p] = host[p]
                    \/ host'[p] = NoNode
                    \/ /\ host[p] = NoNode /\ host'[p] \in Registered
                       /\ ~isAPIServerPod(PodSpec[p], host'[p])
                       /\ host'[p] \in tainted =>
                            hasToleration(PodSpec[p], NodeAboutToBeDrainedTaint)
  /\ leaving' \subseteq leaving
  /\ \A p \in leaving : p \in leaving' \/ host'[p] = NoNode

(* A machine that is in the pool stays in its list, and one that is on its *)
(* way out does not come back.                                             *)
PoolRuns ==
  \A m \in Machine :
    /\ machineState[m] # "NONE" => machineState'[m] # "NONE"
    /\ machineState[m] \in {"TERMINATING", "TERMINATED"} =>
         machineState'[m] \in {"TERMINATING", "TERMINATED"}

(* A node of the cluster is a master when a pod of the API server is on    *)
(* it.                                                                     *)
IsMaster(n) == \E p \in Pod : host[p] = n /\ isAPIServerPod(PodSpec[p], n)

(* This is what isMasterNode computes. *)
LEMMA MasterNode ==
  ASSUME NEW n
  PROVE  /\ isMasterNode(getNodeInfo(n)) <=> IsMaster(n)
         /\ isMasterNode(getNodeInfo(n))' <=> IsMaster(n)'
<1>1. getNodeInfo(n).name = n /\ getNodeInfo(n).pods = {PodSpec[p] : p \in PodsOn(n)}
  BY DEF getNodeInfo, NodeInfoWith
<1>2. getNodeInfo(n).name' = n /\ getNodeInfo(n).pods' = {PodSpec[p] : p \in PodsOn(n)'}
  BY DEF getNodeInfo, NodeInfoWith
<1>3. isMasterNode(getNodeInfo(n)) <=> IsMaster(n)
  BY <1>1 DEF isMasterNode, PodsOn, IsMaster
<1>4. isMasterNode(getNodeInfo(n))' <=> IsMaster(n)'
  BY <1>2 DEF isMasterNode, PodsOn, IsMaster
<1> QED
  BY <1>3, <1>4

(* A node that accepts a pod and has the drain taint is tolerated by it. *)
LEMMA TaintRepels ==
  ASSUME NEW p \in Pod, NEW n \in Node, n \in tainted,
         acceptablePodDestination(PodSpec[p], getNodeInfo(n))
  PROVE  hasToleration(PodSpec[p], NodeAboutToBeDrainedTaint)
<1>1. NodeAboutToBeDrainedTaint \in getNodeInfo(n).taints
  BY Zenon DEF getNodeInfo, NodeInfoWith
<1>2. NodeAboutToBeDrainedTaint.effect = "NoSchedule"
  BY DEF NodeAboutToBeDrainedTaint
<1> QED
  BY <1>1, <1>2 DEF acceptablePodDestination, podToleratesNodeTaints

(* A cluster that does not change runs, too. *)
LEMMA ClusterRests == ASSUME UNCHANGED kubeVars PROVE ClusterRuns
BY DEF ClusterRuns, kubeVars

(* So does a pool. *)
LEMMA PoolRests == ASSUME machineState' = machineState PROVE PoolRuns
BY DEF PoolRuns

(* A machine that is terminated was allocated, so the pool runs. *)
LEMMA PoolTerminates ==
  ASSUME TypeInv, NEW m \in Machine, machineState' = [machineState EXCEPT ![m] = "TERMINATING"]
  PROVE  PoolRuns
BY DEF PoolRuns, TypeInv, TypeOK, PoolTypeOK

(* What happens in the cluster and in the pool without the proxy. *)
LEMMA EnvironmentEffect ==
  ASSUME TypeInv, Environment
  PROVE  ClusterRuns /\ PoolRuns /\ UNCHANGED proxyVars
<1>1. ASSUME NEW p \in Pod, PodGone(p) PROVE ClusterRuns
  BY <1>1 DEF PodGone, ClusterRuns, TypeInv, TypeOK, KubeTypeOK
<1>2. ASSUME NEW p \in Pod, NEW n \in Node, SchedulerBinds(p, n) PROVE ClusterRuns
  <2>1. n \in tainted => hasToleration(PodSpec[p], NodeAboutToBeDrainedTaint)
    BY <1>2, TaintRepels DEF SchedulerBinds
  <2>2. /\ host[p] = NoNode /\ n \in Registered /\ ~isAPIServerPod(PodSpec[p], n)
        /\ host' = [host EXCEPT ![p] = n] /\ UNCHANGED <<nodeState, tainted, leaving>>
    BY <1>2 DEF SchedulerBinds
  <2> QED
    BY <2>1, <2>2 DEF ClusterRuns, TypeInv, TypeOK, KubeTypeOK
<1>3. ASSUME NEW n \in Node, NodeJoins(n) \/ NodeVanishes(n) PROVE ClusterRuns
  BY <1>3 DEF NodeJoins, NodeVanishes, ClusterRuns, TypeInv, TypeOK, KubeTypeOK
<1>4. ASSUME NEW m \in Machine, Launch(m) \/ MachineAdvances(m) \/ ScaleIn(m) PROVE PoolRuns
  BY <1>4 DEF Launch, MachineAdvances, ScaleIn, PoolRuns, TypeInv, TypeOK, PoolTypeOK
<1>5. ASSUME NEW call \in delayed, DelayedCallArrives(call) PROVE PoolRuns
  <2>1. call \in Call
    BY DEF TypeInv, TypeOK, PoolTypeOK
  <2>2. CASE CarryOut(call) /\ call.op = "terminate"
    <3>1. call.machine \in Machine
      BY <2>1, <2>2 DEF Call
    <3> QED
      BY <2>2, <3>1, PoolTerminates DEF CarryOut
  <2> QED
    BY <1>5, <2>2, PoolRests DEF DelayedCallArrives, CarryOut
<1>6. CASE UNCHANGED <<poolVars, proxyVars>>
  <2>1. PoolRuns
    BY <1>6, PoolRests DEF poolVars
  <2>2. CASE UNCHANGED kubeVars
    BY <1>6, <2>1, <2>2, ClusterRests
  <2>3. CASE \/ \E p \in Pod : PodGone(p) \/ \E n \in Node : SchedulerBinds(p, n)
             \/ \E n \in Node : NodeJoins(n) \/ NodeVanishes(n)
    BY <1>1, <1>2, <1>3, <1>6, <2>1, <2>3
  <2> QED
    BY <2>2, <2>3 DEF Environment
<1>7. CASE /\ \/ \E m \in Machine : Launch(m) \/ MachineAdvances(m) \/ ScaleIn(m)
              \/ \E call \in delayed : DelayedCallArrives(call)
           /\ UNCHANGED <<kubeVars, proxyVars>>
  BY <1>4, <1>5, <1>7, ClusterRests
<1> QED
  BY <1>6, <1>7 DEF Environment

-----------------------------------------------------------------------------
(* The kinds of steps.                                                     *)

(* A step of the operation that h runs under updateLock. *)
Operation(h) ==
  \/ ListWorkerNodes(h) \/ GetMachinePool(h) \/ GetMachine(h)
  \/ CheckCandidate(h) \/ SelectVictims(h) \/ SetDesiredSize(h)
  \/ MarkUnschedulable(h) \/ EvictOnePod(h) \/ MarkSchedulable(h)
  \/ DeleteNode(h) \/ TerminateMachine(h)

(* The operation of g, if it runs one, is as it was. *)
Waits(g) ==
  pc'[g] = pc[g] /\ local'[g] = local[g] /\ req'[g] = req[g] /\ result'[g] = result[g]

(* A step that is not part of an operation: operations begin and end in    *)
(* it, but none goes on.                                                   *)
Outside ==
  /\ ClusterRuns
  /\ NoFault \/ Fault
  /\ \A g \in Handler :
       \/ Waits(g)
       \/ pc'[g] \notin UpdatingPC /\ (pc[g] \notin UpdatingPC \/ pc[g] = "unlock")
       \/ pc[g] = "lock" /\ pc'[g] = "listWorkerNodes" /\ local'[g] = NoLocals

(* All handlers are gone. *)
Restart ==
  /\ UNCHANGED <<kubeVars, poolVars>> /\ Fault
  /\ \A g \in Handler : pc'[g] = "idle"

(* The steps of a handler outside its operation. *)
LEMMA HandlerOutside ==
  ASSUME TypeInv, NEW h \in Handler,
         Receive(h) \/ Lock(h) \/ ForwardToBackend(h) \/ Unlock(h) \/ Respond(h)
  PROVE  Outside /\ machineState' = machineState
<1>1. ClusterRuns /\ (NoFault \/ Fault) /\ machineState' = machineState
  <2>1. UNCHANGED kubeVars /\ (NoFault \/ Fault)
    BY DEF Receive, Lock, ForwardToBackend, Unlock, Respond, NoFault
  <2>2. machineState' = machineState
    BY DEF Receive, Lock, ForwardToBackend, Unlock, Respond, SetMembership, poolVars
  <2> QED
    BY <2>1, <2>2, ClusterRests
<1>2. ASSUME NEW g \in Handler \ {h} PROVE Waits(g)
  <2>1. CASE Receive(h)
    BY <2>1, <1>2 DEF Receive, Goto, Waits, TypeInv, TypeOK
  <2>2. CASE Lock(h)
    BY <2>2, <1>2 DEF Lock, Goto, Waits, TypeInv, TypeOK
  <2>3. CASE ForwardToBackend(h)
    BY <2>3, <1>2 DEF ForwardToBackend, Waits, TypeInv, TypeOK
  <2>4. CASE Unlock(h)
    BY <2>4, <1>2 DEF Unlock, Goto, Waits, TypeInv, TypeOK
  <2>5. CASE Respond(h)
    BY <2>5, <1>2 DEF Respond, Waits, TypeInv, TypeOK
  <2> QED
    BY <2>1, <2>2, <2>3, <2>4, <2>5
<1>3. \/ pc'[h] \notin UpdatingPC /\ (pc[h] \notin UpdatingPC \/ pc[h] = "unlock")
      \/ pc[h] = "lock" /\ pc'[h] = "listWorkerNodes" /\ local'[h] = NoLocals
  <2>1. CASE Receive(h)
    BY <2>1 DEF Receive, Goto, TypeInv, TypeOK, UpdatingPC
  <2>2. CASE Lock(h)
    BY <2>2 DEF Lock, Goto, TypeInv, TypeOK, UpdatingPC, Updating, LocalsAreSound
  <2>3. CASE ForwardToBackend(h)
    BY <2>3 DEF ForwardToBackend, TypeInv, TypeOK, UpdatingPC
  <2>4. CASE Unlock(h)
    BY <2>4 DEF Unlock, Goto, TypeInv, TypeOK, UpdatingPC
  <2>5. CASE Respond(h)
    BY <2>5 DEF Respond, TypeInv, TypeOK, UpdatingPC
  <2> QED
    BY <2>1, <2>2, <2>3, <2>4, <2>5, Zenon
<1> QED
  BY <1>1, <1>2, <1>3 DEF Outside

(* Every step is a step of the one operation that runs, or outside of      *)
(* operations, or a restart.                                               *)
LEMMA StepKinds ==
  ASSUME TypeInv, [Next]_vars
  PROVE  (\E h \in Handler : Operation(h)) \/ Outside \/ Restart
<1>1. CASE Crash
  BY <1>1 DEF Crash, Restart
<1>2. ASSUME UNCHANGED proxyVars, ClusterRuns PROVE Outside
  BY <1>2 DEF Outside, proxyVars, Waits, NoFault
<1>3. CASE Environment
  BY <1>2, <1>3, EnvironmentEffect
<1>4. CASE UNCHANGED vars
  BY <1>2, <1>4, ClusterRests DEF vars
<1>5. ASSUME NEW h \in Handler, Receive(h) \/ Lock(h) \/ Serve(h)
      PROVE  Operation(h) \/ Outside
  BY <1>5, HandlerOutside DEF Serve, Operation
<1> QED
  BY <1>1, <1>3, <1>4, <1>5 DEF Next

(* While h runs its operation no other handler runs one. *)
LEMMA OperationAlone ==
  ASSUME TypeInv, TypeInv', NEW h \in Handler, Operation(h)
  PROVE  /\ Frame(h) /\ pc[h] \in UpdatingPC
         /\ \A g \in Handler : pc[g] \in UpdatingPC \/ pc'[g] \in UpdatingPC => g = h
<1>1. Frame(h) /\ pc[h] \in UpdatingPC
  <2> USE DEF UpdatingPC, PC
  <2>1. CASE ListWorkerNodes(h)
    BY <2>1, ListWorkerNodesEffect, Zenon
  <2>2. CASE GetMachinePool(h)
    BY <2>2, GetMachinePoolEffect, Zenon
  <2>3. CASE GetMachine(h)
    BY <2>3, GetMachineEffect, Zenon
  <2>4. CASE CheckCandidate(h)
    BY <2>4, CheckCandidateEffect, Zenon
  <2>5. CASE SelectVictims(h)
    BY <2>5, SelectVictimsEffect, Zenon
  <2>6. CASE SetDesiredSize(h)
    BY <2>6, SetDesiredSizeEffect
  <2>7. CASE MarkUnschedulable(h)
    BY <2>7, MarkUnschedulableEffect
  <2>8. CASE EvictOnePod(h)
    BY <2>8, EvictOnePodEffect
  <2>9. CASE MarkSchedulable(h)
    BY <2>9, MarkSchedulableEffect
  <2>10. CASE DeleteNode(h)
    BY <2>10, DeleteNodeEffect
  <2>11. CASE TerminateMachine(h)
    BY <2>11, TerminateMachineEffect
  <2> QED
    BY <2>1, <2>2, <2>3, <2>4, <2>5, <2>6, <2>7, <2>8, <2>9, <2>10, <2>11 DEF Operation
<1>3. updateLock = h /\ updateLock' = h
  BY <1>1 DEF TypeInv, UpdaterHoldsLock, Updating, Frame
<1>4. \A g \in Handler : pc[g] \in UpdatingPC => updateLock = g
  BY DEF TypeInv, UpdaterHoldsLock, Updating
<1>5. \A g \in Handler : pc'[g] \in UpdatingPC => updateLock' = g
  BY DEF TypeInv, UpdaterHoldsLock, Updating
<1> QED
  BY <1>1, <1>3, <1>4, <1>5

(* The pool only moves forward, whoever takes a step. *)
LEMMA PoolForward ==
  ASSUME TypeInv, [Next]_vars PROVE PoolRuns
<1>1. ASSUME NEW h \in Handler, TerminateMachine(h) PROVE PoolRuns
  <2>1. /\ pc[h] = "terminateMachine"
        /\ \/ machineState' = machineState
           \/ machineState' = [machineState EXCEPT ![externalID(victim(h))] = "TERMINATING"]
    BY <1>1, TerminateMachineEffect
  <2>2. externalID(victim(h)) \in Machine
    BY <2>1, VictimType, ExternalIDType DEF RemovingPC
  <2> QED
    BY <2>1, <2>2, PoolRests, PoolTerminates
<1>2. ASSUME NEW h \in Handler, Operation(h), ~TerminateMachine(h) PROVE machineState' = machineState
  <2> USE DEF poolVars
  <2>1. CASE ListWorkerNodes(h)
    BY <2>1, Zenon DEF ListWorkerNodes
  <2>2. CASE GetMachinePool(h)
    BY <2>2, Zenon DEF GetMachinePool
  <2>3. CASE GetMachine(h)
    BY <2>3, Zenon DEF GetMachine
  <2>4. CASE CheckCandidate(h)
    BY <2>4, Zenon DEF CheckCandidate
  <2>5. CASE SelectVictims(h)
    BY <2>5, Zenon DEF SelectVictims
  <2>6. CASE MarkUnschedulable(h)
    BY <2>6, Zenon DEF MarkUnschedulable
  <2>7. CASE EvictOnePod(h)
    BY <2>7, Zenon DEF EvictOnePod
  <2>8. CASE MarkSchedulable(h)
    BY <2>8, Zenon DEF MarkSchedulable
  <2>9. CASE DeleteNode(h)
    BY <2>9, Zenon DEF DeleteNode
  <2>10. CASE SetDesiredSize(h)
    BY <2>10, SetDesiredSizeEffect
  <2> QED
    BY <1>2, <2>1, <2>2, <2>3, <2>4, <2>5, <2>6, <2>7, <2>8, <2>9, <2>10 DEF Operation
<1>3. CASE \E h \in Handler : Receive(h) \/ Lock(h) \/ Serve(h)
  BY <1>1, <1>2, <1>3, HandlerOutside, PoolRests DEF Serve, Operation
<1>4. CASE Crash \/ UNCHANGED vars
  BY <1>4, PoolRests DEF Crash, vars, poolVars
<1> QED
  BY <1>3, <1>4, EnvironmentEffect DEF Next
=============================================================================
