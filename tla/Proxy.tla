------------------------------- MODULE Proxy -------------------------------
(***************************************************************************)
(* The proxy itself: the HTTP handlers of pkg/proxy/server.go, each in a   *)
(* goroutine of its own, the operations SetDesiredSize and                 *)
(* TerminateMachine of pkg/proxy/proxy.go that they run under updateLock,  *)
(* and the calls by which those drain a node (pkg/kube/nodescaler.go),     *)
(* delete it and terminate its machine (pkg/cloudpool/client.go).  The     *)
(* cluster and the backend run beside it: modules Kubernetes and CloudPool.*)
(*                                                                         *)
(* A step of a handler is one call to the API server or to the backend,    *)
(* with what the code computes from the answer.  A list of all nodes with  *)
(* their pods is one such call.  A call that changes something can end in  *)
(* three ways: it is done; it is refused and changes nothing; or it takes  *)
(* effect and the answer is lost, so that the proxy sees an error.         *)
(***************************************************************************)
EXTENDS Kubernetes, CloudPool

CONSTANTS
  Handler,     \* the goroutines that serve requests
  NoHandler,   \* the value of a free lock
  Request,     \* the requests that clients may send
  NoRequest,   \* what an idle handler serves
  InitState,   \* the initial cluster and pool, a set of records
  MaxFaults    \* bound on lost or failed calls and on crashes, together

VARIABLES
  updateLock,  \* the handler that holds Server.updateLock, or NoHandler
  pc,          \* pc[h]: the call that handler h makes next
  req,         \* req[h]: the request h serves
  result,      \* result[h]: how the request ended, until it is answered
  local,       \* local[h]: the local variables of the operation h runs
  faults       \* how many faults there have been

proxyVars == <<updateLock, pc, req, result, local, faults>>
vars == <<kubeVars, poolVars, proxyVars>>

PC == {"idle", "forward", "lock", "listWorkerNodes", "getMachinePool",
       "getMachine", "setDesiredSize", "checkCandidates", "markUnschedulable",
       "evictPods", "markSchedulable", "deleteNode", "terminateMachine",
       "unlock", "respond", "panicked"}

Result == {"none", "ok", "badRequest", "error", "badGateway"}

(* A request: present is false for a body that cannot be read or decoded,  *)
(* or in which desiredSize or machineId is missing.                        *)
RequestType ==
  [op : {"setDesiredSize", "terminateMachine", "forward"}, present : BOOLEAN,
   size : Int, machine : Machine, decrement : BOOLEAN]

(* A cluster and a pool that the proxy may find when it is started. *)
InitType ==
  [nodeState : [Node -> {"unregistered", "registered"}],
   host : [Pod -> Node \cup {NoNode}],
   machineState : [Machine -> MachineState],
   active : SUBSET Machine, evictable : SUBSET Machine, desiredSize : Nat]

ASSUME ProxyAssumption ==
  /\ NoHandler \notin Handler
  /\ NoRequest \notin Request
  /\ IsFiniteSet(Node)
  /\ Request \subseteq RequestType
  /\ InitState \subseteq InitType
  /\ \A n \in Node : NodeSpec[n].externalID \in Machine
  /\ MaxFaults \in Nat

(* The local variables of SetDesiredSize and TerminateMachine. *)
LocalType ==
  [nodes     : SUBSET Node,             \* result of ListWorkerNodes ...
   pods      : [Node -> SUBSET Pod],    \* ... and the pods seen on each node
   pairs     : SUBSET Node,             \* the nodes of nodeMachinePairs
   evictable : SUBSET Node,             \* those whose machine was evictable
   unchecked : SUBSET Node,             \* pairs that were not vetted yet
   victims   : SUBSET Node,             \* victimCandidates
   queue     : Seq(Node),               \* the nodesToRemove first of them, sorted
   i         : Nat,                     \* the position in queue
   evict     : SUBSET Pod]              \* pods that DrainNode has still to evict

NoLocals ==
  [nodes |-> {}, pods |-> [n \in Node |-> {}], pairs |-> {}, evictable |-> {},
   unchecked |-> {}, victims |-> {}, queue |-> <<>>, i |-> 1, evict |-> {}]

(* Every variable has its type. *)
TypeOK ==
  /\ KubeTypeOK
  /\ PoolTypeOK
  /\ updateLock \in Handler \cup {NoHandler}
  /\ pc \in [Handler -> PC]
  /\ req \in [Handler -> Request \cup {NoRequest}]
  /\ result \in [Handler -> Result]
  /\ local \in [Handler -> LocalType]
  /\ faults \in 0..MaxFaults

Init ==
  /\ \E s \in InitState :
       /\ nodeState = s.nodeState
       /\ host = s.host
       /\ machineState = s.machineState
       /\ active = s.active
       /\ evictable = s.evictable
       /\ desiredSize = s.desiredSize
  /\ tainted = {} /\ leaving = {} /\ delayed = {}
  /\ updateLock = NoHandler
  /\ pc = [h \in Handler |-> "idle"]
  /\ req = [h \in Handler |-> NoRequest]
  /\ result = [h \in Handler |-> "none"]
  /\ local = [h \in Handler |-> NoLocals]
  /\ faults = 0

-----------------------------------------------------------------------------
(* Pieces of steps.                                                        *)

externalID(n) == NodeSpec[n].externalID

Goto(h, label) == pc' = [pc EXCEPT ![h] = label] /\ UNCHANGED result

(* The operation returns to the handler, which unlocks and answers. *)
Return(h, r) ==
  /\ pc' = [pc EXCEPT ![h] = "unlock"]
  /\ result' = [result EXCEPT ![h] = r]

NoFault == UNCHANGED faults

Fault == faults < MaxFaults /\ faults' = faults + 1

(* The victim that the loop of SetDesiredSize is at; the only one of       *)
(* TerminateMachine.                                                       *)
victim(h) == local[h].queue[local[h].i]

(* The victim as the node was when ListWorkerNodes saw it. *)
Snapshot(h, n) == NodeInfoWith(n, local[h].pods[n])

-----------------------------------------------------------------------------
(* server.go: receiving a request, the lock and the answer.                *)

(* SetDesiredSizeMessage.Validate and TerminateMachineMessage.Validate. *)
Validate(r) == r.present /\ (r.op = "setDesiredSize" => r.size >= 0)

(* A request arrives, is read, decoded and validated. *)
Receive(h) ==
  /\ pc[h] = "idle"
  /\ \E r \in Request :
       /\ req' = [req EXCEPT ![h] = r]
       /\ \/ r.op = "forward" /\ Goto(h, "forward")
          \/ r.op # "forward" /\ Validate(r) /\ Goto(h, "lock")
          \/ /\ r.op # "forward" /\ ~Validate(r)
             /\ result' = [result EXCEPT ![h] = "badRequest"]
             /\ pc' = [pc EXCEPT ![h] = "respond"]
  /\ UNCHANGED <<kubeVars, poolVars, updateLock, local, faults>>

(* Mutant of Lock: does not wait for the lock to be free. *)
LockAnyway(h) ==
  /\ pc[h] = "lock"
  /\ updateLock' = h
  /\ Goto(h, "listWorkerNodes")
  /\ UNCHANGED <<kubeVars, poolVars, req, local, faults>>

Lock(h) ==
  /\ pc[h] = "lock"
  /\ updateLock = NoHandler
  /\ updateLock' = h
  /\ Goto(h, "listWorkerNodes")
  /\ UNCHANGED <<kubeVars, poolVars, req, local, faults>>

(* Mutant of Unlock: an operation that failed is tried again. *)
UnlockAndRetry(h) ==
  /\ pc[h] = "unlock"
  /\ updateLock' = NoHandler
  /\ local' = [local EXCEPT ![h] = NoLocals]
  /\ Goto(h, IF result[h] = "error" THEN "lock" ELSE "respond")
  /\ UNCHANGED <<kubeVars, poolVars, req, faults>>

Unlock(h) ==
  /\ pc[h] = "unlock"
  /\ updateLock' = NoHandler
  /\ local' = [local EXCEPT ![h] = NoLocals]
  /\ Goto(h, "respond")
  /\ UNCHANGED <<kubeVars, poolVars, req, faults>>

(* The response is written outside the lock, and the goroutine ends. *)
Respond(h) ==
  /\ pc[h] = "respond"
  /\ pc' = [pc EXCEPT ![h] = "idle"]
  /\ req' = [req EXCEPT ![h] = NoRequest]
  /\ result' = [result EXCEPT ![h] = "none"]
  /\ UNCHANGED <<kubeVars, poolVars, updateLock, local, faults>>

(* ForwardToBackend takes no lock.  The backend may change nothing (most   *)
(* requests read), or set the membership status of a machine.              *)
ForwardToBackend(h) ==
  /\ pc[h] = "forward"
  /\ \/ UNCHANGED poolVars
     \/ \E isActive, isEvictable \in BOOLEAN :
          SetMembership(req[h].machine, isActive, isEvictable)
  /\ \/ NoFault /\ result' = [result EXCEPT ![h] = "ok"]
     \/ Fault /\ result' = [result EXCEPT ![h] = "badGateway"]
  /\ pc' = [pc EXCEPT ![h] = "respond"]
  /\ UNCHANGED <<kubeVars, updateLock, req, local>>

-----------------------------------------------------------------------------
(* proxy.go: finding the victims.                                          *)

(* The nodes that the search for a machine's node may return: the first    *)
(* that matches, in the order of the list.                                 *)
getNodeWithExternalID(nodes, machineID) == {n \in nodes : externalID(n) = machineID}

pairNodesWithMachines(nodes) == {n \in nodes : externalID(n) \in ActiveMachines}

isMachineEvictable(n) == externalID(n) \in evictable

(* ListWorkerNodes, and for TerminateMachine the search for the node of    *)
(* the machine.                                                            *)
ListWorkerNodes(h) ==
  /\ pc[h] = "listWorkerNodes"
  /\ \/ /\ NoFault
        /\ LET workers == {n \in Registered : ~isMasterNode(getNodeInfo(n))}
               matching == getNodeWithExternalID(workers, req[h].machine)
           IN  /\ local' = [local EXCEPT
                     ![h].nodes = IF req[h].op = "setDesiredSize" THEN workers ELSE matching,
                     ![h].pods = [n \in Node |-> IF n \in workers THEN PodsOn(n) ELSE {}]]
               /\ IF req[h].op = "setDesiredSize" THEN Goto(h, "getMachinePool")
                  ELSE IF matching # {} THEN Goto(h, "getMachine")
                  ELSE Return(h, "error")
     \/ Fault /\ Return(h, "error") /\ UNCHANGED local
  /\ UNCHANGED <<kubeVars, poolVars, updateLock, req>>

(* GetMachinePool, the pairing of nodes with active machines and the       *)
(* comparison that tells a scale-down from a pass-through.                 *)
GetMachinePool(h) ==
  /\ pc[h] = "getMachinePool"
  /\ \/ /\ NoFault
        /\ LET pairs == pairNodesWithMachines(local[h].nodes)
           IN  /\ local' = [local EXCEPT
                     ![h].pairs = pairs,
                     ![h].unchecked = pairs,
                     ![h].evictable = {n \in pairs : isMachineEvictable(n)}]
               /\ IF req[h].size >= Cardinality(pairs)
                  THEN Goto(h, "setDesiredSize")
                  ELSE Goto(h, "checkCandidates")
     \/ Fault /\ Return(h, "error") /\ UNCHANGED local
  /\ UNCHANGED <<kubeVars, poolVars, updateLock, req>>

(* Mutant of GetMachine: the machine's name stands for the node's. *)
GetMachineByName(h) ==
  /\ pc[h] = "getMachine"
  /\ req[h].machine \in InPool
  /\ local' = [local EXCEPT ![h].pairs = {req[h].machine}, ![h].unchecked = {req[h].machine}]
  /\ Goto(h, "checkCandidates")
  /\ UNCHANGED <<kubeVars, poolVars, updateLock, req, faults>>

(* GetMachine: the node is paired with its machine whatever the machine's  *)
(* state is.                                                               *)
GetMachine(h) ==
  /\ pc[h] = "getMachine"
  /\ \/ /\ NoFault
        /\ req[h].machine \in InPool
        /\ \E n \in local[h].nodes :
             local' = [local EXCEPT
                         ![h].pairs = {n},
                         ![h].unchecked = {n},
                         ![h].evictable = {n} \cap {m \in Node : isMachineEvictable(m)}]
        /\ Goto(h, "checkCandidates")
     \/ NoFault /\ req[h].machine \notin InPool /\ Return(h, "error") /\ UNCHANGED local
     \/ Fault /\ Return(h, "error") /\ UNCHANGED local
  /\ UNCHANGED <<kubeVars, poolVars, updateLock, req>>

(* isScaleDownCandidate for one pair: isMachineEvictable, then             *)
(* IsScaleDownCandidate, which reads the cluster again.                    *)
isScaleDownCandidate(h, n) ==
  IF n \notin local[h].evictable THEN {"rejected"}
  ELSE IsScaleDownCandidate(Snapshot(h, n), getNodeInfos, PDBs)

(* partitionScaleDownCandidates: one pair.  A read that fails rejects the  *)
(* pair.  A panic unwinds the handler, and net/http recovers it: no code   *)
(* runs Unlock.                                                            *)
CheckCandidate(h) ==
  /\ pc[h] = "checkCandidates"
  /\ \E n \in local[h].unchecked :
       \/ /\ NoFault
          /\ "candidate" \in isScaleDownCandidate(h, n)
          /\ local' = [local EXCEPT ![h].unchecked = @ \ {n}, ![h].victims = @ \cup {n}]
          /\ UNCHANGED <<pc, result>>
       \/ /\ \/ NoFault /\ "rejected" \in isScaleDownCandidate(h, n)
             \/ Fault /\ n \in local[h].evictable
          /\ local' = [local EXCEPT ![h].unchecked = @ \ {n}]
          /\ UNCHANGED <<pc, result>>
       \/ /\ NoFault
          /\ "panic" \in isScaleDownCandidate(h, n)
          /\ Goto(h, "panicked")
          /\ UNCHANGED local
  /\ UNCHANGED <<kubeVars, poolVars, updateLock, req>>

(* Mutant of nodesToRemove: every candidate is a victim. *)
allCandidates(h) == Cardinality(local[h].victims)

nodesToRemove(h) ==
  LET numExcessNodes == Cardinality(local[h].pairs) - req[h].size
      numCandidates == Cardinality(local[h].victims)
  IN  IF req[h].op = "terminateMachine" THEN 1
      ELSE IF numExcessNodes > numCandidates THEN numCandidates
      ELSE numExcessNodes

(* sort.Slice is not stable: nodes of equal load come in any order. *)
sortByLoad(h) ==
  LET load(n) == NodeLoad(Snapshot(h, n))
  IN  {s \in Injection(1..Cardinality(local[h].victims), local[h].victims) :
         \A j \in 1..(Len(s) - 1) : ~LoadLess(load(s[j + 1]), load(s[j]))}

(* All pairs have been vetted: the removal of the first victim begins, if  *)
(* there is one.                                                           *)
SelectVictims(h) ==
  /\ pc[h] = "checkCandidates"
  /\ local[h].unchecked = {}
  /\ \/ /\ local[h].victims = {}
        /\ Return(h, "error")
        /\ UNCHANGED local
     \/ /\ local[h].victims # {}
        /\ \E s \in sortByLoad(h) :
             local' = [local EXCEPT ![h].queue = SubSeq(s, 1, nodesToRemove(h))]
        /\ Goto(h, "markUnschedulable")
  /\ UNCHANGED <<kubeVars, poolVars, updateLock, req, faults>>

-----------------------------------------------------------------------------
(* proxy.go: passing the request on.                                       *)

(* A call to the backend: carried out; refused, by a fault or because the  *)
(* backend does not accept it; or given up on and carried out later.       *)
BackendDone(call) == NoFault /\ CarryOut(call) /\ UNCHANGED delayed

BackendFails(call) ==
  \/ NoFault /\ ~Accepts(call) /\ UNCHANGED poolVars
  \/ Fault /\ UNCHANGED poolVars
  \/ Fault /\ Delay(call)

SetDesiredSize(h) ==
  LET call == [op |-> "setSize", size |-> req[h].size]
  IN  /\ pc[h] = "setDesiredSize"
      /\ \/ BackendDone(call) /\ Return(h, "ok")
         \/ BackendFails(call) /\ Return(h, "error")
      /\ UNCHANGED <<kubeVars, updateLock, req, local>>

-----------------------------------------------------------------------------
(* evictAndTerminate.  DrainNode is markUnschedulable, the evictions, and  *)
(* markSchedulable when one of these fails.                                *)

(* The pods that DrainNode will evict: those of the snapshot. *)
podsToDrain(h) ==
  {p \in local[h].pods[victim(h)] : isNonSystemPod(PodSpec[p]) /\ isActivePod(PodSpec[p])}

(* Mutant of MarkUnschedulable: the node with the taint is never written.  *)
MarkWithoutUpdate(h) ==
  /\ pc[h] = "markUnschedulable"
  /\ local' = [local EXCEPT ![h].evict = podsToDrain(h)]
  /\ Goto(h, IF podsToDrain(h) = {} THEN "deleteNode" ELSE "evictPods")
  /\ UNCHANGED <<kubeVars, poolVars, updateLock, req, faults>>

(* markUnschedulable: GetNode, and UpdateNode unless the node already has  *)
(* the taint.  The API server refuses an update of an object that changed  *)
(* since it was read, so the two calls are one step.                       *)
MarkUnschedulable(h) ==
  /\ pc[h] = "markUnschedulable"
  /\ \/ /\ NoFault
        /\ victim(h) \in Registered
        /\ AddTaint(victim(h))
        /\ local' = [local EXCEPT ![h].evict = podsToDrain(h)]
        /\ Goto(h, IF podsToDrain(h) = {} THEN "deleteNode" ELSE "evictPods")
     \/ /\ NoFault
        /\ victim(h) \notin Registered
        /\ Return(h, "error")
        /\ UNCHANGED <<kubeVars, local>>
     \/ /\ Fault
        /\ \/ UNCHANGED kubeVars
           \/ victim(h) \in Registered \ tainted /\ AddTaint(victim(h))
        /\ Return(h, "error")
        /\ UNCHANGED local
  /\ UNCHANGED <<poolVars, updateLock, req>>

(* Mutant of EvictOnePod: an eviction that is refused is passed over. *)
EvictOrSkip(h) ==
  /\ pc[h] = "evictPods"
  /\ \E p \in local[h].evict :
       /\ local' = [local EXCEPT ![h].evict = @ \ {p}]
       /\ \/ NoFault /\ host[p] = victim(h) /\ EvictPod(p)
          \/ Fault /\ UNCHANGED kubeVars
       /\ IF local[h].evict = {p} THEN Goto(h, "deleteNode") ELSE UNCHANGED <<pc, result>>
  /\ UNCHANGED <<poolVars, updateLock, req>>

(* One eviction.  It is granted, which says nothing of when the pod stops; *)
(* or refused: the pod is no longer there, a disruption budget forbids it, *)
(* or a call fails.                                                        *)
EvictOnePod(h) ==
  /\ pc[h] = "evictPods"
  /\ \E p \in local[h].evict :
       /\ local' = [local EXCEPT ![h].evict = @ \ {p}]
       /\ \/ /\ NoFault
             /\ host[p] = victim(h)
             /\ EvictPod(p)
             /\ IF local[h].evict = {p} THEN Goto(h, "deleteNode") ELSE UNCHANGED <<pc, result>>
          \/ /\ \/ NoFault /\ UNCHANGED kubeVars
                   /\ (host[p] # victim(h) \/ \E b \in PDBs : pdbMatches(b, PodSpec[p]))
                \/ Fault /\ UNCHANGED kubeVars
                \/ Fault /\ host[p] = victim(h) /\ EvictPod(p)
             /\ Goto(h, "markSchedulable")
  /\ UNCHANGED <<poolVars, updateLock, req>>

(* Mutant of MarkSchedulable: the failed drain is not rolled back. *)
LeaveUnschedulable(h) ==
  /\ pc[h] = "markSchedulable"
  /\ Return(h, "error")
  /\ UNCHANGED <<kubeVars, poolVars, updateLock, req, local, faults>>

(* The deferred markSchedulable after a failed eviction.  Its own failure  *)
(* is only logged.                                                         *)
MarkSchedulable(h) ==
  /\ pc[h] = "markSchedulable"
  /\ \/ /\ NoFault
        /\ IF victim(h) \in Registered THEN RemoveTaint(victim(h)) ELSE UNCHANGED kubeVars
     \/ /\ Fault
        /\ \/ UNCHANGED kubeVars
           \/ victim(h) \in Registered /\ RemoveTaint(victim(h))
  /\ Return(h, "error")
  /\ UNCHANGED <<poolVars, updateLock, req, local>>

(* Mutant of DeleteNode: its error is not looked at. *)
DeleteUnchecked(h) ==
  /\ pc[h] = "deleteNode"
  /\ \/ victim(h) \in Registered /\ NoFault /\ RemoveNode(victim(h))
     \/ victim(h) \notin Registered /\ NoFault /\ UNCHANGED kubeVars
     \/ Fault /\ UNCHANGED kubeVars
  /\ Goto(h, "terminateMachine")
  /\ UNCHANGED <<poolVars, updateLock, req, local>>

DeleteNode(h) ==
  /\ pc[h] = "deleteNode"
  /\ \/ /\ NoFault
        /\ victim(h) \in Registered
        /\ RemoveNode(victim(h))
        /\ Goto(h, "terminateMachine")
     \/ /\ \/ NoFault /\ victim(h) \notin Registered /\ UNCHANGED kubeVars
           \/ Fault /\ UNCHANGED kubeVars
           \/ Fault /\ victim(h) \in Registered /\ RemoveNode(victim(h))
        /\ Return(h, "error")
  /\ UNCHANGED <<poolVars, updateLock, req, local>>

(* Mutant of TerminateMachine: the answer of the backend is not looked at. *)
TerminateUnchecked(h) ==
  LET call == [op |-> "terminate", machine |-> externalID(victim(h)),
               decrement |-> req[h].op = "setDesiredSize" \/ req[h].decrement]
  IN  /\ pc[h] = "terminateMachine"
      /\ BackendDone(call) \/ BackendFails(call)
      /\ Return(h, "ok")
      /\ UNCHANGED <<kubeVars, updateLock, req, local>>

(* Mutant of TerminateMachine: the backend is not called. *)
TerminateForgotten(h) ==
  /\ pc[h] = "terminateMachine"
  /\ Return(h, "ok")
  /\ UNCHANGED <<kubeVars, poolVars, updateLock, req, local, faults>>

(* The machine is terminated.  Then the next victim's turn comes; the      *)
(* first failure ends the loop of SetDesiredSize.                          *)
TerminateMachine(h) ==
  LET call == [op |-> "terminate", machine |-> externalID(victim(h)),
               decrement |-> req[h].op = "setDesiredSize" \/ req[h].decrement]
  IN  /\ pc[h] = "terminateMachine"
      /\ \/ /\ BackendDone(call)
            /\ IF local[h].i < Len(local[h].queue)
               THEN /\ local' = [local EXCEPT ![h].i = @ + 1]
                    /\ Goto(h, "markUnschedulable")
               ELSE Return(h, "ok") /\ UNCHANGED local
         \/ BackendFails(call) /\ Return(h, "error") /\ UNCHANGED local
      /\ UNCHANGED <<kubeVars, updateLock, req>>

-----------------------------------------------------------------------------
(* The process dies and is started again: nothing of it is persistent.     *)
Crash ==
  /\ Fault
  /\ \E h \in Handler : pc[h] # "idle"
  /\ updateLock' = NoHandler
  /\ pc' = [h \in Handler |-> "idle"]
  /\ req' = [h \in Handler |-> NoRequest]
  /\ result' = [h \in Handler |-> "none"]
  /\ local' = [h \in Handler |-> NoLocals]
  /\ UNCHANGED <<kubeVars, poolVars>>

(* What a handler does once it has a request. *)
Serve(h) ==
  \/ ForwardToBackend(h) \/ ListWorkerNodes(h) \/ GetMachinePool(h) \/ GetMachine(h)
  \/ CheckCandidate(h) \/ SelectVictims(h) \/ SetDesiredSize(h)
  \/ MarkUnschedulable(h) \/ EvictOnePod(h) \/ MarkSchedulable(h)
  \/ DeleteNode(h) \/ TerminateMachine(h) \/ Unlock(h) \/ Respond(h)

(* What happens in the cluster and in the pool without the proxy.  A node  *)
(* joins when its machine runs and goes when the machine has terminated.   *)
Environment ==
  \/ /\ \/ \E p \in Pod : PodGone(p) \/ \E n \in Node : SchedulerBinds(p, n)
        \/ \E n \in Node :
             \/ machineState[externalID(n)] = "RUNNING" /\ NodeJoins(n)
             \/ machineState[externalID(n)] = "TERMINATED" /\ NodeVanishes(n)
     /\ UNCHANGED <<poolVars, proxyVars>>
  \/ /\ \/ \E m \in Machine : Launch(m) \/ MachineAdvances(m) \/ ScaleIn(m)
        \/ \E call \in delayed : DelayedCallArrives(call)
     /\ UNCHANGED <<kubeVars, proxyVars>>

Next ==
  \/ \E h \in Handler : Receive(h) \/ Lock(h) \/ Serve(h)
  \/ Crash
  \/ Environment

Spec == Init /\ [][Next]_vars

(* Every handler that has a request goes on with it.  Lock is strongly     *)
(* fair: sync.Mutex hands over to a waiter that has waited for long.       *)
Fairness == \A h \in Handler : WF_vars(Serve(h)) /\ SF_vars(Lock(h))

FairSpec == Spec /\ Fairness
=============================================================================
