-------------------------- MODULE NodeDrainProofs --------------------------
(***************************************************************************)
(* Proofs about module NodeDrain, for every queue of victims, every        *)
(* placement and allowance, and any number of events and faults.           *)
(***************************************************************************)
EXTENDS NodeDrain, FiniteSetTheorems, TLAPS

(* The copy that GetNode returned: an update that the API server accepts   *)
(* writes back the taints that the node has at that moment.  A node is     *)
(* marked only if it was not marked when it was read.                      *)
CopyIsHonest ==
  pc \in {"updateMarked", "updateUnmarked"} =>
    /\ fresh.version <= version[Victim]
    /\ version[Victim] = fresh.version => taints[Victim] = fresh.taints
    /\ pc = "updateMarked" => DrainTaint \notin fresh.taints

(* A machine is terminated only after its node is deleted. *)
DeletedBeforeTermination == pc = "terminateMachine" => nodeState[Victim] = "deleted"

(* The evictions are of listed pods, and a listed pod either is where it   *)
(* was listed, or is gone, or came back under its name.                    *)
ListedPodsStay ==
  /\ pc = "evictPods" => todo \subseteq snapshot[Victim]
  /\ \A n \in Node : \A p \in snapshot[n] : host[p] \in {n, NoNode} \/ p \in Stateful

DrainInv ==
  TypeOK /\ UnschedulableWhileDraining /\ CopyIsHonest /\ DeletedBeforeTermination
  /\ ListedPodsStay

(* The pods of a set are on the victim, none of them is on its way out,    *)
(* and the budget has room for all of them.                                *)
WithinBudget(pods) ==
  /\ Cardinality(pods \cap Covered) <= allowed
  /\ \A p \in pods : host[p] = Victim /\ p \notin leaving

(* A drain that meets what the vetting saw. *)
DrainAsVetted ==
  /\ pc \in {"getToMark", "updateMarked", "evictPods", "deleteNode"} =>
       nodeState[Victim] = "present"
  /\ pc \notin {"getToUnmark", "updateUnmarked", "failed"}
  /\ pc = "updateMarked" => version[Victim] = fresh.version
  /\ pc \in {"getToMark", "updateMarked"} => WithinBudget(snapshot[Victim])
  /\ pc = "evictPods" => WithinBudget(todo)

(* The drain of the first victim while nobody else acts. *)
FirstVictimInv == events = 0 /\ faults = 0 /\ i = 1 => DrainAsVetted

-----------------------------------------------------------------------------
(* The initial states.                                                     *)

(* The queue is not empty and holds nodes, so the proxy always has a victim. *)
LEMMA VictimIsNode == TypeOK => Victim \in Node /\ i \in Nat /\ Len(Victims) \in Nat
BY DrainAssumption DEF TypeOK, Victim

(* Before the first call of DrainNode nothing is marked, read or evicted. *)
LEMMA InitDrainInv == Init => DrainInv
<1> SUFFICES ASSUME Init PROVE DrainInv
  OBVIOUS
<1>1. TypeOK
  BY DrainAssumption DEF Init, TypeOK, PC, PodsOn
<1>2. UnschedulableWhileDraining /\ CopyIsHonest /\ DeletedBeforeTermination
  BY DEF Init, UnschedulableWhileDraining, CopyIsHonest, DeletedBeforeTermination
<1>3. ListedPodsStay
  BY DEF Init, ListedPodsStay, PodsOn
<1> QED
  BY <1>1, <1>2, <1>3 DEF DrainInv

-----------------------------------------------------------------------------
(* The steps of the proxy.                                                 *)

(* markUnschedulable reads the node: the copy is current. *)
LEMMA StepGetToMark == DrainInv /\ GetToMark => DrainInv'
<1> SUFFICES ASSUME DrainInv, GetToMark PROVE DrainInv'
  OBVIOUS
<1> USE DEF DrainInv
<1>v. Victim \in Node
  BY VictimIsNode
<1>u. UNCHANGED clusterVars /\ UNCHANGED <<i, snapshot, events>> /\ Victim' = Victim
  BY DEF GetToMark, GetNode, GetNodeFails, EnterEvictions, Goto, Victim
<1>c. \/ /\ pc' \in {"deleteNode", "evictPods"} /\ todo' = snapshot[Victim]
         /\ DrainTaint \in taints[Victim] /\ faults' = faults
         /\ fresh' = [version |-> version[Victim], taints |-> taints[Victim]]
      \/ /\ pc' = "updateMarked" /\ todo' = todo
         /\ DrainTaint \notin taints[Victim] /\ faults' = faults
         /\ fresh' = [version |-> version[Victim], taints |-> taints[Victim]]
      \/ /\ pc' = "failed" /\ todo' = todo /\ fresh' = fresh
         /\ faults' \in 0..MaxFaults
  BY DrainAssumption
  DEF GetToMark, GetNode, GetNodeFails, EnterEvictions, Goto, NoFault, Fault, TypeOK
<1>1. TypeOK'
  BY <1>v, <1>u, <1>c DEF TypeOK, PC, clusterVars
<1>2. UnschedulableWhileDraining' /\ DeletedBeforeTermination'
  BY <1>u, <1>c DEF UnschedulableWhileDraining, DeletedBeforeTermination, clusterVars
<1>3. CopyIsHonest'
  BY <1>v, <1>u, <1>c DEF CopyIsHonest, clusterVars, TypeOK
<1>4. ListedPodsStay'
  BY <1>u, <1>c DEF ListedPodsStay, clusterVars
<1> QED
  BY <1>1, <1>2, <1>3, <1>4

(* The API server accepts an update only of the version that was read; the *)
(* other taints are then those of the copy, whatever others wrote before.  *)
LEMMA UpdateKeepsForeign ==
  ASSUME DrainInv, pc \in {"updateMarked", "updateUnmarked"},
         NEW new \in SUBSET (ForeignTaint \cup {DrainTaint}),
         new \ {DrainTaint} = fresh.taints \ {DrainTaint},
         UpdateNode(Victim, fresh, new)
  PROVE  /\ taints[Victim] = fresh.taints
         /\ taints' \in [Node -> SUBSET (ForeignTaint \cup {DrainTaint})]
         /\ version' \in [Node -> Nat]
         /\ \A n \in Node : taints'[n] \ {DrainTaint} = taints[n] \ {DrainTaint}
BY VictimIsNode DEF DrainInv, TypeOK, UpdateNode, UpdateAccepted, CopyIsHonest

(* markUnschedulable writes the node back with the drain taint. *)
LEMMA StepUpdateMarked == DrainInv /\ UpdateMarked => DrainInv'
<1> SUFFICES ASSUME DrainInv, UpdateMarked PROVE DrainInv'
  OBVIOUS
<1> USE DEF DrainInv
<1> DEFINE marked == fresh.taints \cup {DrainTaint}
<1>v. Victim \in Node
  BY VictimIsNode
<1>u. UNCHANGED <<i, snapshot, fresh, events, nodeState, host, leaving, allowed>> /\ Victim' = Victim
  BY DEF UpdateMarked, UpdateNode, EnterEvictions, MarkRefused, Goto, Victim, clusterVars
<1>c. \/ /\ pc' \in {"deleteNode", "evictPods"} /\ todo' = snapshot[Victim]
         /\ faults' = faults /\ UpdateNode(Victim, fresh, marked)
      \/ /\ pc' = "failed" /\ todo' = todo /\ faults' \in 0..MaxFaults
         /\ UpdateNode(Victim, fresh, marked) \/ UNCHANGED clusterVars
  BY DrainAssumption
  DEF UpdateMarked, EnterEvictions, MarkRefused, Goto, NoFault, Fault, TypeOK
<1>t. UpdateNode(Victim, fresh, marked)
        => /\ taints' \in [Node -> SUBSET (ForeignTaint \cup {DrainTaint})]
           /\ version' \in [Node -> Nat]
           /\ taints'[Victim] = marked
  BY <1>v DEF TypeOK, UpdateNode
<1> HIDE DEF marked
<1>1. TypeOK'
  BY <1>v, <1>u, <1>c, <1>t DEF TypeOK, PC, clusterVars
<1>2. UnschedulableWhileDraining' /\ DeletedBeforeTermination' /\ CopyIsHonest'
  BY <1>u, <1>c, <1>t
  DEF UnschedulableWhileDraining, DeletedBeforeTermination, CopyIsHonest, marked
<1>4. ListedPodsStay'
  BY <1>u, <1>c DEF ListedPodsStay
<1> QED
  BY <1>1, <1>2, <1>4

(* One pod of the listing is evicted, or its refusal ends the loop. *)
LEMMA StepEvictPod == ASSUME DrainInv, NEW p \in todo, EvictPod(p) PROVE DrainInv'
<1> USE DEF DrainInv
<1>v. Victim \in Node /\ p \in Pod
  BY VictimIsNode DEF TypeOK
<1>u. /\ UNCHANGED <<i, snapshot, fresh, events, nodeState, version, taints, host>>
      /\ Victim' = Victim /\ pc = "evictPods" /\ todo' = todo \ {p}
      /\ pc' \in {"deleteNode", "evictPods", "getToUnmark"}
  BY DEF EvictPod, GrantEviction, EvictionRefused, Goto, Victim, clusterVars
<1>f. faults' \in 0..MaxFaults
  BY DrainAssumption DEF EvictPod, NoFault, Fault, TypeOK
<1>g. \/ UNCHANGED <<leaving, allowed>>
      \/ leaving' = leaving \cup {p} /\ allowed' \in Nat /\ host[p] # NoNode
  BY DEF EvictPod, GrantEviction, EvictionAllowed, clusterVars, TypeOK
<1>1. TypeOK'
  BY <1>v, <1>u, <1>f, <1>g, SMTT(20) DEF TypeOK, PC
<1>2. UnschedulableWhileDraining' /\ DeletedBeforeTermination' /\ CopyIsHonest'
  BY <1>u DEF UnschedulableWhileDraining, DeletedBeforeTermination, CopyIsHonest
<1>3. ListedPodsStay'
  BY <1>u DEF ListedPodsStay
<1> QED
  BY <1>1, <1>2, <1>3

(* markSchedulable reads the node: the copy is current. *)
LEMMA StepGetToUnmark == DrainInv /\ GetToUnmark => DrainInv'
<1> SUFFICES ASSUME DrainInv, GetToUnmark PROVE DrainInv'
  OBVIOUS
<1> USE DEF DrainInv
<1>v. Victim \in Node
  BY VictimIsNode
<1>u. UNCHANGED clusterVars /\ UNCHANGED <<i, snapshot, todo, events>> /\ Victim' = Victim
  BY DEF GetToUnmark, GetNode, GetNodeFails, Goto, Victim
<1>c. \/ /\ pc' = "updateUnmarked" /\ faults' = faults
         /\ fresh' = [version |-> version[Victim], taints |-> taints[Victim]]
      \/ pc' = "failed" /\ fresh' = fresh /\ faults' \in 0..MaxFaults
  BY DrainAssumption DEF GetToUnmark, GetNode, GetNodeFails, Goto, NoFault, Fault, TypeOK
<1>1. TypeOK'
  BY <1>v, <1>u, <1>c DEF TypeOK, PC, clusterVars
<1>2. UnschedulableWhileDraining' /\ DeletedBeforeTermination'
  BY <1>u, <1>c DEF UnschedulableWhileDraining, DeletedBeforeTermination, clusterVars
<1>3. CopyIsHonest'
  BY <1>v, <1>u, <1>c DEF CopyIsHonest, clusterVars, TypeOK
<1>4. ListedPodsStay'
  BY <1>u, <1>c DEF ListedPodsStay, clusterVars
<1> QED
  BY <1>1, <1>2, <1>3, <1>4

(* markSchedulable writes the node back without the drain taint. *)
LEMMA StepUpdateUnmarked == DrainInv /\ UpdateUnmarked => DrainInv'
<1> SUFFICES ASSUME DrainInv, UpdateUnmarked PROVE DrainInv'
  OBVIOUS
<1> USE DEF DrainInv
<1>v. Victim \in Node
  BY VictimIsNode
<1>u. /\ UNCHANGED <<i, snapshot, fresh, todo, events, nodeState, host, leaving, allowed>>
      /\ Victim' = Victim /\ pc' = "failed"
  BY DEF UpdateUnmarked, UpdateNode, Goto, Victim, clusterVars
<1>f. faults' \in 0..MaxFaults
  BY DrainAssumption DEF UpdateUnmarked, NoFault, Fault, TypeOK
<1>c. /\ taints' \in [Node -> SUBSET (ForeignTaint \cup {DrainTaint})]
      /\ version' \in [Node -> Nat]
  <2>1. taintsToKeep \in SUBSET (ForeignTaint \cup {DrainTaint})
    BY DEF taintsToKeep, TypeOK
  <2>2. UpdateNode(Victim, fresh, taintsToKeep) \/ UNCHANGED clusterVars
    BY DEF UpdateUnmarked
  <2>3. CASE UpdateNode(Victim, fresh, taintsToKeep)
    BY <1>v, <2>1, <2>3 DEF UpdateNode, TypeOK
  <2>4. CASE UNCHANGED clusterVars
    BY <2>4 DEF clusterVars, TypeOK
  <2> QED
    BY <2>2, <2>3, <2>4
<1>1. TypeOK'
  BY <1>v, <1>u, <1>f, <1>c DEF TypeOK, PC
<1>2. UnschedulableWhileDraining' /\ DeletedBeforeTermination' /\ CopyIsHonest'
  BY <1>u DEF UnschedulableWhileDraining, DeletedBeforeTermination, CopyIsHonest
<1>3. ListedPodsStay'
  BY <1>u DEF ListedPodsStay
<1> QED
  BY <1>1, <1>2, <1>3

(* evictAndTerminate deletes the node. *)
LEMMA StepDeleteNode == DrainInv /\ DeleteNode => DrainInv'
<1> SUFFICES ASSUME DrainInv, DeleteNode PROVE DrainInv'
  OBVIOUS
<1> USE DEF DrainInv
<1>v. Victim \in Node
  BY VictimIsNode
<1>u. /\ UNCHANGED <<i, snapshot, fresh, todo, events, version, taints, host, leaving, allowed>>
      /\ Victim' = Victim
  BY DEF DeleteNode, SetNodeState, Goto, Victim, clusterVars
<1>f. faults' \in 0..MaxFaults
  BY DrainAssumption DEF DeleteNode, NoFault, Fault, TypeOK
<1>c. \/ pc' = "terminateMachine" /\ nodeState' = [nodeState EXCEPT ![Victim] = "deleted"]
      \/ /\ pc' = "failed"
         /\ nodeState' = nodeState \/ nodeState' = [nodeState EXCEPT ![Victim] = "deleted"]
  BY DEF DeleteNode, SetNodeState, Goto, clusterVars
<1>1. TypeOK'
  BY <1>v, <1>u, <1>f, <1>c DEF TypeOK, PC
<1>2. UnschedulableWhileDraining' /\ DeletedBeforeTermination' /\ CopyIsHonest'
  BY <1>v, <1>u, <1>c
  DEF UnschedulableWhileDraining, DeletedBeforeTermination, CopyIsHonest, TypeOK
<1>3. ListedPodsStay'
  BY <1>u, <1>c DEF ListedPodsStay
<1> QED
  BY <1>1, <1>2, <1>3

(* evictAndTerminate terminates the machine, and the loop goes on. *)
LEMMA StepTerminateMachine == DrainInv /\ TerminateMachine => DrainInv'
<1> SUFFICES ASSUME DrainInv, TerminateMachine PROVE DrainInv'
  OBVIOUS
<1> USE DEF DrainInv
<1>v. Victim \in Node /\ i \in Nat /\ Len(Victims) \in Nat
  BY VictimIsNode
<1>u. UNCHANGED <<snapshot, fresh, todo, events, version, taints, host, leaving, allowed>>
  BY DEF TerminateMachine, SetNodeState, NextVictim, Goto, clusterVars
<1>f. faults' \in 0..MaxFaults
  BY DrainAssumption DEF TerminateMachine, NoFault, Fault, TypeOK
<1>c. /\ pc' \in {"getToMark", "drained", "failed"}
      /\ i' \in 1..Len(Victims)
      /\ nodeState' \in [Node -> {"present", "deleted", "released", "lost"}]
  BY <1>v, SMTT(20) DEF TerminateMachine, SetNodeState, NextVictim, Goto, clusterVars, TypeOK
<1>1. TypeOK'
  BY <1>v, <1>u, <1>f, <1>c DEF TypeOK, PC
<1>2. UnschedulableWhileDraining' /\ DeletedBeforeTermination' /\ CopyIsHonest'
  BY <1>c DEF UnschedulableWhileDraining, DeletedBeforeTermination, CopyIsHonest
<1>3. ListedPodsStay'
  BY <1>u, <1>c DEF ListedPodsStay
<1> QED
  BY <1>1, <1>2, <1>3

-----------------------------------------------------------------------------
(* What others do, and all steps.                                          *)

(* Others write to nodes, lose them, delete and bind pods and recompute    *)
(* the budget; none of them touches the drain taint, and a write to the    *)
(* node that was read makes the copy outdated.                             *)
LEMMA StepEnvironment == DrainInv /\ Environment => DrainInv'
<1> SUFFICES ASSUME DrainInv, Environment PROVE DrainInv'
  OBVIOUS
<1> USE DEF DrainInv
<1>v. Victim \in Node /\ DrainTaint \notin ForeignTaint /\ NoNode \notin Node
  BY VictimIsNode, DrainAssumption
<1>u. UNCHANGED <<pc, i, snapshot, fresh, todo, faults>> /\ Victim' = Victim
  BY DEF Environment, proxyVars, Victim
<1>e. events' \in 0..MaxEvents
  BY DrainAssumption DEF Environment, TypeOK
<1>1. ASSUME NEW n \in Node, NodeWritten(n) PROVE DrainInv'
  <2>1. /\ UNCHANGED <<nodeState, host, leaving, allowed>>
        /\ version' = [version EXCEPT ![n] = @ + 1]
    BY <1>1 DEF NodeWritten
  <2>2. /\ taints' \in [Node -> SUBSET (ForeignTaint \cup {DrainTaint})]
        /\ \A m \in Node : m # n => taints'[m] = taints[m]
        /\ DrainTaint \in taints[n] <=> DrainTaint \in taints'[n]
    <3>1. CASE UNCHANGED taints
      BY <3>1 DEF TypeOK
    <3>2. ASSUME NEW t \in ForeignTaint, NEW new \in {taints[n] \cup {t}, taints[n] \ {t}},
                 taints' = [taints EXCEPT ![n] = new]
          PROVE  <2>2!1 /\ <2>2!2 /\ <2>2!3
      <4>1. new \in SUBSET (ForeignTaint \cup {DrainTaint})
        BY <3>2 DEF TypeOK
      <4>2. DrainTaint \in taints[n] <=> DrainTaint \in new
        BY <3>2, <1>v
      <4> QED
        BY <3>2, <4>1, <4>2 DEF TypeOK
    <3> QED
      BY <1>1, <3>1, <3>2 DEF NodeWritten
  <2>7. version' \in [Node -> Nat]
    BY <2>1 DEF TypeOK
  <2>3. TypeOK'
    BY <1>u, <1>e, <2>1, <2>2, <2>7 DEF TypeOK
  <2>4. UnschedulableWhileDraining' /\ DeletedBeforeTermination'
    BY <1>v, <1>u, <2>1, <2>2 DEF UnschedulableWhileDraining, DeletedBeforeTermination
  <2>5. CopyIsHonest'
    BY <1>v, <1>u, <2>1, <2>2 DEF CopyIsHonest, TypeOK
  <2>6. ListedPodsStay'
    BY <1>u, <2>1 DEF ListedPodsStay
  <2> QED
    BY <2>3, <2>4, <2>5, <2>6
<1>2. ASSUME NEW n \in Node, NodeLost(n) PROVE DrainInv'
  <2>1. /\ UNCHANGED <<version, taints, host, leaving, allowed>>
        /\ nodeState[n] = "present" /\ nodeState' = [nodeState EXCEPT ![n] = "lost"]
    BY <1>2 DEF NodeLost, SetNodeState
  <2>2. TypeOK'
    BY <1>u, <1>e, <2>1 DEF TypeOK
  <2>3. UnschedulableWhileDraining' /\ DeletedBeforeTermination' /\ CopyIsHonest' /\ ListedPodsStay'
    BY <1>v, <1>u, <2>1
    DEF UnschedulableWhileDraining, DeletedBeforeTermination, CopyIsHonest, ListedPodsStay, TypeOK
  <2> QED
    BY <2>2, <2>3
<1>3. ASSUME NEW p \in Pod, PodDeleted(p) \/ PodStops(p) PROVE DrainInv'
  <2>1. /\ UNCHANGED <<nodeState, version, taints, allowed>>
        /\ host' = [host EXCEPT ![p] = NoNode] /\ leaving' = leaving \ {p}
    BY <1>3 DEF PodDeleted, PodStops
  <2>2. TypeOK'
    BY <1>u, <1>e, <2>1 DEF TypeOK
  <2>3. UnschedulableWhileDraining' /\ DeletedBeforeTermination' /\ CopyIsHonest'
    BY <1>u, <2>1 DEF UnschedulableWhileDraining, DeletedBeforeTermination, CopyIsHonest
  <2>4. ListedPodsStay'
    BY <1>u, <2>1 DEF ListedPodsStay, TypeOK
  <2> QED
    BY <2>2, <2>3, <2>4
<1>4. ASSUME BudgetChanges PROVE DrainInv'
  <2>1. UNCHANGED <<nodeState, version, taints, host, leaving>> /\ allowed' \in Nat
    BY <1>4, DrainAssumption, FS_CardinalityType DEF BudgetChanges
  <2> QED
    BY <1>u, <1>e, <2>1
    DEF TypeOK, UnschedulableWhileDraining, DeletedBeforeTermination, CopyIsHonest, ListedPodsStay
<1>5. ASSUME NEW p \in Pod, NEW n \in Node, PodReturns(p, n) PROVE DrainInv'
  <2>1. /\ UNCHANGED <<nodeState, version, taints, leaving, allowed>>
        /\ p \in Stateful /\ host[p] = NoNode /\ host' = [host EXCEPT ![p] = n]
    BY <1>5 DEF PodReturns
  <2>2. TypeOK'
    BY <1>v, <1>u, <1>e, <2>1 DEF TypeOK
  <2>3. UnschedulableWhileDraining' /\ DeletedBeforeTermination' /\ CopyIsHonest'
    BY <1>u, <2>1 DEF UnschedulableWhileDraining, DeletedBeforeTermination, CopyIsHonest
  <2>4. ListedPodsStay'
    BY <1>u, <2>1 DEF ListedPodsStay, TypeOK
  <2> QED
    BY <2>2, <2>3, <2>4
<1> QED
  BY <1>1, <1>2, <1>3, <1>4, <1>5 DEF Environment

(* A client asks again: the nodes are listed anew. *)
LEMMA StepRetry == DrainInv /\ Retry => DrainInv'
<1> SUFFICES ASSUME DrainInv, Retry PROVE DrainInv'
  OBVIOUS
<1>1. /\ UNCHANGED <<nodeState, version, taints, host, leaving, allowed, i, fresh, todo, faults>>
      /\ pc' = "getToMark" /\ snapshot' = [n \in Node |-> PodsOn(n)]
      /\ events' \in 0..MaxEvents
  BY DrainAssumption DEF Retry, clusterVars, DrainInv, TypeOK
<1>2. TypeOK'
  BY <1>1 DEF DrainInv, TypeOK, PC, PodsOn
<1>3. ListedPodsStay'
  BY <1>1 DEF ListedPodsStay, PodsOn
<1> QED
  BY <1>1, <1>2, <1>3
  DEF DrainInv, UnschedulableWhileDraining, DeletedBeforeTermination, CopyIsHonest

(* Every step keeps the invariant. *)
LEMMA NextDrainInv == DrainInv /\ [Next]_vars => DrainInv'
<1> SUFFICES ASSUME DrainInv, [Next]_vars PROVE DrainInv'
  OBVIOUS
<1>1. CASE Proxy
  BY <1>1, StepGetToMark, StepUpdateMarked, StepEvictPod, StepGetToUnmark,
     StepUpdateUnmarked, StepDeleteNode, StepTerminateMachine DEF Proxy
<1>2. CASE UNCHANGED vars
  BY <1>2
  DEF vars, clusterVars, proxyVars, DrainInv, TypeOK, UnschedulableWhileDraining, CopyIsHonest,
      DeletedBeforeTermination, ListedPodsStay, Victim
<1> QED
  BY <1>1, <1>2, StepEnvironment, StepRetry DEF Next

(* DrainNode and evictAndTerminate, step by step, keep the invariant. *)
LEMMA DrainInvariant == Spec => []DrainInv
BY InitDrainInv, NextDrainInv, PTL DEF Spec

(* DrainNode keeps the types of its state, whatever others do. *)
THEOREM DrainTypeCorrect == Spec => []TypeOK
BY DrainInvariant, PTL DEF DrainInv

(* While DrainNode evicts, and until the node is deleted, the node is      *)
(* marked as unschedulable: nobody else removes the proxy's taint, and no  *)
(* way leads to the evictions past markUnschedulable.                      *)
THEOREM DrainingIsUnschedulable == Spec => []UnschedulableWhileDraining
BY DrainInvariant, PTL DEF DrainInv

-----------------------------------------------------------------------------
(* Action properties.                                                      *)

(* Only the two updates write taints on the proxy's side, and the API      *)
(* server refuses them if anyone wrote to the node since it was read.      *)
LEMMA ProxyKeepsForeign ==
  ASSUME DrainInv, [Next]_vars, pc' # pc
  PROVE  \A n \in Node : taints'[n] \ {DrainTaint} = taints[n] \ {DrainTaint}
<1>1. CASE UpdateMarked
  <2>1. UNCHANGED taints \/ UpdateNode(Victim, fresh, fresh.taints \cup {DrainTaint})
    BY <1>1 DEF UpdateMarked, clusterVars
  <2>2. fresh.taints \cup {DrainTaint} \in SUBSET (ForeignTaint \cup {DrainTaint})
    BY DEF DrainInv, TypeOK
  <2> QED
    BY <1>1, <2>1, <2>2, UpdateKeepsForeign DEF UpdateMarked
<1>2. CASE UpdateUnmarked
  <2>1. UNCHANGED taints \/ UpdateNode(Victim, fresh, taintsToKeep)
    BY <1>2 DEF UpdateUnmarked, clusterVars
  <2>2. /\ taintsToKeep \in SUBSET (ForeignTaint \cup {DrainTaint})
        /\ taintsToKeep \ {DrainTaint} = fresh.taints \ {DrainTaint}
    BY DEF DrainInv, TypeOK, taintsToKeep
  <2> QED
    BY <1>2, <2>1, <2>2, UpdateKeepsForeign DEF UpdateUnmarked
<1>3. CASE GetToMark \/ GetToUnmark \/ Retry \/ DeleteNode \/ TerminateMachine
  BY <1>3 DEF GetToMark, GetToUnmark, Retry, DeleteNode, TerminateMachine, SetNodeState, clusterVars
<1>4. ASSUME NEW p \in todo, EvictPod(p) PROVE UNCHANGED taints
  BY <1>4 DEF EvictPod, GrantEviction, clusterVars
<1>5. ~Environment /\ ~UNCHANGED vars
  BY DEF Environment, proxyVars, vars
<1> QED
  BY <1>1, <1>2, <1>3, <1>4, <1>5 DEF Next, Proxy

(* markUnschedulable and markSchedulable never add or drop a taint of      *)
(* someone else, although each writes the whole node back from a copy.     *)
THEOREM ForeignTaintsAreKept == Spec => ForeignTaintsSurvive
<1>1. DrainInv /\ [Next]_vars
        => [pc' # pc => \A n \in Node : taints'[n] \ {DrainTaint} = taints[n] \ {DrainTaint}]_vars
  BY ProxyKeepsForeign
<1> QED
  BY <1>1, DrainInvariant, PTL DEF Spec, ForeignTaintsSurvive

(* The ways out of DrainNode and evictAndTerminate that fail. *)
LEMMA FailureHasACause ==
  ASSUME DrainInv, [Next]_vars, pc # "failed", pc' = "failed", nodeState[Victim] = "present"
  PROVE  DrainTaint \notin taints'[Victim] \/ faults' > 0 \/ version[Victim] # fresh.version
<1> USE DEF DrainInv
<1>v. Victim \in Node /\ faults \in Nat
  BY VictimIsNode DEF TypeOK
<1>1. CASE GetToMark \/ GetToUnmark
  BY <1>1, <1>v DEF GetToMark, GetToUnmark, GetNodeFails, EnterEvictions, Goto, NoFault, Fault
<1>2. CASE UpdateMarked
  BY <1>2, <1>v
  DEF UpdateMarked, UpdateAccepted, EnterEvictions, Goto, NoFault, Fault
<1>3. CASE UpdateUnmarked
  <2>1. \/ UpdateNode(Victim, fresh, taintsToKeep)
        \/ version[Victim] # fresh.version
        \/ Fault
    BY <1>3 DEF UpdateUnmarked, UpdateAccepted
  <2>2. UpdateNode(Victim, fresh, taintsToKeep) => DrainTaint \notin taints'[Victim]
    BY <1>v DEF UpdateNode, taintsToKeep, TypeOK
  <2>3. Fault => faults' > 0
    BY <1>v DEF Fault
  <2> QED
    BY <2>1, <2>2, <2>3
<1>4. CASE DeleteNode \/ TerminateMachine
  BY <1>4, <1>v
  DEF DeleteNode, TerminateMachine, DeletedBeforeTermination, NextVictim, Goto, Fault
<1>5. ASSUME NEW p \in todo PROVE ~EvictPod(p)
  BY DEF EvictPod, EvictionRefused, Goto
<1>6. ~Environment /\ ~Retry /\ ~UNCHANGED vars
  BY DEF Environment, Retry, proxyVars, vars
<1> QED
  BY <1>1, <1>2, <1>3, <1>4, <1>5, <1>6 DEF Next, Proxy

(* A failed drain leaves the taint on a node that is still there only if a *)
(* call failed without a reason or someone wrote to the node in between.   *)
THEOREM LeftoverTaintsAreExplained == Spec => LeftoverTaintHasACause
<1>1. DrainInv /\ [Next]_vars
        => [pc # "failed" /\ pc' = "failed" /\ nodeState[Victim] = "present"
              => \/ DrainTaint \notin taints'[Victim]
                 \/ faults' > 0 \/ version[Victim] # fresh.version]_vars
  BY FailureHasACause
<1> QED
  BY <1>1, DrainInvariant, PTL DEF Spec, LeftoverTaintHasACause

(* Every eviction that the API server grants is of a pod that was listed   *)
(* on the victim: it is there, or it came back under its name elsewhere.   *)
THEOREM EvictionsAreOfListedPods == Spec => EvictionsFollowTheListing
<1>1. ASSUME DrainInv, [Next]_vars, NEW p \in leaving' \ leaving
      PROVE  p \in snapshot[Victim] /\ (host[p] = Victim \/ p \in Stateful)
  <2> USE DEF DrainInv
  <2>v. Victim \in Node
    BY <1>1, VictimIsNode
  <2>1. ~GetToMark /\ ~GetToUnmark /\ ~UpdateMarked /\ ~UpdateUnmarked
    BY <1>1 DEF GetToMark, GetToUnmark, UpdateMarked, UpdateUnmarked, UpdateNode, clusterVars
  <2>2. ~DeleteNode /\ ~TerminateMachine /\ ~Retry /\ ~UNCHANGED vars
    BY <1>1 DEF DeleteNode, TerminateMachine, Retry, SetNodeState, vars, clusterVars
  <2>3. ~Environment
    BY <1>1 DEF Environment, NodeWritten, NodeLost, SetNodeState, PodDeleted, BudgetChanges,
                PodStops, PodReturns
  <2>4. PICK q \in todo : EvictPod(q)
    BY <1>1, <2>1, <2>2, <2>3 DEF Next, Proxy
  <2>5. p = q /\ host[q] # NoNode /\ pc = "evictPods"
    BY <1>1, <2>4 DEF EvictPod, GrantEviction, EvictionAllowed, clusterVars
  <2> QED
    BY <1>1, <2>v, <2>4, <2>5 DEF ListedPodsStay
<1>2. DrainInv /\ [Next]_vars
        => [\A p \in leaving' \ leaving :
              p \in snapshot[Victim] /\ (host[p] = Victim \/ p \in Stateful)]_vars
  BY <1>1
<1> QED
  BY <1>2, DrainInvariant, PTL DEF Spec, EvictionsFollowTheListing

-----------------------------------------------------------------------------
(* The budget of the first victim.                                         *)

(* Evicting a pod uses up its share of the budget and no more. *)
LEMMA EvictionUsesItsShare ==
  ASSUME NEW pods, NEW p \in pods, NEW a \in Nat, Cardinality(pods \cap Covered) <= a
  PROVE  /\ p \in Covered => a > 0 /\ Cardinality((pods \ {p}) \cap Covered) <= a - 1
         /\ p \notin Covered => Cardinality((pods \ {p}) \cap Covered) <= a
<1>1. IsFiniteSet(pods \cap Covered) /\ Cardinality(pods \cap Covered) \in Nat
  BY DrainAssumption, FS_Intersection, FS_CardinalityType, Zenon
<1>2. CASE p \in Covered
  <2>1. (pods \ {p}) \cap Covered = (pods \cap Covered) \ {p}
    OBVIOUS
  <2>2. IsFiniteSet((pods \cap Covered) \ {p}) /\
        Cardinality((pods \cap Covered) \ {p}) = Cardinality(pods \cap Covered) - 1
    BY <1>1, <1>2, FS_RemoveElement, Zenon
  <2>3. Cardinality((pods \cap Covered) \ {p}) \in Nat
    BY <2>2, FS_CardinalityType
  <2> QED
    BY <1>1, <1>2, <2>1, <2>2, <2>3
<1>3. CASE p \notin Covered
  <2>1. (pods \ {p}) \cap Covered = pods \cap Covered
    BY <1>3
  <2> QED
    BY <1>3, <2>1, Zenon
<1> QED
  BY <1>2, <1>3

(* The first victim was vetted: the budget covers the pods it was listed   *)
(* with.                                                                   *)
LEMMA InitFirstVictimInv == Init => FirstVictimInv
<1> SUFFICES ASSUME Init PROVE FirstVictimInv
  OBVIOUS
<1>1. TypeOK
  BY InitDrainInv DEF DrainInv
<1>2. Victim \in Node /\ 1 \in DOMAIN Victims /\ Victim = Victims[1]
  BY <1>1, VictimIsNode, DrainAssumption DEF Init, Victim
<1>3. WithinBudget(snapshot[Victim])
  BY <1>2 DEF Init, WithinBudget, PodsOn, podDisruptionBudgetsAllowEvacuation
<1> QED
  BY <1>2, <1>3 DEF Init, FirstVictimInv, DrainAsVetted

(* While nobody else acts, each step of the first drain finds what the     *)
(* vetting saw: the node is there, its version is the one that was read,   *)
(* and the budget has room for the pods that are still to be evicted.      *)
LEMMA NextFirstVictimInv == DrainInv /\ FirstVictimInv /\ [Next]_vars => FirstVictimInv'
<1> SUFFICES ASSUME DrainInv, FirstVictimInv, [Next]_vars,
                    events' = 0, faults' = 0, i' = 1
             PROVE  DrainAsVetted'
  BY DEF FirstVictimInv
<1> USE DEF DrainInv
<1>v. Victim \in Node /\ i \in Nat /\ events \in Nat /\ faults \in Nat /\ NoNode \notin Node
  BY VictimIsNode, DrainAssumption DEF TypeOK
<1>1. CASE Environment
  <2>1. /\ events' = events /\ UNCHANGED proxyVars /\ UNCHANGED faults
        /\ \E p \in Pod : PodStops(p) \/ \E n \in Node : PodReturns(p, n)
    BY <1>1, <1>v DEF Environment
  <2>2. events = 0 /\ faults = 0 /\ i = 1 /\ Victim' = Victim
        /\ UNCHANGED <<nodeState, version, allowed>>
    BY <2>1 DEF proxyVars, PodStops, PodReturns, Victim
  <2>3. PICK q \in Pod : PodStops(q) \/ \E n \in Node : PodReturns(q, n)
    BY <2>1
  <2>4. /\ q \in leaving \/ host[q] = NoNode
        /\ leaving' \subseteq leaving
        /\ \A p \in Pod : p # q => host'[p] = host[p]
    BY <2>3 DEF PodStops, PodReturns, TypeOK
  <2>5. ASSUME NEW pods \in SUBSET Pod, WithinBudget(pods)
        PROVE  /\ Cardinality(pods \cap Covered) <= allowed'
               /\ \A p \in pods : host'[p] = Victim' /\ p \notin leaving'
    BY <1>v, <2>2, <2>4, <2>5 DEF WithinBudget
  <2>6. snapshot[Victim] \in SUBSET Pod /\ todo \in SUBSET Pod
    BY <1>v DEF TypeOK
  <2>7. UNCHANGED <<pc, i, fresh, todo, snapshot>>
    BY <2>1 DEF proxyVars
  <2>8. DrainAsVetted
    BY <2>2 DEF FirstVictimInv
  <2>9. /\ pc' \in {"getToMark", "updateMarked"} => WithinBudget(snapshot[Victim])'
        /\ pc' = "evictPods" => WithinBudget(todo)'
    BY <2>2, <2>5, <2>6, <2>7, <2>8 DEF DrainAsVetted, WithinBudget
  <2> QED
    BY <2>2, <2>7, <2>8, <2>9 DEF DrainAsVetted
<1>2. CASE Retry
  BY <1>2, <1>v DEF Retry
<1>3. CASE TerminateMachine
  <2>1. pc' \in {"drained", "failed"} /\ (pc' = "failed" => Fault)
    BY <1>3, <1>v DEF TerminateMachine, NextVictim, Goto, TypeOK
  <2> QED
    BY <2>1, <1>v DEF Fault, DrainAsVetted
<1>4. CASE Proxy /\ ~TerminateMachine
  <2>1. i = 1 /\ events = 0 /\ Victim' = Victim /\ snapshot' = snapshot
    BY <1>4, Zenon
    DEF Proxy, GetToMark, UpdateMarked, EvictPod, GetToUnmark, UpdateUnmarked, DeleteNode,
        GetNodeFails, EnterEvictions, MarkRefused, EvictionRefused, Goto, Victim
  <2>2. faults = 0 /\ ~Fault
    <3>1. NoFault \/ Fault
      BY <1>4, Zenon DEF Proxy, GetToMark, UpdateMarked, EvictPod, GetToUnmark, UpdateUnmarked,
                         DeleteNode, GetNode, GetNodeFails
    <3> QED
      BY <1>v, <3>1 DEF NoFault, Fault
  <2>3. DrainAsVetted
    BY <2>1, <2>2 DEF FirstVictimInv
  <2>4. CASE GetToMark
    <3>1. /\ pc = "getToMark" /\ GetNode /\ UNCHANGED clusterVars
          /\ \/ pc' \in {"deleteNode", "evictPods"} /\ todo' = snapshot[Victim]
             \/ pc' = "updateMarked"
      BY <2>2, <2>3, <2>4 DEF DrainAsVetted, GetToMark, GetNodeFails, EnterEvictions, Goto
    <3> QED
      BY <2>1, <2>3, <3>1, Zenon DEF DrainAsVetted, WithinBudget, GetNode, clusterVars
  <2>5. CASE UpdateMarked
    <3>1. /\ UNCHANGED <<nodeState, host, leaving, allowed>>
          /\ pc' \in {"deleteNode", "evictPods"} /\ todo' = snapshot[Victim]
          /\ pc = "updateMarked"
      BY <2>2, <2>3, <2>5
      DEF DrainAsVetted, UpdateMarked, UpdateAccepted, UpdateNode, EnterEvictions, Goto
    <3> QED
      BY <2>1, <2>3, <3>1 DEF DrainAsVetted, WithinBudget
  <2>6. ASSUME NEW p \in todo, EvictPod(p) PROVE DrainAsVetted'
    <3>1. pc = "evictPods" /\ WithinBudget(todo) /\ allowed \in Nat
      BY <2>3, <2>6 DEF DrainAsVetted, EvictPod, TypeOK
    <3>2. host[p] # NoNode /\ (p \in Covered => allowed > 0)
      BY <1>v, <3>1, EvictionUsesItsShare, Zenon DEF WithinBudget
    <3>3. GrantEviction(p) /\ todo' = todo \ {p} /\ pc' \in {"deleteNode", "evictPods"}
      BY <2>2, <2>6, <3>2 DEF EvictPod, EvictionAllowed, Goto
    <3>4. Cardinality(todo' \cap Covered) <= allowed'
      BY <3>1, <3>3, EvictionUsesItsShare DEF WithinBudget, GrantEviction
    <3>5. WithinBudget(todo)'
      BY <2>1, <3>1, <3>3, <3>4 DEF WithinBudget, GrantEviction
    <3> QED
      BY <2>1, <2>3, <3>1, <3>3, <3>5 DEF DrainAsVetted, GrantEviction
  <2>7. CASE GetToUnmark \/ UpdateUnmarked
    BY <2>3, <2>7 DEF DrainAsVetted, GetToUnmark, UpdateUnmarked
  <2>8. CASE DeleteNode
    <3>1. pc' = "terminateMachine"
      BY <2>2, <2>3, <2>8 DEF DrainAsVetted, DeleteNode, Goto
    <3> QED
      BY <3>1 DEF DrainAsVetted
  <2> QED
    BY <1>4, <2>4, <2>5, <2>6, <2>7, <2>8 DEF Proxy
<1>5. CASE UNCHANGED vars
  BY <1>5 DEF vars, clusterVars, proxyVars, FirstVictimInv, DrainAsVetted, WithinBudget, Victim
<1> QED
  BY <1>1, <1>2, <1>3, <1>4, <1>5 DEF Next

(* The vetting of the first victim holds good through its whole drain: as  *)
(* long as nobody else acts and no call fails, no eviction is refused.     *)
THEOREM FirstVictimIsNotRefused == Spec => []FirstVictimIsWithinBudget
<1>1. DrainInv /\ FirstVictimInv => FirstVictimIsWithinBudget
  BY DEF DrainInv, TypeOK, FirstVictimInv, DrainAsVetted, FirstVictimIsWithinBudget
<1>2. Spec => []FirstVictimInv
  BY InitFirstVictimInv, NextFirstVictimInv, DrainInvariant, PTL DEF Spec
<1> QED
  BY <1>1, <1>2, DrainInvariant, PTL

-----------------------------------------------------------------------------
(* The drain implements GracefulRemoval.                                   *)

(* A step that writes to one node moves that node and no other. *)
LEMMA OneNodeMoves ==
  ASSUME NEW n \in Node, NEW s,
         \A m \in Node \ {n} : nodeState'[m] = nodeState[m]
                               /\ (DrainTaint \in taints'[m] <=> DrainTaint \in taints[m]),
         s = IF nodeState'[n] # "present" THEN nodeState'[n]
             ELSE IF DrainTaint \in taints'[n] THEN "cordoned" ELSE "serving"
  PROVE  removalStage' = [removalStage EXCEPT ![n] = s]
BY Zenon DEF removalStage

(* Where the proxy is, and how far the victim is. *)
LEMMA VictimStage ==
  ASSUME DrainInv
  PROVE  /\ Victim \in Node /\ Victim # NoNode
         /\ removalStage[Victim] = IF nodeState[Victim] # "present" THEN nodeState[Victim]
                                   ELSE IF DrainTaint \in taints[Victim] THEN "cordoned"
                                   ELSE "serving"
BY VictimIsNode, DrainAssumption DEF removalStage, DrainInv

(* Nothing is being taken down at first. *)
LEMMA InitRemoval == Init => Removal!Init
BY DEF Init, Removal!Init, removalStage, removalCurrent, removalAsking

(* What others do loses a node, or moves none. *)
LEMMA EnvironmentRemoval ==
  ASSUME DrainInv, Environment
  PROVE  Removal!Next \/ UNCHANGED <<removalStage, removalCurrent, removalAsking>>
<1>1. UNCHANGED <<removalCurrent, removalAsking>>
  BY DEF Environment, proxyVars, removalCurrent, removalAsking, Victim
<1>2. ASSUME NEW n \in Node, NodeWritten(n) PROVE UNCHANGED removalStage
  <2>1. DrainTaint \notin ForeignTaint /\ taints \in [Node -> SUBSET (ForeignTaint \cup {DrainTaint})]
    BY DrainAssumption DEF DrainInv, TypeOK
  <2>2. \A m \in Node : DrainTaint \in taints'[m] <=> DrainTaint \in taints[m]
    BY <1>2, <2>1 DEF NodeWritten
  <2> QED
    BY <1>2, <2>2 DEF NodeWritten, removalStage
<1>3. ASSUME NEW n \in Node, NodeLost(n) PROVE Removal!Lose(n)
  <2>1. /\ nodeState[n] = "present" /\ nodeState' = [nodeState EXCEPT ![n] = "lost"]
        /\ UNCHANGED taints /\ nodeState \in [Node -> {"present", "deleted", "released", "lost"}]
    BY <1>3 DEF NodeLost, SetNodeState, DrainInv, TypeOK
  <2>2. removalStage[n] \in {"serving", "cordoned"}
    BY <2>1 DEF removalStage
  <2>3. removalStage' = [removalStage EXCEPT ![n] = "lost"]
    BY <2>1, OneNodeMoves
  <2> QED
    BY <1>1, <2>2, <2>3 DEF Removal!Lose, Removal!Move
<1>4. ASSUME NEW p \in Pod, PodDeleted(p) \/ PodStops(p) \/ \E n \in Node : PodReturns(p, n)
      PROVE  UNCHANGED removalStage
  BY <1>4 DEF PodDeleted, PodStops, PodReturns, removalStage
<1>5. ASSUME BudgetChanges PROVE UNCHANGED removalStage
  BY <1>5 DEF BudgetChanges, removalStage
<1> QED
  BY <1>1, <1>2, <1>3, <1>4, <1>5 DEF Environment, Removal!Next

(* Each call of the proxy begins or abandons a removal, moves the victim   *)
(* one stage on or back, or changes nothing that GracefulRemoval sees.     *)
LEMMA ProxyRemoval ==
  ASSUME DrainInv, Proxy
  PROVE  Removal!Next \/ UNCHANGED <<removalStage, removalCurrent, removalAsking>>
<1> USE VictimStage
<1> DEFINE stays == UNCHANGED <<nodeState, taints>>
           away(label) == label \in {"getToMark", "drained", "failed"}
<1>s. stays => UNCHANGED removalStage
  BY DEF removalStage
<1>a. ASSUME stays, ~away(pc), away(pc') PROVE Removal!Next
  BY <1>a, <1>s DEF Removal!Next, Removal!Abandon, removalCurrent, removalAsking
<1>b. ASSUME stays, away(pc), away(pc') PROVE UNCHANGED <<removalStage, removalCurrent, removalAsking>>
  BY <1>b, <1>s DEF removalCurrent, removalAsking
<1>c. ASSUME stays, ~away(pc), ~away(pc'), i' = i, "terminateMachine" \notin {pc, pc'}
      PROVE  UNCHANGED <<removalStage, removalCurrent, removalAsking>>
  BY <1>c, <1>s DEF removalCurrent, removalAsking, Victim
<1>1. CASE GetToMark
  <2>1. stays /\ pc = "getToMark" /\ i' = i /\ pc' \in {"deleteNode", "evictPods", "updateMarked", "failed"}
    BY <1>1 DEF GetToMark, GetNodeFails, EnterEvictions, Goto, clusterVars
  <2>2. CASE pc' # "failed"
    <3>1. removalCurrent = NoNode /\ removalCurrent' = Victim /\ UNCHANGED <<removalStage, removalAsking>>
      BY <2>1, <2>2, <1>s DEF removalCurrent, removalAsking, Victim
    <3> QED
      BY <3>1 DEF Removal!Next, Removal!Begin
  <2> QED
    BY <1>b, <2>1, <2>2
<1>2. CASE UpdateMarked
  <2>1. /\ pc = "updateMarked" /\ i' = i
        /\ pc' \in {"deleteNode", "evictPods", "failed"}
        /\ \/ UpdateNode(Victim, fresh, fresh.taints \cup {DrainTaint})
           \/ stays /\ pc' = "failed"
    BY <1>2 DEF UpdateMarked, MarkRefused, EnterEvictions, Goto, clusterVars
  <2>2. CASE UpdateNode(Victim, fresh, fresh.taints \cup {DrainTaint})
    <3>1. /\ nodeState[Victim] = "present" /\ UNCHANGED nodeState
          /\ DrainTaint \notin taints[Victim]
          /\ taints \in [Node -> SUBSET (ForeignTaint \cup {DrainTaint})]
      BY <2>1, <2>2 DEF UpdateNode, UpdateAccepted, DrainInv, TypeOK, CopyIsHonest
    <3>2. removalStage[Victim] = "serving"
      BY <3>1
    <3>3. DrainTaint \in taints'[Victim] /\ \A m \in Node \ {Victim} : taints'[m] = taints[m]
      BY <2>2, <3>1 DEF UpdateNode
    <3>4. removalStage' = [removalStage EXCEPT ![Victim] = "cordoned"]
      BY <3>1, <3>3, OneNodeMoves
    <3>5. removalCurrent = Victim /\ removalCurrent' \in {Victim, NoNode} /\ UNCHANGED removalAsking
      BY <2>1 DEF removalCurrent, removalAsking, Victim
    <3> QED
      BY <3>2, <3>4, <3>5, Zenon DEF Removal!Next, Removal!Cordon, Removal!Move
  <2> QED
    BY <1>a, <2>1, <2>2
<1>3. ASSUME NEW p \in todo, EvictPod(p) PROVE UNCHANGED <<removalStage, removalCurrent, removalAsking>>
  <2>1. stays /\ pc = "evictPods" /\ i' = i /\ pc' \in {"deleteNode", "evictPods", "getToUnmark"}
    BY <1>3 DEF EvictPod, EvictionRefused, GrantEviction, Goto, clusterVars
  <2> QED
    BY <1>c, <2>1
<1>4. CASE GetToUnmark
  <2>1. stays /\ pc = "getToUnmark" /\ i' = i /\ pc' \in {"updateUnmarked", "failed"}
    BY <1>4 DEF GetToUnmark, GetNodeFails, Goto, clusterVars
  <2> QED
    BY <1>a, <1>c, <2>1
<1>5. CASE UpdateUnmarked
  <2>1. /\ pc = "updateUnmarked" /\ i' = i /\ pc' = "failed"
        /\ UpdateNode(Victim, fresh, taintsToKeep) \/ stays
    BY <1>5 DEF UpdateUnmarked, Goto, clusterVars
  <2>2. CASE UpdateNode(Victim, fresh, taintsToKeep)
    <3>1. /\ nodeState[Victim] = "present" /\ UNCHANGED nodeState
          /\ taints \in [Node -> SUBSET (ForeignTaint \cup {DrainTaint})]
      BY <2>2 DEF UpdateNode, UpdateAccepted, DrainInv, TypeOK
    <3>2. DrainTaint \notin taints'[Victim] /\ \A m \in Node \ {Victim} : taints'[m] = taints[m]
      BY <2>2, <3>1, Zenon DEF UpdateNode, taintsToKeep
    <3>3. removalStage' = [removalStage EXCEPT ![Victim] = "serving"]
      BY <3>1, <3>2, OneNodeMoves
    <3>4. removalCurrent = Victim /\ removalCurrent' = NoNode /\ removalAsking = NoNode /\ removalAsking' = NoNode
      BY <2>1 DEF removalCurrent, removalAsking
    <3>5. CASE DrainTaint \in taints[Victim]
      BY <3>1, <3>3, <3>4, <3>5, Zenon DEF Removal!Next, Removal!Uncordon, Removal!Move
    <3>6. CASE DrainTaint \notin taints[Victim]
      <4>1. removalStage' = removalStage
        BY <3>1, <3>2, <3>6 DEF removalStage
      <4> QED
        BY <3>4, <4>1 DEF Removal!Next, Removal!Abandon
    <3> QED
      BY <3>5, <3>6
  <2> QED
    BY <1>a, <2>1, <2>2
<1>6. CASE DeleteNode
  <2>1. /\ pc = "deleteNode" /\ i' = i /\ pc' \in {"terminateMachine", "failed"}
        /\ \/ nodeState[Victim] = "present" /\ SetNodeState(Victim, "deleted")
           \/ stays /\ pc' = "failed"
    BY <1>6 DEF DeleteNode, Goto, clusterVars
  <2>2. CASE nodeState[Victim] = "present" /\ SetNodeState(Victim, "deleted")
    <3>1. removalStage[Victim] = "cordoned"
      BY <2>1, <2>2 DEF DrainInv, UnschedulableWhileDraining
    <3>2. /\ nodeState' = [nodeState EXCEPT ![Victim] = "deleted"] /\ UNCHANGED taints
          /\ nodeState \in [Node -> {"present", "deleted", "released", "lost"}]
      BY <2>2 DEF SetNodeState, DrainInv, TypeOK
    <3>3. removalStage' = [removalStage EXCEPT ![Victim] = "deleted"]
      BY <3>2, OneNodeMoves
    <3>4. /\ removalCurrent = Victim /\ removalCurrent' \in {Victim, NoNode}
          /\ removalAsking' = removalCurrent'
      BY <2>1 DEF removalCurrent, removalAsking, Victim
    <3> QED
      BY <3>1, <3>3, <3>4, Zenon DEF Removal!Next, Removal!Delete, Removal!Move
  <2> QED
    BY <1>a, <2>1, <2>2
<1>7. CASE TerminateMachine
  <2>1. /\ pc = "terminateMachine" /\ pc' \in {"getToMark", "drained", "failed"}
        /\ SetNodeState(Victim, "released") \/ stays
    BY <1>7 DEF TerminateMachine, NextVictim, Goto, clusterVars
  <2>2. CASE SetNodeState(Victim, "released")
    <3>1. removalStage[Victim] = "deleted"
      BY <2>1, <2>2 DEF DrainInv, DeletedBeforeTermination
    <3>2. /\ nodeState' = [nodeState EXCEPT ![Victim] = "released"] /\ UNCHANGED taints
          /\ nodeState \in [Node -> {"present", "deleted", "released", "lost"}]
      BY <2>2 DEF SetNodeState, DrainInv, TypeOK
    <3>3. removalStage' = [removalStage EXCEPT ![Victim] = "released"]
      BY <3>2, OneNodeMoves
    <3>4. /\ removalCurrent = Victim /\ removalCurrent' = NoNode
          /\ removalAsking = Victim /\ removalAsking' = NoNode
      BY <2>1 DEF removalCurrent, removalAsking
    <3> QED
      BY <3>1, <3>3, <3>4, Zenon DEF Removal!Next, Removal!Release, Removal!Move
  <2> QED
    BY <1>a, <2>1, <2>2
<1> QED
  BY <1>1, <1>2, <1>3, <1>4, <1>5, <1>6, <1>7 DEF Proxy

(* Call by call, with others writing in between, the proxy takes nodes     *)
(* down as GracefulRemoval says: one at a time, unschedulable before it is *)
(* deleted, deleted before its machine is asked for.                       *)
THEOREM DrainImplementsGracefulRemoval == Spec => DrainIsGraceful
<1>1. DrainInv /\ [Next]_vars => [Removal!Next]_<<removalStage, removalCurrent, removalAsking>>
  <2> SUFFICES ASSUME DrainInv, [Next]_vars
               PROVE  Removal!Next \/ UNCHANGED <<removalStage, removalCurrent, removalAsking>>
    OBVIOUS
  <2>1. CASE Retry
    BY <2>1 DEF Retry, clusterVars, removalStage, removalCurrent, removalAsking
  <2>2. CASE UNCHANGED vars
    BY <2>2 DEF vars, clusterVars, proxyVars, removalStage, removalCurrent, removalAsking, Victim
  <2> QED
    BY <2>1, <2>2, ProxyRemoval, EnvironmentRemoval DEF Next
<1> QED
  BY <1>1, InitRemoval, DrainInvariant, PTL DEF Spec, DrainIsGraceful, Removal!Spec
=============================================================================
