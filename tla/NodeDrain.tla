----------------------------- MODULE NodeDrain -----------------------------
(***************************************************************************)
(* DrainNode (pkg/kube/nodescaler.go) and the rest of evictAndTerminate    *)
(* (pkg/proxy/proxy.go), one call to the API server at a time, for a queue *)
(* of victims that were vetted together.  Where module Proxy takes reading *)
(* a node and writing it back as one step, here other clients of the API   *)
(* server write to the node in between, and the API server tells by the    *)
(* resource version whether an update is based on the latest read.         *)
(***************************************************************************)
EXTENDS Integers, Sequences, FiniteSets

CONSTANTS
  Node,         \* node names
  Pod,          \* names of active pods outside of kube-system
  NoNode,       \* where a pod is that is not bound
  DrainTaint,   \* the taint node-about-to-be-drained
  ForeignTaint, \* taints that others put on nodes
  Victims,      \* the queue: a sequence of nodes
  Stateful,     \* the pods that come back under their own name
  Covered,      \* the pods that a disruption budget covers
  InitialHosts, \* the placements [Pod -> Node] to start from
  InitialAllowance, \* the PodDisruptionsAllowed of the budget to start from
  MaxEvents,    \* bound on what others do
  MaxFaults     \* bound on calls that fail without a reason

(* No pod is bound to NoNode, the drain taint is the proxy's own, a budget *)
(* covers finitely many pods, and evictAndTerminate is given victims that  *)
(* are nodes, at least one.                                                *)
ASSUME DrainAssumption ==
  /\ NoNode \notin Node
  /\ DrainTaint \notin ForeignTaint
  /\ Victims \in Seq(Node) /\ Victims # << >>
  /\ IsFiniteSet(Covered)
  /\ InitialHosts \subseteq [Pod -> Node \cup {NoNode}]
  /\ InitialAllowance \subseteq Nat
  /\ MaxEvents \in Nat /\ MaxFaults \in Nat

VARIABLES
  nodeState,    \* nodeState[n]: "present", "deleted" (by DeleteNode),
                \* "released" (its machine is terminated) or "lost"
  version,      \* version[n]: the resource version of the node
  taints,       \* taints[n]: the taints of the node
  host,         \* host[p]: the node that pod p is bound to
  leaving,      \* the pods whose eviction was granted and that still run
  allowed,      \* the PodDisruptionsAllowed of the budget
  pc,           \* the call that the proxy makes next
  i,            \* the place of the victim in the queue
  snapshot,     \* the pods that each node had when it was listed
  fresh,        \* the copy of the node that GetNode returned
  todo,         \* the pods still to be evicted
  events, faults

clusterVars == <<nodeState, version, taints, host, leaving, allowed>>
proxyVars == <<pc, i, snapshot, fresh, todo>>
vars == <<clusterVars, proxyVars, events, faults>>

PC == {"getToMark", "updateMarked", "evictPods", "getToUnmark", "updateUnmarked",
       "deleteNode", "terminateMachine", "drained", "failed"}

TypeOK ==
  /\ nodeState \in [Node -> {"present", "deleted", "released", "lost"}]
  /\ version \in [Node -> Nat]
  /\ taints \in [Node -> SUBSET (ForeignTaint \cup {DrainTaint})]
  /\ host \in [Pod -> Node \cup {NoNode}]
  /\ leaving \subseteq {p \in Pod : host[p] # NoNode}
  /\ allowed \in Nat
  /\ pc \in PC
  /\ i \in 1..Len(Victims)
  /\ snapshot \in [Node -> SUBSET Pod]
  /\ fresh \in [version : Nat, taints : SUBSET (ForeignTaint \cup {DrainTaint})]
  /\ todo \subseteq Pod
  /\ events \in 0..MaxEvents
  /\ faults \in 0..MaxFaults

Victim == Victims[i]

PodsOn(n) == {p \in Pod : host[p] = n}

(* Mutant of podDisruptionBudgetsAllowEvacuation: off by one. *)
podDisruptionBudgetsAllowMost(n) == Cardinality(PodsOn(n) \cap Covered) <= allowed + 1

podDisruptionBudgetsAllowEvacuation(n) == Cardinality(PodsOn(n) \cap Covered) <= allowed

(* The victims were found to be scale-down candidates, each on its own. *)
Init ==
  /\ nodeState = [n \in Node |-> "present"]
  /\ version = [n \in Node |-> 0]
  /\ taints = [n \in Node |-> {}]
  /\ host \in InitialHosts
  /\ leaving = {}
  /\ allowed \in InitialAllowance
  /\ \A v \in DOMAIN Victims : podDisruptionBudgetsAllowEvacuation(Victims[v])
  /\ pc = "getToMark"
  /\ i = 1
  /\ snapshot = [n \in Node |-> PodsOn(n)]
  /\ fresh = [version |-> 0, taints |-> {}]
  /\ todo = {}
  /\ events = 0
  /\ faults = 0

NoFault == UNCHANGED faults
Fault == faults < MaxFaults /\ faults' = faults + 1

-----------------------------------------------------------------------------
(* The API server: what a call does to the cluster.                        *)

(* UpdateNode replaces the whole object, if it has not changed since the   *)
(* version that the update is based on.                                    *)
UpdateAccepted(n, copy) == nodeState[n] = "present" /\ version[n] = copy.version

UpdateNode(n, copy, newTaints) ==
  /\ UpdateAccepted(n, copy)
  /\ version' = [version EXCEPT ![n] = @ + 1]
  /\ taints' = [taints EXCEPT ![n] = newTaints]
  /\ UNCHANGED <<nodeState, host, leaving, allowed>>

(* An eviction names a pod; the API server has it leave wherever it is,    *)
(* unless it is unknown or a budget that covers it is used up.             *)
EvictionAllowed(p) == host[p] # NoNode /\ (p \in Covered => allowed > 0)

GrantEviction(p) ==
  /\ EvictionAllowed(p)
  /\ leaving' = leaving \cup {p}
  /\ allowed' = IF p \in Covered THEN allowed - 1 ELSE allowed
  /\ UNCHANGED <<nodeState, version, taints, host>>

SetNodeState(n, state) ==
  /\ nodeState' = [nodeState EXCEPT ![n] = state]
  /\ UNCHANGED <<version, taints, host, leaving, allowed>>

-----------------------------------------------------------------------------
(* DrainNode.                                                              *)

Goto(next) == pc' = next /\ UNCHANGED <<i, snapshot>>

(* Mutant of EnterEvictions: the first victim's pods, for every victim. *)
EnterFirstEvictions ==
  /\ todo' = snapshot[Victims[1]]
  /\ Goto(IF snapshot[Victims[1]] = {} THEN "deleteNode" ELSE "evictPods")

(* The loop over the pods of the snapshot of the node that the caller      *)
(* holds.                                                                  *)
EnterEvictions ==
  /\ todo' = snapshot[Victim]
  /\ Goto(IF snapshot[Victim] = {} THEN "deleteNode" ELSE "evictPods")

GetNode ==
  /\ NoFault
  /\ nodeState[Victim] = "present"
  /\ fresh' = [version |-> version[Victim], taints |-> taints[Victim]]

GetNodeFails ==
  /\ (nodeState[Victim] # "present" /\ NoFault) \/ Fault
  /\ Goto("failed")
  /\ UNCHANGED <<fresh, todo>>

(* markUnschedulable, its GetNode: nothing more is to be done if the node  *)
(* already has the taint.                                                  *)
GetToMark ==
  /\ pc = "getToMark"
  /\ \/ GetNode /\ DrainTaint \in taints[Victim] /\ EnterEvictions
     \/ GetNode /\ DrainTaint \notin taints[Victim] /\ Goto("updateMarked") /\ UNCHANGED todo
     \/ GetNodeFails
  /\ UNCHANGED <<clusterVars, events>>

(* Mutant of MarkRefused: the error of the update is not looked at. *)
MarkRefusedUnnoticed == EnterEvictions

MarkRefused == Goto("failed") /\ UNCHANGED todo

(* markUnschedulable, its UpdateNode.  The update is refused when someone  *)
(* else has written to the node or deleted it; a fault refuses it as well, *)
(* or loses the answer.                                                    *)
UpdateMarked ==
  LET marked == fresh.taints \cup {DrainTaint}
  IN  /\ pc = "updateMarked"
      /\ \/ NoFault /\ UpdateNode(Victim, fresh, marked) /\ EnterEvictions
         \/ NoFault /\ ~UpdateAccepted(Victim, fresh) /\ UNCHANGED clusterVars /\ MarkRefused
         \/ Fault /\ (UNCHANGED clusterVars \/ UpdateNode(Victim, fresh, marked)) /\ MarkRefused
      /\ UNCHANGED <<fresh, events>>

(* Mutant of EvictionRefused: the eviction is tried again. *)
EvictionRetried(p) == UNCHANGED <<pc, i, snapshot, todo>>

(* The first failure ends the loop; the deferred function makes the node   *)
(* schedulable.                                                            *)
EvictionRefused(p) == Goto("getToUnmark") /\ todo' = todo \ {p}

EvictPod(p) ==
  /\ pc = "evictPods"
  /\ \/ /\ NoFault
        /\ GrantEviction(p)
        /\ todo' = todo \ {p}
        /\ Goto(IF todo = {p} THEN "deleteNode" ELSE "evictPods")
     \/ NoFault /\ ~EvictionAllowed(p) /\ UNCHANGED clusterVars /\ EvictionRefused(p)
     \/ Fault /\ (UNCHANGED clusterVars \/ GrantEviction(p)) /\ EvictionRefused(p)
  /\ UNCHANGED <<fresh, events>>

(* markSchedulable, its GetNode. *)
GetToUnmark ==
  /\ pc = "getToUnmark"
  /\ (GetNode /\ Goto("updateUnmarked") /\ UNCHANGED todo) \/ GetNodeFails
  /\ UNCHANGED <<clusterVars, events>>

(* Mutants of taintsToKeep: none is kept, and all are kept. *)
noTaints == {}
allTaints == fresh.taints

taintsToKeep == fresh.taints \ {DrainTaint}

(* markSchedulable, its UpdateNode.  An error is logged and nothing else. *)
UpdateUnmarked ==
  /\ pc = "updateUnmarked"
  /\ \/ NoFault /\ UpdateNode(Victim, fresh, taintsToKeep)
     \/ NoFault /\ ~UpdateAccepted(Victim, fresh) /\ UNCHANGED clusterVars
     \/ Fault /\ (UNCHANGED clusterVars \/ UpdateNode(Victim, fresh, taintsToKeep))
  /\ Goto("failed")
  /\ UNCHANGED <<fresh, todo, events>>

-----------------------------------------------------------------------------
(* The rest of evictAndTerminate, and the loop over the victims.           *)

(* Mutant of DeleteNode: its error is not looked at. *)
DeleteUnchecked ==
  /\ pc = "deleteNode"
  /\ \/ NoFault /\ nodeState[Victim] = "present" /\ SetNodeState(Victim, "deleted")
     \/ NoFault /\ nodeState[Victim] # "present" /\ UNCHANGED clusterVars
     \/ Fault /\ UNCHANGED clusterVars
  /\ Goto("terminateMachine")
  /\ UNCHANGED <<fresh, todo, events>>

DeleteNode ==
  LET present == nodeState[Victim] = "present"
  IN  /\ pc = "deleteNode"
      /\ \/ NoFault /\ present /\ SetNodeState(Victim, "deleted") /\ Goto("terminateMachine")
         \/ NoFault /\ ~present /\ UNCHANGED clusterVars /\ Goto("failed")
         \/ Fault /\ UNCHANGED clusterVars /\ Goto("failed")
         \/ Fault /\ present /\ SetNodeState(Victim, "deleted") /\ Goto("failed")
      /\ UNCHANGED <<fresh, todo, events>>

(* Mutant of NextVictim: the end of the queue is not noticed. *)
NextVictimAlways == pc' = "getToMark" /\ i' = i + 1 /\ UNCHANGED snapshot

NextVictim ==
  \/ i < Len(Victims) /\ pc' = "getToMark" /\ i' = i + 1 /\ UNCHANGED snapshot
  \/ i = Len(Victims) /\ Goto("drained")

TerminateMachine ==
  /\ pc = "terminateMachine"
  /\ \/ NoFault /\ SetNodeState(Victim, "released") /\ NextVictim
     \/ Fault /\ (UNCHANGED clusterVars \/ SetNodeState(Victim, "released")) /\ Goto("failed")
  /\ UNCHANGED <<fresh, todo, events>>

Proxy ==
  \/ GetToMark \/ UpdateMarked \/ (\E p \in todo : EvictPod(p))
  \/ GetToUnmark \/ UpdateUnmarked \/ DeleteNode \/ TerminateMachine

-----------------------------------------------------------------------------
(* What others do (external).                                              *)

(* The kubelet reports its status, or an operator or a controller changes  *)
(* a taint that is theirs.                                                 *)
NodeWritten(n) ==
  /\ nodeState[n] = "present"
  /\ version' = [version EXCEPT ![n] = @ + 1]
  /\ \/ UNCHANGED taints
     \/ \E t \in ForeignTaint :
          \E new \in {taints[n] \cup {t}, taints[n] \ {t}} : taints' = [taints EXCEPT ![n] = new]
  /\ UNCHANGED <<nodeState, host, leaving, allowed>>

(* The machine of a node dies and the cluster drops the node. *)
NodeLost(n) == nodeState[n] = "present" /\ SetNodeState(n, "lost")

(* Someone else deletes a pod of a node in use. *)
PodDeleted(p) ==
  /\ host[p] # NoNode
  /\ host' = [host EXCEPT ![p] = NoNode]
  /\ leaving' = leaving \ {p}
  /\ UNCHANGED <<nodeState, version, taints, allowed>>

(* The disruption controller recomputes the budget. *)
BudgetChanges ==
  /\ \E a \in 0..Cardinality(Covered) : a # allowed /\ allowed' = a
  /\ UNCHANGED <<nodeState, version, taints, host, leaving>>

PodStops(p) ==
  /\ p \in leaving
  /\ host' = [host EXCEPT ![p] = NoNode]
  /\ leaving' = leaving \ {p}
  /\ UNCHANGED <<nodeState, version, taints, allowed>>

(* A pod of a stateful set is made anew and bound. *)
PodReturns(p, n) ==
  /\ p \in Stateful
  /\ host[p] = NoNode
  /\ nodeState[n] = "present" /\ taints[n] = {}
  /\ host' = [host EXCEPT ![p] = n]
  /\ UNCHANGED <<nodeState, version, taints, leaving, allowed>>

Environment ==
  /\ \/ /\ events < MaxEvents /\ events' = events + 1
        /\ \/ \E n \in Node : NodeWritten(n) \/ NodeLost(n)
           \/ \E p \in Pod : PodDeleted(p)
           \/ BudgetChanges
     \/ /\ \E p \in Pod : PodStops(p) \/ \E n \in Node : PodReturns(p, n)
        /\ UNCHANGED events
  /\ UNCHANGED <<proxyVars, faults>>

(* A client asks again after a failure, and the victim is vetted anew. *)
Retry ==
  /\ pc = "failed"
  /\ nodeState[Victim] = "present" /\ podDisruptionBudgetsAllowEvacuation(Victim)
  /\ events < MaxEvents /\ events' = events + 1
  /\ pc' = "getToMark"
  /\ snapshot' = [n \in Node |-> PodsOn(n)]
  /\ UNCHANGED <<clusterVars, i, fresh, todo, faults>>

Next == Proxy \/ Environment \/ Retry

(* The proxy goes on: every call has an end.  Nothing is assumed of others. *)
Spec == Init /\ [][Next]_vars /\ WF_vars(Proxy)

-----------------------------------------------------------------------------
(* Properties.                                                             *)

(* The proxy's updates never add or drop a taint that someone else is      *)
(* responsible for, although markUnschedulable and markSchedulable write   *)
(* the whole node from a copy and others write to it in between.           *)
ForeignTaintsSurvive ==
  [][pc' # pc => \A n \in Node : taints'[n] \ {DrainTaint} = taints[n] \ {DrainTaint}]_vars

(* DrainNode: "During this operation, and after (on success), the node is  *)
(* marked as unschedulable".                                               *)
UnschedulableWhileDraining ==
  pc \in {"evictPods", "deleteNode"} => DrainTaint \in taints[Victim]

(* A drain that fails leaves its node unschedulable only if a call failed  *)
(* without a reason, or someone wrote to the node between the read and the *)
(* update of markSchedulable: no other way out of DrainNode forgets the    *)
(* taint.                                                                  *)
LeftoverTaintHasACause ==
  [][pc # "failed" /\ pc' = "failed" /\ nodeState[Victim] = "present"
       => \/ DrainTaint \notin taints'[Victim]
          \/ faults' > 0 \/ version[Victim] # fresh.version]_vars

(* Every drain comes to an end, whatever others do in the meantime: no     *)
(* step of DrainNode waits for a budget or for pods to go.                 *)
DrainReturns == pc = "getToMark" ~> pc \in {"drained", "failed"}

(* How far on its way out each node is, and the node being taken down. *)
removalStage ==
  [n \in Node |-> IF nodeState[n] # "present" THEN nodeState[n]
                  ELSE IF DrainTaint \in taints[n] THEN "cordoned" ELSE "serving"]
removalCurrent == IF pc \in {"getToMark", "drained", "failed"} THEN NoNode ELSE Victim
removalAsking == IF pc = "terminateMachine" THEN Victim ELSE NoNode

(* Call by call, the proxy takes nodes down as GracefulRemoval says.       *)
Removal ==
  INSTANCE GracefulRemoval
    WITH NoVictim <- NoNode, stage <- removalStage, current <- removalCurrent,
         asking <- removalAsking

DrainIsGraceful == Removal!Spec

(* A node is a candidate only if no "pod disruption budget ... would be    *)
(* violated" (README).  While nobody else acts this keeps the drain of the *)
(* first victim from being refused.  It does not for the second, since all *)
(* victims are checked against the same allowance.                         *)
FirstVictimIsWithinBudget == events = 0 /\ faults = 0 /\ pc = "failed" => i > 1

(* DrainNode "drains the node by evicting all active, non-system pods      *)
(* scheduled onto the node".  The eviction names a pod, so it may meet one *)
(* elsewhere; but only one of a stateful set that was on the victim when   *)
(* it was listed and has come back under its name.                         *)
EvictionsFollowTheListing ==
  [][\A p \in leaving' \ leaving :
       p \in snapshot[Victim] /\ (host[p] = Victim \/ p \in Stateful)]_vars
=============================================================================
