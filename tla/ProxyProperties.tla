-------------------------- MODULE ProxyProperties --------------------------
(***************************************************************************)
(* What the proxy is expected to guarantee, and the promise of module      *)
(* GracefulRemoval that it implements.                                     *)
(***************************************************************************)
EXTENDS Proxy

(* The handlers that are between Lock and Unlock. *)
UpdatingPC == PC \ {"idle", "forward", "lock", "respond"}
Updating(h) == pc[h] \in UpdatingPC

(* The handlers that are taking a node down. *)
RemovingPC == {"markUnschedulable", "evictPods", "markSchedulable", "deleteNode",
               "terminateMachine"}
Removing(h) == pc[h] \in RemovingPC

NonSystemActive(p) == isNonSystemPod(PodSpec[p]) /\ isActivePod(PodSpec[p])

(* updateLock does what server.go says, "prevent concurrent updates": two  *)
(* operations never run at the same time, whatever fails or crashes.       *)
NoConcurrentUpdates ==
  \A h1, h2 \in Handler : Updating(h1) /\ Updating(h2) => h1 = h2

(* SetDesiredSize never takes the cluster below the size it was asked for: *)
(* of the nodes it counted as active at least desiredSize are not deleted, *)
(* however many candidates there are and wherever its loop stops.          *)
NoOvershoot ==
  \A h \in Handler :
    Updating(h) /\ req[h].op = "setDesiredSize" /\ local[h].queue # <<>> =>
      Cardinality({n \in local[h].pairs : nodeState[n] # "deleted"}) >= req[h].size

(* A worker that is ready and schedulable and not n, and that the proxy    *)
(* has not removed (the cloud may have).                                   *)
IsDestination(n, m) ==
  /\ m # n
  /\ nodeState[m] \in {"registered", "vanished"}
  /\ ~isMasterNode(getNodeInfo(m)) \/ nodeState[m] = "vanished"
  /\ NodeSpec[m].ready /\ ~NodeSpec[m].unschedulable

(* What IsScaleDownCandidate established about the first victim, that      *)
(* another ready and schedulable worker remains, holds all the time that   *)
(* victim is being drained, deleted and terminated: no handler of the      *)
(* proxy has removed it.  TerminateMachine has a single victim, so of the  *)
(* workers there were the proxy never removes the last one.  (The cloud    *)
(* may: a worker whose machine died meanwhile still counts here.)          *)
DestinationRemains ==
  \A h \in Handler : Removing(h) /\ local[h].i = 1 =>
    \E m \in Node : IsDestination(victim(h), m)

(* Only pods that were found movable are evicted: they are not system pods *)
(* or finished, have a controller and no node-local storage.               *)
EvictedPodsAreMovable ==
  \A p \in leaving :
    /\ NonSystemActive(p)
    /\ hasController(PodSpec[p]) = "yes" /\ ~hasNodeLocalStorage(PodSpec[p])

(* A node with the scale-down-disabled annotation, and one that hosts the  *)
(* API server, is neither tainted nor deleted.                             *)
ProtectedNodesAreKept ==
  \A n \in Node : NodeSpec[n].annotation \/ isMasterNode(getNodeInfo(n)) =>
    n \notin tainted /\ nodeState[n] # "deleted"

(* The nodes that are half way out: tainted, or deleted with the machine   *)
(* still allocated.                                                        *)
HalfRemoved ==
  tainted \cup {n \in Node : nodeState[n] = "deleted" /\ IsMachineAllocated(externalID(n))}

(* Without faults no node is ever left half removed, also when a           *)
(* disruption budget refuses an eviction; and each failed call or crash    *)
(* leaves at most one, beside the one that is being removed right now.  So *)
(* a cloud VM is left running only by an update that failed.               *)
FaultsLeaveOneNodeEach ==
  Cardinality(HalfRemoved) <= faults + Cardinality({h \in Handler : Removing(h)})

(* When a scale-down or a termination reports success every victim is      *)
(* deleted from the cluster and its machine is no longer allocated.        *)
SuccessMeansGone ==
  \A h \in Handler : pc[h] = "unlock" /\ result[h] = "ok" =>
    \A n \in Range(local[h].queue) :
      nodeState[n] = "deleted" /\ ~IsMachineAllocated(externalID(n))

(* The pods on n that the deletion of node n kills without an eviction. *)
Stranded(n) == {p \in PodsOn(n) : NonSystemActive(p) /\ p \notin leaving}

(* DrainNode moves "all pods hosted on the node to other nodes", says its  *)
(* comment.  It misses no pod it knew of: when a node is deleted, the pods *)
(* on it that were never evicted had not been there when the node was      *)
(* listed (or tolerate the drain taint, and came back).                    *)
OnlyUnseenPodsAreStranded ==
  [][\A n \in Node : nodeState[n] # "deleted" /\ nodeState'[n] = "deleted" =>
       \E h \in Handler :
         /\ Removing(h) /\ n = victim(h)
         /\ \A p \in Stranded(n) :
              \/ p \notin local[h].pods[n]
              \/ hasToleration(PodSpec[p], NodeAboutToBeDrainedTaint)]_vars

-----------------------------------------------------------------------------
(* Every request for an update is answered: whoever waits for updateLock   *)
(* gets it, and no call leaves the handler without a way on.  (A crash     *)
(* closes the connection, which is an answer of sorts.)                    *)
EveryUpdateIsAnswered ==
  \A h \in Handler : pc[h] = "lock" ~> pc[h] \in {"respond", "idle"}

-----------------------------------------------------------------------------
(* Expectations that the README states and that the code does not meet.    *)

(* README, on scale-down candidates: "there must be other remaining        *)
(* non-master nodes that are Ready and Schedulable", here for every victim *)
(* of a scale-down at the time it is removed.                              *)
EveryVictimLeavesAWorker ==
  \A h \in Handler : Removing(h) => \E m \in Node : IsDestination(victim(h), m)

(* README: a desired size "lower than the current pool size" is a          *)
(* scale-down, and its victims are "gracefully shut down".  So the machine *)
(* of a registered node is never taken away under it.                      *)
NoMachineGoesBeforeItsNode ==
  [][\A n \in Registered :
       IsMachineAllocated(externalID(n)) => IsMachineAllocated(externalID(n))']_vars

-----------------------------------------------------------------------------
(* Refinement.                                                             *)

(* No two nodes are on the same machine: getNodeWithExternalID stops at    *)
(* the first node that has the machine's name as its external ID.          *)
ASSUME MachineIdentifiesNode ==
  \A n, m \in Node : NodeSpec[n].externalID = NodeSpec[m].externalID => n = m

stageOf(n) ==
  CASE nodeState[n] = "unregistered" -> "out"
    [] nodeState[n] = "registered"   -> IF n \in tainted THEN "cordoned" ELSE "serving"
    [] nodeState[n] = "deleted"      -> IF IsMachineAllocated(externalID(n))
                                        THEN "deleted" ELSE "released"
    [] nodeState[n] = "vanished"     -> "lost"

removalStage == [n \in Node |-> stageOf(n)]

currentVictim ==
  IF \E h \in Handler : Removing(h)
  THEN victim(CHOOSE h \in Handler : Removing(h))
  ELSE NoNode

(* The node whose machine TerminateMachine is called for. *)
askedVictim ==
  IF \E h \in Handler : pc[h] = "terminateMachine" THEN currentVictim ELSE NoNode

Graceful == INSTANCE GracefulRemoval WITH
              NoVictim <- NoNode,
              stage <- removalStage,
              current <- currentVictim,
              asking <- askedVictim

(* The handlers, calls and faults of the proxy implement GracefulRemoval:  *)
(* one node at a time, in the order taint, delete, terminate, the backend  *)
(* not being asked to terminate the machine of a node that is registered.  *)
RemovalIsGraceful == Graceful!Spec
=============================================================================
