--------------------------- MODULE GracefulProofs ---------------------------
(***************************************************************************)
(* The proxy implements GracefulRemoval, for every cluster, every number   *)
(* of handlers and every bound on the faults: each of its steps moves at   *)
(* most one node on its way out, and only the one that is its victim.  And *)
(* each fault leaves at most one node half removed.                        *)
(***************************************************************************)
EXTENDS RemovalProofs

-----------------------------------------------------------------------------
(* The mapping.                                                            *)

(* Nothing about node n changes that its stage depends on. *)
SameNode(n) ==
  /\ nodeState'[n] = nodeState[n]
  /\ n \in tainted' <=> n \in tainted
  /\ nodeState[n] = "deleted" =>
       (IsMachineAllocated(externalID(n))' <=> IsMachineAllocated(externalID(n)))

(* Then it stays where it is. *)
LEMMA SameStage ==
  ASSUME NEW n, SameNode(n) PROVE stageOf(n)' = stageOf(n)
BY DEF SameNode, stageOf

(* When no node changes there is nothing to see. *)
LEMMA NoMove ==
  ASSUME \A n \in Node : SameNode(n) PROVE removalStage' = removalStage
BY SameStage DEF removalStage

(* When one node changes, that one moves. *)
LEMMA OneMove ==
  ASSUME NEW n \in Node, NEW from, NEW s, NEW to, \A m \in Node \ {n} : SameNode(m),
         stageOf(n) \in from, stageOf(n)' = s, s \in to
  PROVE  Graceful!Move(n, from, to)
<1>1. removalStage[n] \in from
  BY DEF removalStage
<1>2. removalStage' = [removalStage EXCEPT ![n] = s]
  BY SameStage, Zenon DEF removalStage
<1> QED
  BY <1>1, <1>2, Zenon DEF Graceful!Move

(* The node that is being taken down is the victim of the one operation    *)
(* that removes.                                                           *)
LEMMA CurrentIsVictim ==
  ASSUME TypeInv
  PROVE  /\ \A h \in Handler : Removing(h) => currentVictim = victim(h)
         /\ (\A h \in Handler : ~Removing(h)) => currentVictim = NoNode
<1>1. \A g, h \in Handler : Removing(g) /\ Removing(h) => g = h
  BY DEF TypeInv, UpdaterHoldsLock, Updating, UpdatingPC, Removing, RemovingPC, PC
<1>2. ASSUME NEW h \in Handler, Removing(h) PROVE currentVictim = victim(h)
  <2>1. h = CHOOSE g \in Handler : Removing(g)
    BY <1>1, <1>2
  <2> QED
    BY <1>2, <2>1 DEF currentVictim
<1>3. (\A h \in Handler : ~Removing(h)) => currentVictim = NoNode
  BY DEF currentVictim
<1> QED
  BY <1>2, <1>3

(* The same after a step. *)
LEMMA CurrentIsVictimNext ==
  ASSUME TypeInv'
  PROVE  /\ \A h \in Handler : Removing(h)' => currentVictim' = victim(h)'
         /\ (\A h \in Handler : ~Removing(h)') => currentVictim' = NoNode
<1>1. \A g, h \in Handler : Removing(g)' /\ Removing(h)' => g = h
  BY DEF TypeInv, UpdaterHoldsLock, Updating, UpdatingPC, Removing, RemovingPC, PC
<1>2. ASSUME NEW h \in Handler, Removing(h)' PROVE currentVictim' = victim(h)'
  <2>1. h = CHOOSE g \in Handler : Removing(g)'
    BY <1>1, <1>2
  <2> QED
    BY <1>2, <2>1 DEF currentVictim
<1>3. (\A h \in Handler : ~Removing(h)') => currentVictim' = NoNode
  BY DEF currentVictim
<1> QED
  BY <1>2, <1>3

-----------------------------------------------------------------------------
(* The cluster and the pool.                                               *)

(* One machine changes its state, and it is not a new one: a deleted node  *)
(* whose machine is given up by this is released.                          *)
LEMMA MachineMoves ==
  ASSUME TypeInv, RemovalInv, PoolRuns, UNCHANGED kubeVars, NEW m \in Machine,
         \A k \in Machine \ {m} : machineState'[k] = machineState[k]
  PROVE  \/ removalStage' = removalStage
         \/ \E n \in Node : externalID(n) = m /\ Graceful!Move(n, {"deleted"}, {"released"})
<1>1. \A n \in Node : externalID(n) \in Machine
  BY ExternalIDType
<1>2. ASSUME NEW n \in Node, externalID(n) # m PROVE SameNode(n)
  BY <1>1, <1>2 DEF SameNode, IsMachineAllocated, kubeVars
<1>3. ASSUME NEW n \in Node, ~(/\ nodeState[n] = "deleted" /\ IsMachineAllocated(externalID(n))
                               /\ ~IsMachineAllocated(externalID(n))')
      PROVE  SameNode(n)
  <2>1. nodeState'[n] = nodeState[n] /\ (n \in tainted' <=> n \in tainted)
    BY DEF kubeVars
  <2>2. CASE nodeState[n] = "deleted"
    <3>1. machineState[externalID(n)] # "NONE" /\ machineState[externalID(n)] \in MachineState
      BY <1>1, <2>2 DEF RemovalInv, DeletionsFit, TypeInv, TypeOK, PoolTypeOK
    <3>2. IsMachineAllocated(externalID(n))' => IsMachineAllocated(externalID(n))
      BY <1>1, <3>1 DEF PoolRuns, IsMachineAllocated, MachineState
    <3> QED
      BY <1>3, <2>1, <2>2, <3>2 DEF SameNode
  <2> QED
    BY <2>1, <2>2 DEF SameNode
<1>4. ASSUME NEW n \in Node, nodeState[n] = "deleted", IsMachineAllocated(externalID(n)),
             ~IsMachineAllocated(externalID(n))'
      PROVE  externalID(n) = m /\ Graceful!Move(n, {"deleted"}, {"released"})
  <2>1. externalID(n) = m
    BY <1>2, <1>4 DEF SameNode
  <2>2. \A k \in Node \ {n} : SameNode(k)
    BY <1>2, <2>1, MachineIdentifiesNode DEF externalID
  <2>3. stageOf(n) = "deleted" /\ stageOf(n)' = "released"
    BY <1>4 DEF stageOf, kubeVars
  <2> QED
    BY <2>1, <2>2, <2>3, OneMove
<1>5. CASE \A n \in Node : SameNode(n)
  BY <1>5, NoMove
<1> QED
  BY <1>3, <1>4, <1>5

(* A step of an operation and a step beside it, as GracefulRemoval has it. *)
IsGraceful == Graceful!Next \/ UNCHANGED <<removalStage, currentVictim, askedVictim>>

(* A machine goes while the victim stays. *)
LEMMA PoolGraceful ==
  ASSUME TypeInv, RemovalInv, PoolRuns, UNCHANGED <<kubeVars, currentVictim, askedVictim>>,
         NEW m \in Machine, \A k \in Machine \ {m} : machineState'[k] = machineState[k]
  PROVE  IsGraceful
<1>1. \/ removalStage' = removalStage
      \/ \E n \in Node : Graceful!Move(n, {"deleted"}, {"released"})
  BY MachineMoves
<1> QED
  BY <1>1 DEF IsGraceful, Graceful!Next, Graceful!Release

(* The cluster and the pool take nodes in, and take away those whose       *)
(* machine has died; the proxy's victim is not theirs.                     *)
LEMMA EnvironmentGraceful ==
  ASSUME TypeInv, RemovalInv, Environment PROVE IsGraceful
<1>1. PoolRuns /\ UNCHANGED proxyVars
  BY EnvironmentEffect
<1>2. currentVictim' = currentVictim /\ askedVictim' = askedVictim
  BY <1>1, Zenon DEF proxyVars, currentVictim, askedVictim, Removing, victim
<1>3. nodeState \in [Node -> NodeState] /\ machineState \in [Machine -> MachineState]
  BY DEF TypeInv, TypeOK, KubeTypeOK, PoolTypeOK
<1>4. ASSUME UNCHANGED <<nodeState, tainted, machineState>> PROVE IsGraceful
  BY <1>2, <1>4, NoMove DEF SameNode, IsMachineAllocated, IsGraceful
<1>5. ASSUME NEW n \in Node, NodeJoins(n), UNCHANGED poolVars PROVE IsGraceful
  <2>1. \A m \in Node \ {n} : SameNode(m)
    BY <1>3, <1>5 DEF NodeJoins, SameNode, IsMachineAllocated, poolVars
  <2>2. stageOf(n) = "out" /\ stageOf(n)' = "serving"
    BY <1>3, <1>5 DEF NodeJoins, stageOf, RemovalInv, TaintsFit
  <2>3. Graceful!Move(n, {"out"}, {"serving"})
    BY <2>1, <2>2, OneMove
  <2> QED
    BY <1>2, <2>3 DEF IsGraceful, Graceful!Next, Graceful!Join
<1>6. ASSUME NEW n \in Node, NodeVanishes(n), UNCHANGED poolVars PROVE IsGraceful
  <2>1. \A m \in Node \ {n} : SameNode(m)
    BY <1>3, <1>6 DEF NodeVanishes, SameNode, IsMachineAllocated, poolVars
  <2>2. stageOf(n) \in {"serving", "cordoned"} /\ stageOf(n)' = "lost"
    BY <1>3, <1>6 DEF NodeVanishes, stageOf
  <2>3. Graceful!Move(n, {"serving", "cordoned"}, {"lost"})
    BY <2>1, <2>2, OneMove
  <2> QED
    BY <1>2, <2>3 DEF IsGraceful, Graceful!Next, Graceful!Lose
<1>7. ASSUME NEW m \in Machine, Launch(m) \/ MachineAdvances(m) \/ ScaleIn(m), UNCHANGED kubeVars
      PROVE  IsGraceful
  <2>1. \A k \in Machine \ {m} : machineState'[k] = machineState[k]
    BY <1>3, <1>7 DEF Launch, MachineAdvances, ScaleIn
  <2> QED
    BY <1>1, <1>2, <1>7, <2>1, PoolGraceful
<1>8. ASSUME NEW call \in delayed, DelayedCallArrives(call), UNCHANGED kubeVars PROVE IsGraceful
  <2>1. call \in Call
    BY DEF TypeInv, TypeOK, PoolTypeOK
  <2>2. CASE machineState' = machineState
    BY <1>4, <1>8, <2>2 DEF kubeVars
  <2>3. CASE call.op = "terminate" /\ machineState' = [machineState EXCEPT ![call.machine] = "TERMINATING"]
    <3>1. call.machine \in Machine
      BY <2>1, <2>3 DEF Call
    <3>2. \A k \in Machine \ {call.machine} : machineState'[k] = machineState[k]
      BY <1>3, <2>3
    <3> QED
      BY <1>1, <1>2, <1>8, <3>1, <3>2, PoolGraceful
  <2> QED
    BY <1>8, <2>2, <2>3 DEF DelayedCallArrives, CarryOut
<1>9. ASSUME UNCHANGED poolVars,
             \E p \in Pod : PodGone(p) \/ \E n \in Node : SchedulerBinds(p, n)
      PROVE  IsGraceful
  <2>1. UNCHANGED <<nodeState, tainted, machineState>>
    BY <1>9 DEF PodGone, SchedulerBinds, poolVars
  <2> QED
    BY <1>4, <2>1
<1> QED
  BY <1>5, <1>6, <1>7, <1>8, <1>9 DEF Environment

-----------------------------------------------------------------------------
(* The steps of an operation.                                              *)

(* The victim of the operation that takes a step, before it and after it. *)
LEMMA OperationCurrent ==
  ASSUME TypeInv, TypeInv', NEW h \in Handler, Operation(h)
  PROVE  /\ currentVictim = IF Removing(h) THEN victim(h) ELSE NoNode
         /\ currentVictim' = IF Removing(h)' THEN victim(h)' ELSE NoNode
         /\ askedVictim = IF pc[h] = "terminateMachine" THEN victim(h) ELSE NoNode
         /\ askedVictim' = IF pc'[h] = "terminateMachine" THEN victim(h)' ELSE NoNode
         /\ Removing(h) => victim(h) \in Node
         /\ Removing(h)' => victim(h)' \in Node
<1>1. \A g \in Handler : Removing(g) \/ Removing(g)' => g = h
  BY OperationAlone DEF Removing, RemovingPC, UpdatingPC, PC
<1>2. /\ currentVictim = IF Removing(h) THEN victim(h) ELSE NoNode
      /\ currentVictim' = IF Removing(h)' THEN victim(h)' ELSE NoNode
  BY <1>1, CurrentIsVictim, CurrentIsVictimNext
<1>3. Removing(h) => victim(h) \in Node
  BY VictimType DEF Removing
<1>4. Removing(h)' => victim(h)' \in Node
  <2> SUFFICES ASSUME Removing(h)' PROVE victim(h)' \in Node
    OBVIOUS
  <2>1. pc'[h] \in RemovingPC /\ Updating(h)' /\ local'[h].queue \in Seq(Node)
    BY SMTT(20) DEF Removing, RemovingPC, Updating, UpdatingPC, PC, TypeInv, TypeOK, LocalType
  <2>2. LocalsFit(pc'[h], local'[h], req'[h])
    BY <2>1 DEF TypeInv, LocalsAreSound
  <2>3. local'[h].i \in 1..Len(local'[h].queue)
    BY <2>1, <2>2 DEF LocalsFit
  <2> QED
    BY <2>1, <2>3 DEF victim
<1>5. \A g \in Handler : /\ pc[g] = "terminateMachine" => Removing(g)
                         /\ pc'[g] = "terminateMachine" => Removing(g)'
  BY DEF Removing, RemovingPC
<1>6. askedVictim = IF pc[h] = "terminateMachine" THEN victim(h) ELSE NoNode
  BY <1>1, <1>2, <1>5, Zenon DEF askedVictim
<1>7. askedVictim' = IF pc'[h] = "terminateMachine" THEN victim(h)' ELSE NoNode
  BY <1>1, <1>2, <1>5, Zenon DEF askedVictim
<1> QED
  BY <1>2, <1>3, <1>4, <1>6, <1>7

(* As long as it seeks victims it takes none down; SelectVictims begins.   *)
LEMMA SeekingGraceful ==
  ASSUME TypeInv, TypeInv', NEW h \in Handler, Operation(h), ~Removing(h),
         pc'[h] # "terminateMachine",
         UNCHANGED <<nodeState, tainted, machineState>>
  PROVE  IsGraceful
<1>1. removalStage' = removalStage
  BY NoMove DEF SameNode, IsMachineAllocated
<1>2. /\ currentVictim = NoNode /\ currentVictim' \in Node \cup {NoNode}
      /\ askedVictim = NoNode /\ askedVictim' = NoNode
  BY OperationCurrent DEF Removing, RemovingPC
<1>3. CASE currentVictim' \in Node
  BY <1>1, <1>2, <1>3 DEF IsGraceful, Graceful!Next, Graceful!Begin
<1> QED
  BY <1>1, <1>2, <1>3 DEF IsGraceful

(* A removal that gives up, or goes on with the same victim, while no node *)
(* changes.                                                                *)
LEMMA RestingGraceful ==
  ASSUME TypeInv, TypeInv', NEW h \in Handler, Operation(h), Removing(h),
         UNCHANGED <<nodeState, tainted, machineState>>,
         Removing(h)' => /\ victim(h)' = victim(h)
                         /\ "terminateMachine" \notin {pc[h], pc'[h]}
  PROVE  IsGraceful
<1>1. removalStage' = removalStage
  BY NoMove DEF SameNode, IsMachineAllocated
<1>2. currentVictim \in Node
  BY OperationCurrent
<1>3. CASE Removing(h)'
  <2>1. currentVictim' = currentVictim /\ askedVictim = NoNode /\ askedVictim' = NoNode
    BY <1>3, OperationCurrent
  <2> QED
    BY <1>1, <2>1 DEF IsGraceful
<1>4. CASE ~Removing(h)'
  <2>1. currentVictim' = NoNode /\ askedVictim' = NoNode
    BY <1>4, OperationCurrent DEF Removing, RemovingPC
  <2> QED
    BY <1>1, <1>2, <2>1, NoNodeAssumption DEF IsGraceful, Graceful!Next, Graceful!Abandon
<1> QED
  BY <1>3, <1>4

(* markUnschedulable cordons its victim. *)
LEMMA MarkUnschedulableGraceful ==
  ASSUME TypeInv, TypeInv', CandidateInv, RemovalInv, NEW h \in Handler, MarkUnschedulable(h)
  PROVE  IsGraceful
<1>0. pc[h] = "markUnschedulable" /\ pc[h] \in RemovingPC
  BY MarkUnschedulableEffect, Zenon DEF RemovingPC
<1>n. PICK n \in Node : n = victim(h)
  BY <1>0, VictimType
<1>1. /\ UNCHANGED <<poolVars, nodeState>> /\ pc[h] = "markUnschedulable"
      /\ KeepsVictims(h) /\ local'[h].i = local[h].i
      /\ tainted' = tainted \/ (n \in Registered /\ tainted' = tainted \cup {n})
      /\ pc'[h] # "terminateMachine"
  <2>1. /\ UNCHANGED <<poolVars, nodeState>> /\ pc[h] = "markUnschedulable"
        /\ KeepsVictims(h) /\ local'[h].i = local[h].i
        /\ tainted' = tainted \/ (n \in Registered /\ tainted' = tainted \cup {n})
    BY <1>n, MarkUnschedulableEffect, Zenon
  <2>2. pc'[h] \in {"deleteNode", "evictPods", "unlock"}
    BY MarkUnschedulableEffect, Zenon DEF GivesUp
  <2> QED
    BY <2>1, <2>2
<1>2. Operation(h) /\ Removing(h)
  BY <1>0 DEF Operation, Removing, RemovingPC
<1>3. victim(h)' = n
  BY <1>1, <1>n DEF KeepsVictims, victim
<1>4. CASE tainted' = tainted
  BY <1>1, <1>2, <1>3, <1>4, <1>n, RestingGraceful DEF poolVars
<1>5. CASE n \in Registered /\ tainted' = tainted \cup {n} /\ n \notin tainted
  <2>1. /\ currentVictim = n /\ currentVictim' \in {n, NoNode}
        /\ askedVictim = NoNode /\ askedVictim' = NoNode
    BY <1>1, <1>2, <1>3, <1>n, OperationCurrent
  <2>2. \A m \in Node \ {n} : SameNode(m)
    BY <1>1, <1>5 DEF SameNode, IsMachineAllocated, poolVars
  <2>3. stageOf(n) = "serving" /\ stageOf(n)' = "cordoned"
    BY <1>1, <1>5 DEF stageOf, Registered
  <2>4. Graceful!Move(n, {"serving"}, {"cordoned"})
    BY <2>2, <2>3, OneMove
  <2> QED
    BY <2>1, <2>4 DEF IsGraceful, Graceful!Next, Graceful!Cordon
<1> QED
  BY <1>1, <1>4, <1>5

(* The deferred markSchedulable takes its victim back and gives up. *)
LEMMA MarkSchedulableGraceful ==
  ASSUME TypeInv, TypeInv', CandidateInv, RemovalInv, NEW h \in Handler, MarkSchedulable(h)
  PROVE  IsGraceful
<1>0. pc[h] = "markSchedulable" /\ pc[h] \in RemovingPC
  BY MarkSchedulableEffect, Zenon DEF RemovingPC
<1>n. PICK n \in Node : n = victim(h)
  BY <1>0, VictimType
<1>1. /\ UNCHANGED <<poolVars, nodeState>> /\ pc[h] = "markSchedulable" /\ pc'[h] = "unlock"
      /\ tainted' = tainted \/ tainted' = tainted \ {n}
  BY <1>n, MarkSchedulableEffect DEF GivesUp
<1>2. Operation(h) /\ Removing(h) /\ ~Removing(h)'
  BY <1>0, <1>1 DEF Operation, Removing, RemovingPC
<1>3. CASE tainted' = tainted
  BY <1>1, <1>2, <1>3, <1>n, RestingGraceful DEF poolVars
<1>4. CASE tainted' = tainted \ {n} /\ n \in tainted
  <2>1. /\ currentVictim = n /\ currentVictim' = NoNode
        /\ askedVictim = NoNode /\ askedVictim' = NoNode
    BY <1>1, <1>2, <1>n, OperationCurrent
  <2>2. \A m \in Node \ {n} : SameNode(m)
    BY <1>1, <1>4 DEF SameNode, IsMachineAllocated, poolVars
  <2>3. stageOf(n) = "cordoned" /\ stageOf(n)' = "serving"
    BY <1>1, <1>4 DEF stageOf, RemovalInv, TaintsFit
  <2>4. Graceful!Move(n, {"cordoned"}, {"serving"})
    BY <2>2, <2>3, OneMove
  <2> QED
    BY <2>1, <2>4 DEF IsGraceful, Graceful!Next, Graceful!Uncordon
<1> QED
  BY <1>1, <1>3, <1>4

(* DeleteNode deletes a victim that has the taint, with its machine still  *)
(* there or already gone.                                                  *)
LEMMA DeleteNodeGraceful ==
  ASSUME TypeInv, TypeInv', CandidateInv, RemovalInv, NEW h \in Handler, DeleteNode(h)
  PROVE  IsGraceful
<1>0. pc[h] = "deleteNode" /\ pc[h] \in RemovingPC
  BY DeleteNodeEffect, Zenon DEF RemovingPC
<1>n. PICK n \in Node : n = victim(h)
  BY <1>0, VictimType
<1>1. /\ UNCHANGED poolVars /\ pc[h] = "deleteNode" /\ local'[h] = local[h]
      /\ \/ UNCHANGED kubeVars /\ pc'[h] = "unlock"
         \/ /\ n \in Registered /\ tainted' = tainted \ {n} /\ nodeState'[n] = "deleted"
            /\ \A m \in Node \ {n} : nodeState'[m] = nodeState[m]
            /\ pc'[h] \in {"terminateMachine", "unlock"}
  BY <1>n, DeleteNodeEffect, Zenon DEF GivesUp
<1>2. Operation(h) /\ Removing(h)
  BY <1>0 DEF Operation, Removing, RemovingPC
<1>3. victim(h)' = n
  BY <1>1, <1>n DEF victim
<1>4. CASE UNCHANGED kubeVars /\ pc'[h] = "unlock"
  <2>1. ~Removing(h)'
    BY <1>4 DEF Removing, RemovingPC
  <2> QED
    BY <1>1, <1>2, <1>4, <2>1, RestingGraceful DEF poolVars, kubeVars
<1>5. CASE /\ n \in Registered /\ tainted' = tainted \ {n} /\ nodeState'[n] = "deleted"
           /\ \A m \in Node \ {n} : nodeState'[m] = nodeState[m]
           /\ pc'[h] \in {"terminateMachine", "unlock"}
  <2>1. /\ currentVictim = n /\ currentVictim' \in {n, NoNode}
        /\ askedVictim' = currentVictim'
    <3>1. Removing(h)' <=> pc'[h] = "terminateMachine"
      BY <1>5 DEF Removing, RemovingPC
    <3> QED
      BY <1>2, <1>3, <1>n, <3>1, OperationCurrent
  <2>2. n \in tainted
    <3>1. RemovalFits(h)
      BY <1>0, <1>n, VictimFacts
    <3> QED
      BY <1>1, <1>5, <1>n, <3>1 DEF RemovalFits, DrainFits, Registered
  <2>3. \A m \in Node \ {n} : SameNode(m)
    BY <1>1, <1>5 DEF SameNode, IsMachineAllocated, poolVars
  <2>4. stageOf(n) = "cordoned" /\ stageOf(n)' \in {"deleted", "released"}
    BY <1>1, <1>5, <2>2 DEF stageOf, Registered
  <2>5. Graceful!Move(n, {"cordoned"}, {"deleted", "released"})
    BY <2>3, <2>4, OneMove
  <2> QED
    BY <2>1, <2>5 DEF IsGraceful, Graceful!Next, Graceful!Delete
<1> QED
  BY <1>1, <1>4, <1>5

(* TerminateMachine releases its victim, and the next one has its turn.    *)
LEMMA TerminateMachineGraceful ==
  ASSUME TypeInv, TypeInv', CandidateInv, RemovalInv, PoolRuns, NEW h \in Handler,
         TerminateMachine(h)
  PROVE  IsGraceful
<1>0. pc[h] = "terminateMachine" /\ pc[h] \in RemovingPC
  BY TerminateMachineEffect, Zenon DEF RemovingPC
<1>n. PICK n \in Node : n = victim(h)
  BY <1>0, VictimType
<1>1. /\ UNCHANGED kubeVars /\ pc[h] = "terminateMachine"
      /\ \/ /\ IsMachineAllocated(externalID(n))
            /\ machineState' = [machineState EXCEPT ![externalID(n)] = "TERMINATING"]
         \/ machineState' = machineState /\ pc'[h] = "unlock"
  BY <1>n, TerminateMachineEffect, Zenon DEF GivesUp
<1>p. pc'[h] # "terminateMachine"
  <2>1. pc'[h] \in {"markUnschedulable", "unlock"}
    BY TerminateMachineEffect, Zenon DEF GivesUp
  <2> QED
    BY <2>1
<1>2. Operation(h) /\ Removing(h)
  BY <1>0 DEF Operation, Removing, RemovingPC
<1>3. CASE machineState' = machineState /\ pc'[h] = "unlock"
  <2>1. ~Removing(h)'
    BY <1>3 DEF Removing, RemovingPC
  <2> QED
    BY <1>1, <1>2, <1>3, <2>1, <1>n, RestingGraceful DEF kubeVars
<1>4. CASE /\ IsMachineAllocated(externalID(n))
           /\ machineState' = [machineState EXCEPT ![externalID(n)] = "TERMINATING"]
  <2>1. /\ currentVictim = n /\ currentVictim' \in Node \cup {NoNode}
        /\ askedVictim = n /\ askedVictim' = NoNode
    BY <1>0, <1>2, <1>n, <1>p, OperationCurrent
  <2>2. nodeState[n] = "deleted"
    <3>1. /\ RemovalFits(h) /\ local[h].i \in DOMAIN local[h].queue
          /\ local[h].queue[local[h].i] = n /\ local[h].queue \in Seq(Node)
      BY <1>0, <1>n, VictimFacts
    <3> QED
      BY <1>0, <1>1, <3>1 DEF RemovalFits, ProgressFits
  <2>3. /\ machineState \in [Machine -> MachineState] /\ externalID(n) \in Machine
        /\ \A k \in Machine \ {externalID(n)} : machineState'[k] = machineState[k]
        /\ ~IsMachineAllocated(externalID(n))'
    BY <1>4, ExternalIDType DEF TypeInv, TypeOK, PoolTypeOK, IsMachineAllocated
  <2>4. \A m \in Node \ {n} : SameNode(m)
    <3> SUFFICES ASSUME NEW m \in Node \ {n} PROVE SameNode(m)
      OBVIOUS
    <3>1. externalID(m) \in Machine \ {externalID(n)}
      BY ExternalIDType, MachineIdentifiesNode DEF externalID
    <3> QED
      BY <1>1, <2>3, <3>1 DEF SameNode, IsMachineAllocated, kubeVars
  <2>5. stageOf(n) = "deleted" /\ stageOf(n)' = "released"
    BY <1>1, <1>4, <2>2, <2>3 DEF stageOf, kubeVars
  <2>6. Graceful!Move(n, {"deleted"}, {"released"})
    BY <2>4, <2>5, OneMove
  <2> QED
    BY <2>1, <2>6 DEF IsGraceful, Graceful!Next, Graceful!Release
<1> QED
  BY <1>1, <1>3, <1>4

(* Every step of an operation is a step of GracefulRemoval or none. *)
LEMMA OperationGraceful ==
  ASSUME TypeInv, TypeInv', CandidateInv, RemovalInv, PoolRuns, NEW h \in Handler, Operation(h)
  PROVE  IsGraceful
<1>1. CASE \/ ListWorkerNodes(h) \/ GetMachinePool(h) \/ GetMachine(h)
           \/ CheckCandidate(h) \/ SelectVictims(h) \/ SetDesiredSize(h)
  <2>1. /\ UNCHANGED kubeVars /\ machineState' = machineState
        /\ pc[h] \in {"listWorkerNodes", "getMachinePool", "getMachine", "checkCandidates",
                      "setDesiredSize"}
    BY <1>1, ListWorkerNodesEffect, GetMachinePoolEffect, GetMachineEffect,
       CheckCandidateEffect, SelectVictimsEffect, SetDesiredSizeEffect, Zenon DEF poolVars
  <2>2. pc'[h] \in {"getMachinePool", "getMachine", "checkCandidates", "setDesiredSize",
                    "markUnschedulable", "panicked", "unlock"}
    BY <1>1, ListWorkerNodesEffect, GetMachinePoolEffect, GetMachineEffect,
       CheckCandidateEffect, SelectVictimsEffect, SetDesiredSizeEffect, Zenon DEF GivesUp
  <2>3. pc'[h] # "terminateMachine"
    BY <2>2
  <2> QED
    BY <2>1, <2>3, SeekingGraceful DEF Removing, RemovingPC, kubeVars
<1>2. CASE EvictOnePod(h)
  <2>1. /\ UNCHANGED <<poolVars, nodeState, tainted>> /\ pc[h] = "evictPods"
        /\ KeepsVictims(h) /\ local'[h].i = local[h].i
    BY <1>2, EvictOnePodEffect, Zenon
  <2>2. Removing(h) /\ victim(h)' = victim(h)
    BY <2>1 DEF Removing, RemovingPC, KeepsVictims, victim
  <2>3. pc'[h] \in {"deleteNode", "evictPods", "markSchedulable"}
    BY <1>2, EvictOnePodEffect, Zenon
  <2> QED
    BY <2>1, <2>2, <2>3, RestingGraceful DEF poolVars
<1> QED
  BY <1>1, <1>2, MarkUnschedulableGraceful, MarkSchedulableGraceful, DeleteNodeGraceful,
     TerminateMachineGraceful DEF Operation

(* So is every other step of a handler: none touches a node or a machine. *)
LEMMA HandlerGraceful ==
  ASSUME TypeInv, TypeInv', NEW h \in Handler,
         Receive(h) \/ Lock(h) \/ ForwardToBackend(h) \/ Unlock(h) \/ Respond(h)
  PROVE  UNCHANGED <<removalStage, currentVictim, askedVictim>>
<1>1. Outside /\ UNCHANGED kubeVars /\ machineState' = machineState
  BY HandlerOutside DEF Receive, Lock, ForwardToBackend, Unlock, Respond
<1>2. removalStage' = removalStage
  BY <1>1, NoMove DEF SameNode, IsMachineAllocated, kubeVars
<1>3. ASSUME NEW g \in Handler
      PROVE  /\ Removing(g)' <=> Removing(g)
             /\ Removing(g) => victim(g)' = victim(g)
             /\ pc'[g] = "terminateMachine" <=> pc[g] = "terminateMachine"
  BY <1>1 DEF Outside, Waits, Removing, RemovingPC, UpdatingPC, PC, victim
<1>4. currentVictim' = currentVictim
  <2>1. CASE \E g \in Handler : Removing(g)
    BY <1>3, <2>1, CurrentIsVictim, CurrentIsVictimNext
  <2>2. CASE \A g \in Handler : ~Removing(g)
    BY <1>3, <2>2, CurrentIsVictim, CurrentIsVictimNext
  <2> QED
    BY <2>1, <2>2
<1>5. askedVictim' = askedVictim
  BY <1>3, <1>4, Zenon DEF askedVictim
<1> QED
  BY <1>2, <1>4, <1>5

(* A crash abandons the removal that was under way. *)
LEMMA CrashGraceful ==
  ASSUME TypeInv, TypeInv', Crash PROVE IsGraceful
<1>1. UNCHANGED <<kubeVars, poolVars>> /\ \A g \in Handler : ~Removing(g)'
  BY DEF Crash, Removing, RemovingPC
<1>2. removalStage' = removalStage
  BY <1>1, NoMove DEF SameNode, IsMachineAllocated, kubeVars, poolVars
<1>3. currentVictim' = NoNode
  BY <1>1, CurrentIsVictimNext
<1>4. askedVictim' = NoNode
  BY <1>3, Zenon DEF askedVictim
<1>5. CASE currentVictim = NoNode
  <2>1. askedVictim = NoNode
    BY <1>5, Zenon DEF askedVictim
  <2> QED
    BY <1>2, <1>3, <1>4, <1>5, <2>1 DEF IsGraceful
<1> QED
  BY <1>2, <1>3, <1>4, <1>5 DEF IsGraceful, Graceful!Next, Graceful!Abandon

(* At the start no node is on its way out. *)
LEMMA InitGraceful == Init => Graceful!Init
<1> SUFFICES ASSUME Init PROVE Graceful!Init
  OBVIOUS
<1>1. /\ \A n \in Node : nodeState[n] \in {"unregistered", "registered"}
      /\ tainted = {} /\ pc = [h \in Handler |-> "idle"]
  BY ProxyAssumption DEF Init, InitType
<1>2. \A n \in Node : stageOf(n) \in {"out", "serving"}
  BY <1>1 DEF stageOf
<1>3. currentVictim = NoNode
  BY <1>1 DEF currentVictim, Removing, RemovingPC
<1>4. askedVictim = NoNode
  BY <1>3, Zenon DEF askedVictim
<1> QED
  BY <1>2, <1>3, <1>4 DEF Graceful!Init, removalStage

(* Handlers that wait for each other, calls that fail or arrive late and   *)
(* crashes included, the proxy takes nodes down as GracefulRemoval says:   *)
(* one at a time, tainted before it is deleted, deleted before its machine *)
(* is asked for, and the next one only after that.                         *)
THEOREM ProxyImplementsGracefulRemoval == Spec => RemovalIsGraceful
<1>1. TypeInv /\ TypeInv' /\ CandidateInv /\ RemovalInv /\ [Next]_vars =>
        [Graceful!Next]_<<removalStage, currentVictim, askedVictim>>
  <2> SUFFICES ASSUME TypeInv, TypeInv', CandidateInv, RemovalInv, [Next]_vars
               PROVE  IsGraceful
    BY DEF IsGraceful
  <2>1. PoolRuns
    BY PoolForward
  <2>2. ASSUME NEW h \in Handler, Receive(h) \/ Lock(h) \/ Serve(h) PROVE IsGraceful
    <3>1. Operation(h) \/ Receive(h) \/ Lock(h) \/ ForwardToBackend(h) \/ Unlock(h) \/ Respond(h)
      BY <2>2 DEF Serve, Operation
    <3> QED
      BY <2>1, <3>1, OperationGraceful, HandlerGraceful DEF IsGraceful
  <2>3. CASE UNCHANGED vars
    BY <2>3 DEF vars, kubeVars, poolVars, proxyVars, IsGraceful, removalStage, stageOf,
                IsMachineAllocated, currentVictim, askedVictim, Removing, victim
  <2> QED
    BY <2>2, <2>3, CrashGraceful, EnvironmentGraceful DEF Next
<1> QED
  BY <1>1, InitGraceful, RemovalInvariant, PTL DEF Spec, RemovalIsGraceful, Graceful!Spec

-----------------------------------------------------------------------------
(* Half-removed nodes.                                                     *)

(* The nodes that are being removed right now. *)
CurrentVictims == {victim(h) : h \in {g \in Handler : Removing(g)}}

(* The half-removed nodes that no operation is working on. *)
Leftover == HalfRemoved \ CurrentVictims

(* Each of them is due to a fault of its own. *)
LeftoverInv == Cardinality(Leftover) <= faults

(* A set with at most one more member is larger by at most one. *)
LEMMA OneMore ==
  ASSUME NEW S, IsFiniteSet(S), NEW x, NEW T, T \subseteq S \cup {x}
  PROVE  Cardinality(T) <= Cardinality(S) + 1
<1>1. Cardinality(S) \in Nat
  BY FS_CardinalityType
<1>2. /\ IsFiniteSet(S \cup {x}) /\ Cardinality(S \cup {x}) \in Nat
      /\ Cardinality(S \cup {x}) <= Cardinality(S) + 1
  BY <1>1, FS_AddElement
<1>3. Cardinality(T) \in Nat /\ Cardinality(T) <= Cardinality(S \cup {x})
  BY <1>2, FS_Subset, FS_CardinalityType
<1> QED
  BY <1>1, <1>2, <1>3

(* There are finitely many. *)
LEMMA LeftoverFinite ==
  ASSUME TypeInv
  PROVE  /\ HalfRemoved \subseteq Node /\ IsFiniteSet(HalfRemoved)
         /\ IsFiniteSet(Leftover) /\ Cardinality(Leftover) \in Nat
<1>1. HalfRemoved \subseteq Node
  BY DEF TypeInv, TypeOK, KubeTypeOK, HalfRemoved
<1>2. IsFiniteSet(HalfRemoved) /\ IsFiniteSet(Leftover)
  BY <1>1, ProxyAssumption, FS_Subset DEF Leftover
<1> QED
  BY <1>1, <1>2, FS_CardinalityType

(* A step may leave one more node behind if there is a fault in it. *)
LEMMA LeftoverStep ==
  ASSUME TypeInv, TypeInv', LeftoverInv, NEW x,
         \/ Fault /\ Leftover' \subseteq Leftover \cup {x}
         \/ (NoFault \/ Fault) /\ Leftover' \subseteq Leftover
  PROVE  LeftoverInv'
<1>1. /\ IsFiniteSet(Leftover) /\ Cardinality(Leftover) \in Nat
      /\ IsFiniteSet(Leftover') /\ Cardinality(Leftover') \in Nat
  <2>1. IsFiniteSet(Leftover) /\ Cardinality(Leftover) \in Nat
    BY LeftoverFinite
  <2>2. HalfRemoved' \subseteq Node
    BY DEF TypeInv, TypeOK, KubeTypeOK, HalfRemoved
  <2>3. Leftover' \subseteq Node
    BY <2>2 DEF Leftover
  <2>4. IsFiniteSet(Leftover') /\ Cardinality(Leftover') \in Nat
    BY <2>3, ProxyAssumption, FS_Subset, FS_CardinalityType
  <2> QED
    BY <2>1, <2>4
<1>2. faults \in Nat /\ (faults' = faults \/ faults' = faults + 1)
  BY ProxyAssumption DEF TypeInv, TypeOK, NoFault, Fault
<1>3. CASE Leftover' \subseteq Leftover
  <2>1. Cardinality(Leftover') <= Cardinality(Leftover)
    BY <1>1, <1>3, FS_Subset
  <2> QED
    BY <1>1, <1>2, <2>1 DEF LeftoverInv
<1>4. CASE Fault /\ Leftover' \subseteq Leftover \cup {x}
  <2>1. Cardinality(Leftover') <= Cardinality(Leftover) + 1
    BY <1>1, <1>4, OneMore
  <2>2. faults' = faults + 1
    BY <1>4 DEF Fault
  <2> QED
    BY <1>1, <1>2, <2>1, <2>2 DEF LeftoverInv
<1> QED
  BY <1>3, <1>4

(* At most one node is being removed. *)
LEMMA OneVictim ==
  ASSUME TypeInv
  PROVE  /\ \A h \in Handler : Removing(h) => CurrentVictims = {victim(h)}
         /\ \A h \in Handler : Removing(h) => {g \in Handler : Removing(g)} = {h}
         /\ (\A h \in Handler : ~Removing(h)) => CurrentVictims = {}
<1>1. \A g, h \in Handler : Removing(g) /\ Removing(h) => g = h
  BY DEF TypeInv, UpdaterHoldsLock, Updating, UpdatingPC, Removing, RemovingPC, PC
<1> QED
  BY <1>1 DEF CurrentVictims

(* Outside of operations no node becomes half removed: a machine that is   *)
(* gone does not come back for a deleted node.                             *)
LEMMA HalfRemovedShrinks ==
  ASSUME TypeInv, RemovalInv, PoolRuns, ClusterRuns
  PROVE  HalfRemoved' \subseteq HalfRemoved
<1>1. tainted' \subseteq tainted
  BY DEF ClusterRuns
<1>2. ASSUME NEW n \in Node, nodeState'[n] = "deleted", IsMachineAllocated(externalID(n))'
      PROVE  nodeState[n] = "deleted" /\ IsMachineAllocated(externalID(n))
  <2>1. nodeState[n] = "deleted"
    BY <1>2, ClusterDeletesNothing
  <2>2. externalID(n) \in Machine /\ machineState[externalID(n)] # "NONE"
    BY <2>1, ExternalIDType DEF RemovalInv, DeletionsFit
  <2>3. machineState[externalID(n)] \in MachineState
    BY <2>2 DEF TypeInv, TypeOK, PoolTypeOK
  <2> QED
    BY <1>2, <2>1, <2>2, <2>3 DEF PoolRuns, IsMachineAllocated, MachineState
<1> QED
  BY <1>1, <1>2 DEF HalfRemoved

(* Steps outside operations leave no node behind. *)
LEMMA OutsideLeftover ==
  ASSUME TypeInv, RemovalInv, PoolRuns, Outside
  PROVE  Leftover' \subseteq Leftover
<1>1. HalfRemoved' \subseteq HalfRemoved
  BY HalfRemovedShrinks DEF Outside
<1>2. ASSUME NEW g \in Handler, Removing(g)
      PROVE  Removing(g)' /\ victim(g)' = victim(g)
  <2>1. Waits(g)
    BY <1>2 DEF Outside, Removing, RemovingPC, UpdatingPC, PC
  <2> QED
    BY <1>2, <2>1 DEF Waits, Removing, victim
<1>3. CurrentVictims \subseteq CurrentVictims'
  BY <1>2 DEF CurrentVictims
<1> QED
  BY <1>1, <1>3 DEF Leftover

(* A step of evictAndTerminate at its victim: no other node becomes half   *)
(* removed, and the victim is left so only by a fault.                     *)
LeavesNoneBehind(h) ==
  /\ HalfRemoved' \subseteq HalfRemoved \cup {victim(h)}
  /\ \/ Fault
     \/ NoFault /\ (\/ victim(h) \notin HalfRemoved'
                    \/ Removing(h)' /\ victim(h)' = victim(h))

(* Such a step keeps the count. *)
LEMMA RemovingLeftover ==
  ASSUME TypeInv, TypeInv', LeftoverInv, NEW h \in Handler, Removing(h), LeavesNoneBehind(h)
  PROVE  LeftoverInv'
<1>1. Leftover = HalfRemoved \ {victim(h)}
  BY OneVictim DEF Leftover
<1>2. Leftover' \subseteq HalfRemoved' /\ HalfRemoved' \subseteq Leftover \cup {victim(h)}
  BY <1>1 DEF Leftover, LeavesNoneBehind
<1>3. CASE Fault
  BY <1>2, <1>3, LeftoverStep
<1>4. CASE NoFault /\ victim(h) \notin HalfRemoved'
  BY <1>2, <1>4, LeftoverStep
<1>5. CASE NoFault /\ Removing(h)' /\ victim(h)' = victim(h)
  <2>1. victim(h) \in CurrentVictims'
    BY <1>5 DEF CurrentVictims
  <2>2. Leftover' \subseteq Leftover
    BY <1>2, <2>1 DEF Leftover
  <2> QED
    BY <1>5, <2>2, LeftoverStep
<1> QED
  BY <1>3, <1>4, <1>5 DEF LeavesNoneBehind

(* While victims are sought nothing is touched. *)
LEMMA SeekingLeftover ==
  ASSUME TypeInv, TypeInv', LeftoverInv, RemovalInv, PoolRuns, NEW h \in Handler, Operation(h),
         ~Removing(h), ClusterRuns, NoFault \/ Fault
  PROVE  LeftoverInv'
<1>1. \A g \in Handler : ~Removing(g)
  BY OperationAlone DEF Removing, RemovingPC, UpdatingPC, PC
<1>2. Leftover = HalfRemoved
  BY <1>1, OneVictim DEF Leftover
<1>3. Leftover' \subseteq Leftover
  BY <1>2, HalfRemovedShrinks DEF Leftover
<1> QED
  BY <1>3, LeftoverStep

(* Before it is deleted a victim is half removed only by its taint. *)
LEMMA MarkUnschedulableLeaves ==
  ASSUME TypeInv, CandidateInv, RemovalInv, NEW h \in Handler, MarkUnschedulable(h)
  PROVE  Removing(h) /\ LeavesNoneBehind(h)
<1>1. /\ UNCHANGED <<poolVars, nodeState>> /\ pc[h] = "markUnschedulable"
      /\ KeepsVictims(h) /\ local'[h].i = local[h].i
      /\ tainted' \subseteq tainted \cup {victim(h)}
      /\ \/ Fault
         \/ NoFault /\ victim(h) \notin Registered /\ tainted' = tainted
         \/ NoFault /\ pc'[h] \in {"deleteNode", "evictPods"}
  BY MarkUnschedulableEffect, Zenon
<1>2. Removing(h)
  BY <1>1 DEF Removing, RemovingPC
<1>3. nodeState[victim(h)] # "deleted" /\ victim(h) \in Node
  <2>1. pc[h] \in RemovingPC
    BY <1>2 DEF Removing
  <2>2. /\ RemovalFits(h) /\ victim(h) \in Node /\ local[h].i \in DOMAIN local[h].queue
        /\ local[h].queue[local[h].i] = victim(h) /\ local[h].queue \in Seq(Node)
    BY <2>1, VictimFacts, Zenon
  <2> QED
    BY <1>1, <2>1, <2>2, Zenon DEF RemovalFits, ProgressFits, Present
<1>4. HalfRemoved' \subseteq HalfRemoved \cup {victim(h)}
  BY <1>1 DEF HalfRemoved, IsMachineAllocated, poolVars
<1>5. CASE NoFault /\ victim(h) \notin Registered /\ tainted' = tainted
  <2>1. victim(h) \notin HalfRemoved'
    BY <1>1, <1>3, <1>5 DEF HalfRemoved, RemovalInv, TaintsFit, Registered
  <2> QED
    BY <1>2, <1>4, <1>5, <2>1 DEF LeavesNoneBehind
<1>6. CASE NoFault /\ pc'[h] \in {"deleteNode", "evictPods"}
  <2>1. Removing(h)' /\ victim(h)' = victim(h)
    BY <1>1, <1>6 DEF Removing, RemovingPC, victim, KeepsVictims
  <2> QED
    BY <1>2, <1>4, <1>6, <2>1 DEF LeavesNoneBehind
<1> QED
  BY <1>1, <1>2, <1>4, <1>5, <1>6 DEF LeavesNoneBehind

(* An eviction leaves the node where it is, and it is still the victim. *)
LEMMA EvictOnePodLeaves ==
  ASSUME TypeInv, NEW h \in Handler, EvictOnePod(h)
  PROVE  Removing(h) /\ LeavesNoneBehind(h)
<1>1. /\ UNCHANGED <<poolVars, nodeState, tainted>> /\ pc[h] = "evictPods"
      /\ KeepsVictims(h) /\ local'[h].i = local[h].i /\ (NoFault \/ Fault)
      /\ pc'[h] \in {"deleteNode", "evictPods", "markSchedulable"}
  BY EvictOnePodEffect, Zenon
<1>2. Removing(h) /\ Removing(h)' /\ victim(h)' = victim(h)
  BY <1>1 DEF Removing, RemovingPC, victim, KeepsVictims
<1>3. HalfRemoved' = HalfRemoved
  BY <1>1 DEF HalfRemoved, IsMachineAllocated, poolVars
<1> QED
  BY <1>1, <1>2, <1>3 DEF LeavesNoneBehind

(* A drain that failed takes the taint back. *)
LEMMA MarkSchedulableLeaves ==
  ASSUME TypeInv, CandidateInv, RemovalInv, NEW h \in Handler, MarkSchedulable(h)
  PROVE  Removing(h) /\ LeavesNoneBehind(h)
<1>1. /\ UNCHANGED <<poolVars, nodeState>> /\ pc[h] = "markSchedulable"
      /\ tainted' \subseteq tainted
      /\ \/ Fault
         \/ /\ NoFault
            /\ tainted' = IF victim(h) \in Registered THEN tainted \ {victim(h)} ELSE tainted
  BY MarkSchedulableEffect
<1>2. Removing(h) /\ pc[h] \in RemovingPC
  BY <1>1 DEF Removing, RemovingPC
<1>3. nodeState[victim(h)] # "deleted" /\ victim(h) \in Node
  <2>1. /\ RemovalFits(h) /\ victim(h) \in Node /\ local[h].i \in DOMAIN local[h].queue
        /\ local[h].queue[local[h].i] = victim(h) /\ local[h].queue \in Seq(Node)
    BY <1>2, VictimFacts, Zenon
  <2> QED
    BY <1>1, <1>2, <2>1, Zenon DEF RemovalFits, ProgressFits, Present
<1>4. HalfRemoved' \subseteq HalfRemoved \cup {victim(h)}
  BY <1>1 DEF HalfRemoved, IsMachineAllocated, poolVars
<1>5. CASE /\ NoFault
           /\ tainted' = IF victim(h) \in Registered THEN tainted \ {victim(h)} ELSE tainted
  <2>1. victim(h) \notin tainted'
    BY <1>3, <1>5 DEF RemovalInv, TaintsFit, Registered
  <2>2. victim(h) \notin HalfRemoved'
    BY <1>1, <1>3, <2>1 DEF HalfRemoved
  <2> QED
    BY <1>2, <1>4, <1>5, <2>2 DEF LeavesNoneBehind
<1> QED
  BY <1>1, <1>2, <1>4, <1>5 DEF LeavesNoneBehind

(* From its deletion to the end of its machine the node stays the victim. *)
LEMMA DeleteNodeLeaves ==
  ASSUME TypeInv, CandidateInv, RemovalInv, NEW h \in Handler, DeleteNode(h)
  PROVE  Removing(h) /\ LeavesNoneBehind(h)
<1>1. /\ local'[h] = local[h] /\ UNCHANGED poolVars /\ pc[h] = "deleteNode"
      /\ tainted' \subseteq tainted
      /\ \A n \in Node \ {victim(h)} : nodeState'[n] = nodeState[n]
      /\ \/ Fault
         \/ NoFault /\ victim(h) \notin Registered /\ UNCHANGED kubeVars
         \/ NoFault /\ pc'[h] = "terminateMachine"
  BY DeleteNodeEffect DEF kubeVars
<1>2. Removing(h) /\ pc[h] \in RemovingPC
  BY <1>1 DEF Removing, RemovingPC
<1>3. nodeState[victim(h)] # "deleted" /\ victim(h) \in Node
  <2>1. /\ RemovalFits(h) /\ victim(h) \in Node /\ local[h].i \in DOMAIN local[h].queue
        /\ local[h].queue[local[h].i] = victim(h) /\ local[h].queue \in Seq(Node)
    BY <1>2, VictimFacts, Zenon
  <2> QED
    BY <1>1, <1>2, <2>1, Zenon DEF RemovalFits, ProgressFits, Present
<1>4. HalfRemoved' \subseteq HalfRemoved \cup {victim(h)}
  BY <1>1 DEF HalfRemoved, IsMachineAllocated, poolVars
<1>5. CASE NoFault /\ victim(h) \notin Registered /\ UNCHANGED kubeVars
  <2>1. victim(h) \notin HalfRemoved'
    BY <1>3, <1>5 DEF HalfRemoved, RemovalInv, TaintsFit, Registered, kubeVars
  <2> QED
    BY <1>2, <1>4, <1>5, <2>1 DEF LeavesNoneBehind
<1>6. CASE NoFault /\ pc'[h] = "terminateMachine"
  <2>1. Removing(h)' /\ victim(h)' = victim(h)
    BY <1>1, <1>6 DEF Removing, RemovingPC, victim
  <2> QED
    BY <1>2, <1>4, <1>6, <2>1 DEF LeavesNoneBehind
<1> QED
  BY <1>1, <1>2, <1>4, <1>5, <1>6 DEF LeavesNoneBehind

(* A machine that the pool has given up, or gives up now, does not count. *)
LEMMA TerminateMachineLeaves ==
  ASSUME TypeInv, CandidateInv, RemovalInv, NEW h \in Handler, TerminateMachine(h)
  PROVE  Removing(h) /\ LeavesNoneBehind(h)
<1> DEFINE m == externalID(victim(h))
<1>1. /\ UNCHANGED kubeVars /\ pc[h] = "terminateMachine"
      /\ \/ NoFault /\ machineState' = [machineState EXCEPT ![m] = "TERMINATING"]
         \/ NoFault /\ machineState' = machineState /\ ~IsMachineAllocated(m)
         \/ Fault /\ machineState' = machineState
  BY TerminateMachineEffect, Zenon
<1>2. Removing(h) /\ pc[h] \in RemovingPC
  BY <1>1 DEF Removing, RemovingPC
<1>3. nodeState[victim(h)] = "deleted" /\ victim(h) \in Node
  <2>1. /\ RemovalFits(h) /\ victim(h) \in Node /\ local[h].i \in DOMAIN local[h].queue
        /\ local[h].queue[local[h].i] = victim(h) /\ local[h].queue \in Seq(Node)
    BY <1>2, VictimFacts, Zenon
  <2>2. ProgressFits(h)
    BY <2>1, Zenon DEF RemovalFits
  <2>3. IF pc[h] = "terminateMachine" THEN nodeState[local[h].queue[local[h].i]] = "deleted"
        ELSE Present(local[h].queue[local[h].i])
    BY <1>2, <2>1, <2>2 DEF ProgressFits
  <2> QED
    BY <1>1, <2>1, <2>3
<1>4. /\ m \in Machine /\ machineState \in [Machine -> MachineState]
      /\ \A n \in Node : externalID(n) \in Machine
  BY <1>3, ExternalIDType DEF TypeInv, TypeOK, PoolTypeOK
<1>5. victim(h) \notin tainted'
  BY <1>1, <1>3 DEF RemovalInv, TaintsFit, kubeVars
<1> HIDE DEF m
<1>6. HalfRemoved' \subseteq HalfRemoved
  BY <1>1, <1>4 DEF HalfRemoved, IsMachineAllocated, kubeVars
<1>7. CASE NoFault /\ machineState' = [machineState EXCEPT ![m] = "TERMINATING"]
  <2>1. victim(h) \notin HalfRemoved'
    BY <1>4, <1>5, <1>7 DEF HalfRemoved, IsMachineAllocated, m
  <2> QED
    BY <1>2, <1>6, <1>7, <2>1 DEF LeavesNoneBehind
<1>8. CASE NoFault /\ machineState' = machineState /\ ~IsMachineAllocated(m)
  <2>1. victim(h) \notin HalfRemoved'
    BY <1>5, <1>8 DEF HalfRemoved, IsMachineAllocated, m
  <2> QED
    BY <1>2, <1>6, <1>8, <2>1 DEF LeavesNoneBehind
<1> QED
  BY <1>1, <1>2, <1>6, <1>7, <1>8 DEF LeavesNoneBehind

(* Every step keeps the count of the nodes left behind. *)
LEMMA NextLeftoverInv ==
  TypeInv /\ TypeInv' /\ CandidateInv /\ RemovalInv /\ LeftoverInv /\ [Next]_vars => LeftoverInv'
<1> SUFFICES ASSUME TypeInv, TypeInv', CandidateInv, RemovalInv, LeftoverInv, [Next]_vars
             PROVE  LeftoverInv'
  OBVIOUS
<1>1. PoolRuns
  BY PoolForward
<1>2. CASE Outside
  BY <1>1, <1>2, OutsideLeftover, LeftoverStep DEF Outside
<1>3. CASE Restart
  <2>1. HalfRemoved' = HalfRemoved /\ Fault
    BY <1>3 DEF Restart, HalfRemoved, IsMachineAllocated, kubeVars, poolVars
  <2>2. Leftover' \subseteq HalfRemoved
    BY <2>1 DEF Leftover
  <2>3. CASE \E h \in Handler : Removing(h)
    <3>1. PICK h \in Handler : Removing(h)
      BY <2>3
    <3>2. Leftover' \subseteq Leftover \cup {victim(h)}
      BY <2>2, <3>1, OneVictim DEF Leftover
    <3> QED
      BY <2>1, <3>2, LeftoverStep
  <2>4. CASE \A h \in Handler : ~Removing(h)
    <3>1. Leftover' \subseteq Leftover
      BY <2>2, <2>4, OneVictim DEF Leftover
    <3> QED
      BY <2>1, <3>1, LeftoverStep
  <2> QED
    BY <2>3, <2>4
<1>4. ASSUME NEW h \in Handler, Operation(h) PROVE LeftoverInv'
  <2>1. CASE \/ ListWorkerNodes(h) \/ GetMachinePool(h) \/ GetMachine(h)
             \/ CheckCandidate(h) \/ SelectVictims(h) \/ SetDesiredSize(h)
    <3>1. UNCHANGED kubeVars /\ (NoFault \/ Fault)
          /\ pc[h] \in {"listWorkerNodes", "getMachinePool", "getMachine", "checkCandidates",
                        "setDesiredSize"}
      <4>1. CASE SelectVictims(h)
        BY <4>1, SelectVictimsEffect, Zenon DEF NoFault
      <4> QED
        BY <2>1, <4>1, ListWorkerNodesEffect, GetMachinePoolEffect, GetMachineEffect,
           CheckCandidateEffect, SetDesiredSizeEffect, Zenon
    <3>2. ~Removing(h) /\ ClusterRuns
      BY <3>1, ClusterRests DEF Removing, RemovingPC
    <3> QED
      BY <1>1, <1>4, <3>1, <3>2, SeekingLeftover
  <2>2. CASE \/ MarkUnschedulable(h) \/ EvictOnePod(h) \/ MarkSchedulable(h)
             \/ DeleteNode(h) \/ TerminateMachine(h)
    <3>1. Removing(h) /\ LeavesNoneBehind(h)
      BY <2>2, MarkUnschedulableLeaves, EvictOnePodLeaves, MarkSchedulableLeaves,
         DeleteNodeLeaves, TerminateMachineLeaves
    <3> QED
      BY <3>1, RemovingLeftover
  <2> QED
    BY <1>4, <2>1, <2>2 DEF Operation
<1> QED
  BY <1>2, <1>3, <1>4, StepKinds

(* Each failed call or crash leaves at most one node half removed, beside  *)
(* the one that evictAndTerminate works on: every error path of            *)
(* evictAndTerminate that is not a fault has undone what came before it,   *)
(* or finds that there is nothing to undo.                                 *)
THEOREM EachFaultLeavesOneNode == Spec => []FaultsLeaveOneNodeEach
<1>1. Init => LeftoverInv
  <2> SUFFICES ASSUME Init PROVE LeftoverInv
    OBVIOUS
  <2>1. HalfRemoved = {}
    BY ProxyAssumption DEF Init, InitType, HalfRemoved
  <2>2. Leftover = {} /\ faults = 0
    BY <2>1 DEF Leftover, Init
  <2> QED
    BY <2>2, FS_EmptySet DEF LeftoverInv
<1>2. TypeInv /\ LeftoverInv => FaultsLeaveOneNodeEach
  <2> SUFFICES ASSUME TypeInv, LeftoverInv PROVE FaultsLeaveOneNodeEach
    OBVIOUS
  <2>1. /\ IsFiniteSet(HalfRemoved) /\ IsFiniteSet(Leftover) /\ Cardinality(Leftover) \in Nat
        /\ faults \in Nat
    BY LeftoverFinite, ProxyAssumption DEF TypeInv, TypeOK
  <2>2. CASE \A h \in Handler : ~Removing(h)
    <3>1. Leftover = HalfRemoved /\ {h \in Handler : Removing(h)} = {}
      BY <2>2, OneVictim DEF Leftover
    <3>2. Cardinality({h \in Handler : Removing(h)}) = 0
      BY <3>1, FS_EmptySet
    <3> QED
      BY <2>1, <3>1, <3>2 DEF LeftoverInv, FaultsLeaveOneNodeEach
  <2>3. ASSUME NEW h \in Handler, Removing(h) PROVE FaultsLeaveOneNodeEach
    <3>1. /\ HalfRemoved \subseteq Leftover \cup {victim(h)}
          /\ {g \in Handler : Removing(g)} = {h}
      BY <2>3, OneVictim DEF Leftover
    <3>2. Cardinality(HalfRemoved) <= Cardinality(Leftover) + 1
      BY <2>1, <3>1, OneMore, Zenon
    <3>3. Cardinality(HalfRemoved) \in Nat
      BY <2>1, FS_CardinalityType
    <3>4. Cardinality({g \in Handler : Removing(g)}) = 1
      BY <3>1, FS_Singleton
    <3> QED
      BY <2>1, <3>2, <3>3, <3>4 DEF LeftoverInv, FaultsLeaveOneNodeEach
  <2> QED
    BY <2>2, <2>3
<1> QED
  BY <1>1, <1>2, RemovalInvariant, NextLeftoverInv, PTL DEF Spec
=============================================================================
