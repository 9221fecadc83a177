------------------------------ MODULE CloudPool ------------------------------
(***************************************************************************)
(* The backend cloudpool (an external REST service, modelled from how      *)
(* pkg/cloudpool and pkg/proxy use it) and the machine predicates of       *)
(* pkg/cloudpool/functions.go.  A call to it may time out at the proxy     *)
(* (client.go sets a timeout on every request) while the backend still     *)
(* carries it out later: such calls wait in the variable delayed.          *)
(***************************************************************************)
EXTENDS Integers, FiniteSets

CONSTANT Machine    \* machine identifiers

VARIABLES
  machineState,  \* machineState[m]: a state, "NONE" when m is not in the pool
  active,        \* the machines with membershipStatus.active
  evictable,     \* the machines with membershipStatus.evictable
  desiredSize,
  delayed        \* calls that the proxy gave up on, still to be carried out

poolVars == <<machineState, active, evictable, desiredSize, delayed>>

MachineState ==
  {"NONE", "REQUESTED", "PENDING", "RUNNING", "TERMINATING", "TERMINATED"}

Call == [op : {"terminate"}, machine : Machine, decrement : BOOLEAN]
          \cup [op : {"setSize"}, size : Nat]

PoolTypeOK ==
  /\ machineState \in [Machine -> MachineState]
  /\ active \subseteq Machine
  /\ evictable \subseteq Machine
  /\ desiredSize \in Nat
  /\ delayed \subseteq Call

InPool == {m \in Machine : machineState[m] # "NONE"}

IsMachineAllocated(m) == machineState[m] \in {"REQUESTED", "PENDING", "RUNNING"}

IsMachineActive(m) == IsMachineAllocated(m) /\ m \in active

ActiveMachines == {m \in Machine : IsMachineActive(m)}

-----------------------------------------------------------------------------
(* The effects of the calls that change the pool.                          *)

Accepts(call) == call.op = "terminate" => IsMachineAllocated(call.machine)

CarryOut(call) ==
  /\ Accepts(call)
  /\ \/ /\ call.op = "terminate"
        /\ machineState' = [machineState EXCEPT ![call.machine] = "TERMINATING"]
        /\ desiredSize' = IF call.decrement /\ desiredSize > 0
                          THEN desiredSize - 1 ELSE desiredSize
     \/ /\ call.op = "setSize"
        /\ desiredSize' = call.size
        /\ UNCHANGED machineState
  /\ UNCHANGED <<active, evictable>>

Delay(call) ==
  /\ delayed' = delayed \cup {call}
  /\ UNCHANGED <<machineState, active, evictable, desiredSize>>

(* A client sets the membership status of a machine. *)
SetMembership(m, isActive, isEvictable) ==
  /\ m \in InPool
  /\ active' = IF isActive THEN active \cup {m} ELSE active \ {m}
  /\ evictable' = IF isEvictable THEN evictable \cup {m} ELSE evictable \ {m}
  /\ UNCHANGED <<machineState, desiredSize, delayed>>

-----------------------------------------------------------------------------
(* What the backend does by itself.                                        *)

(* A delayed call arrives; one the backend does not accept is dropped. *)
DelayedCallArrives(call) ==
  /\ call \in delayed
  /\ delayed' = delayed \ {call}
  /\ \/ CarryOut(call)
     \/ ~Accepts(call) /\ UNCHANGED <<machineState, active, evictable, desiredSize>>

Launch(m) ==
  /\ machineState[m] = "NONE"
  /\ Cardinality(ActiveMachines) < desiredSize
  /\ machineState' = [machineState EXCEPT ![m] = "REQUESTED"]
  /\ active' = active \cup {m}
  /\ evictable' = evictable \cup {m}
  /\ UNCHANGED <<desiredSize, delayed>>

MachineAdvances(m) ==
  /\ \/ /\ machineState[m] = "REQUESTED"
        /\ machineState' = [machineState EXCEPT ![m] = "PENDING"]
     \/ /\ machineState[m] = "PENDING"
        /\ machineState' = [machineState EXCEPT ![m] = "RUNNING"]
     \/ /\ machineState[m] = "TERMINATING"
        /\ machineState' = [machineState EXCEPT ![m] = "TERMINATED"]
  /\ UNCHANGED <<active, evictable, desiredSize, delayed>>

(* With more active machines than desired the backend terminates one of    *)
(* the evictable ones, of its own choice.                                  *)
ScaleIn(m) ==
  /\ Cardinality(ActiveMachines) > desiredSize
  /\ IsMachineActive(m) /\ m \in evictable
  /\ machineState' = [machineState EXCEPT ![m] = "TERMINATING"]
  /\ UNCHANGED <<active, evictable, desiredSize, delayed>>
=============================================================================
