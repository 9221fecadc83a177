------------------------------ MODULE MCProxy ------------------------------
(***************************************************************************)
(* Small clusters for TLC: a master and up to three workers, each worker   *)
(* on a machine of its own.                                                *)
(***************************************************************************)
EXTENDS ProxyProperties, TLC

MCNode == {"master", "n1", "n2", "n3"}
MCMachine == {"i0", "i1", "i2", "i3"}

machineOf == ("master" :> "i0") @@ ("n1" :> "i1") @@ ("n2" :> "i2") @@ ("n3" :> "i3")

Worker(n) ==
  [externalID |-> machineOf[n], allocatable |-> [cpu |-> 2, memory |-> 2],
   labels |-> <<>>, taints |-> {}, annotation |-> FALSE,
   ready |-> TRUE, unschedulable |-> FALSE]

(* The master takes no ordinary pods. *)
PlainNodes == [n \in MCNode |-> [Worker(n) EXCEPT !.unschedulable = (n = "master")]]
(* Nodes with room for everything, and the scale-down-disabled annotation  *)
(* on one of them.                                                         *)
AnnotatedNodes ==
  [n \in MCNode |-> [PlainNodes[n] EXCEPT !.allocatable = [cpu |-> 5, memory |-> 5],
                                          !.annotation = (n = "n2")]]

(* A pod of a replica set that asks for one unit of each resource. *)
Replica(name) ==
  [name |-> name, ns |-> "default", phase |-> "Running",
   containers |-> <<[cpu |-> 1, memory |-> 1]>>, nodeSelector |-> <<>>,
   affinity |-> {}, tolerations |-> {}, labels |-> [app |-> name],
   localStorage |-> FALSE, owners |-> <<"true">>,
   component |-> "", apiServerOf |-> ""]

APIServer ==
  [Replica("kube-apiserver-master") EXCEPT
     !.ns = "kube-system", !.owners = <<>>, !.apiServerOf = "master"]

(* Every kind of pod that a node can host.  p2 is covered by a budget. *)
AnyPodSpec ==
  [api     |-> APIServer,
   p1      |-> Replica("p1"),
   p2      |-> Replica("p2"),
   local   |-> [Replica("local") EXCEPT !.localStorage = TRUE],
   bare    |-> [Replica("bare") EXCEPT !.owners = <<"false">>],
   nilref  |-> [Replica("nilref") EXCEPT !.owners = <<"false", "nil">>],
   done    |-> [Replica("done") EXCEPT !.phase = "Succeeded", !.owners = <<>>]]

PodsOne == {"api", "p1"}
PodsTwo == {"api", "p1", "p2"}
PodsMixed == {"api", "p1", "local", "bare", "nilref", "done"}
SpecOf(pods) == [p \in pods |-> AnyPodSpec[p]]
SpecOne == SpecOf(PodsOne)
SpecTwo == SpecOf(PodsTwo)
SpecMixed == SpecOf(PodsMixed)

MCPDBs == {[selector |-> [app |-> "p2"], valid |-> TRUE, allowed |-> 1]}

SetSize(n) ==
  [op |-> "setDesiredSize", present |-> TRUE, size |-> n, machine |-> "i1", decrement |-> FALSE]
Terminate(m, decrement) ==
  [op |-> "terminateMachine", present |-> TRUE, size |-> 0, machine |-> m, decrement |-> decrement]
Other(m) ==
  [op |-> "forward", present |-> TRUE, size |-> 0, machine |-> m, decrement |-> FALSE]

RequestScaleDown == {SetSize(1), Terminate("i1", TRUE)}
RequestChurn == {SetSize(2), Terminate("i1", FALSE), Other("i2")}
RequestAny ==
  {SetSize(0), SetSize(-1), Terminate("i1", TRUE), Terminate("i3", TRUE), Other("i3")}
RequestRemoveTwo == {SetSize(0)}
RequestRemoveOne == {SetSize(1)}
RequestKeepTwo == {SetSize(2)}

(* A cluster in which the given workers are registered, the machines of    *)
(* all workers but the missing ones run, and the pods are where host says. *)
Cluster(workers, missing, hostOf) ==
  [nodeState |-> [n \in MCNode |-> IF n \in workers \cup {"master"} THEN "registered"
                                   ELSE "unregistered"],
   host |-> hostOf,
   machineState |-> [m \in MCMachine |-> IF m \in missing THEN "NONE" ELSE "RUNNING"],
   active |-> MCMachine \ ({"i0"} \cup missing),
   evictable |-> MCMachine \ ({"i0"} \cup missing),
   desiredSize |-> 3 - Cardinality(missing)]

HostTwo == [api |-> "master", p1 |-> "n1", p2 |-> "n2"]
HostOne == [api |-> "master", p1 |-> "n1"]

(* Three workers, with a pod on one or two of them; two workers. *)
InitOne == {Cluster({"n1", "n2", "n3"}, {}, HostOne)}
InitTwo == {Cluster({"n1", "n2", "n3"}, {}, HostTwo)}
InitSmall == {Cluster({"n1", "n2"}, {"i3"}, HostOne)}
(* The pool is about to launch a third machine. *)
InitChurn == {[Cluster({"n1", "n2"}, {"i3"}, HostOne) EXCEPT !.desiredSize = 3]}
(* The third machine boots, and its node has not joined yet. *)
InitBooting ==
  {[Cluster({"n1", "n2"}, {}, HostOne) EXCEPT !.machineState["i3"] = "PENDING"]}
(* Every placement of the pods on n1 and n2; n3 is not in the pool. *)
InitMixed ==
  {Cluster({"n1", "n2", "n3"}, {"i3"}, [p \in PodsMixed |-> IF p = "api" THEN "master" ELSE f[p]]) :
     f \in [PodsMixed \ {"api"} -> {"n1", "n2"}]}
InitNilRef == {s \in InitMixed : \A p \in PodsMixed \ {"api"} : s.host[p] = "n1"}

Handlers == Permutations(Handler)
=============================================================================
