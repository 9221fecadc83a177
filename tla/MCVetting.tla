------------------------------ MODULE MCVetting ------------------------------
(***************************************************************************)
(* Small clusters for TLC: the node to vet and three others, one of which  *)
(* may be the master or may join late.                                     *)
(***************************************************************************)
EXTENDS Vetting, TLC

MCNode == {"v", "a", "b", "m"}

(* Room for one pod on a and on b. *)
MCNodeSpec ==
  [n \in MCNode |->
     [allocatable |-> IF n = "v" THEN [cpu |-> 2, memory |-> 2] ELSE [cpu |-> 1, memory |-> 1],
      labels |-> <<>>, taints |-> {}, annotation |-> FALSE, ready |-> TRUE,
      unschedulable |-> FALSE]]

Replica(name) ==
  [name |-> name, ns |-> "default", phase |-> "Running",
   containers |-> <<[cpu |-> 1, memory |-> 1]>>, nodeSelector |-> <<>>,
   affinity |-> {}, tolerations |-> {}, labels |-> <<>>,
   localStorage |-> FALSE, owners |-> <<"true">>, component |-> "", apiServerOf |-> ""]

(* p1 and p2 are to be evacuated; q is replaced by its successor r. *)
MCPod == {"api", "p1", "p2", "q", "r"}
MCPodSpec ==
  [p \in MCPod |-> IF p = "api" THEN [Replica(p) EXCEPT !.ns = "kube-system", !.owners = <<>>,
                                                        !.component = "kube-apiserver"]
                   ELSE Replica(p)]

Hosts(p1, p2, q, r) ==
  ("api" :> "m") @@ ("p1" :> p1) @@ ("p2" :> p2) @@ ("q" :> q) @@ ("r" :> r)

Cluster(registered, isReady, isAnnotated, hosts) ==
  [nodes |-> registered, ready |-> isReady, annotated |-> isAnnotated, host |-> hosts,
   leaving |-> {p \in {"q"} : hosts[p] # "none"}]

(* b may join; a may be unready or in use, v may be protected. *)
Churn ==
  {Cluster({"v", "a", "m"}, r, an, Hosts("v", "none", q, "none")) :
     r \in {MCNode, MCNode \ {"a"}}, an \in {{}, {"v"}}, q \in {"a", "none"}}

(* q has been replaced by r, which is not bound yet, and is about to stop. *)
RollingUpdate == {Cluster(MCNode, MCNode, {}, Hosts("v", "v", "b", "none"))}

Clusters == Churn \cup RollingUpdate
=============================================================================
