--------------------------- MODULE GracefulRemoval ---------------------------
(***************************************************************************)
(* What the proxy promises about taking nodes down, without handlers,      *)
(* calls or faults: one node at a time is being taken down; it is first    *)
(* made unschedulable, then deleted from the cluster, and only then is its *)
(* machine given up: the backend is not even asked to terminate it before. *)
(* The proxy turns to a further node only when the machine of the one      *)
(* before it is given up.  It may abandon a removal at any point and take  *)
(* a node that was abandoned up again.                                     *)
(***************************************************************************)
CONSTANTS
  Node,
  NoVictim    \* no node is being taken down

VARIABLES
  stage,      \* stage[n]: how far on its way out node n is
  current,    \* the node that is being taken down
  asking      \* the node whose machine the backend is asked to terminate

(* "lost": the cluster dropped the node because its machine had died. *)
Stage == {"out", "serving", "cordoned", "deleted", "released", "lost"}

Move(n, from, to) ==
  /\ stage[n] \in from
  /\ \E s \in to : stage' = [stage EXCEPT ![n] = s]

Init ==
  /\ stage \in [Node -> {"out", "serving"}]
  /\ current = NoVictim
  /\ asking = NoVictim

Join(n) == Move(n, {"out"}, {"serving"}) /\ UNCHANGED <<current, asking>>

Lose(n) == Move(n, {"serving", "cordoned"}, {"lost"}) /\ UNCHANGED <<current, asking>>

Begin(n) == current = NoVictim /\ current' = n /\ UNCHANGED <<stage, asking>>

Abandon ==
  /\ current # NoVictim
  /\ current' = NoVictim
  /\ asking' = NoVictim
  /\ UNCHANGED stage

Cordon(n) ==
  /\ current = n
  /\ Move(n, {"serving"}, {"cordoned"})
  /\ current' \in {n, NoVictim}
  /\ UNCHANGED asking

Uncordon(n) ==
  /\ current = n
  /\ Move(n, {"cordoned"}, {"serving"})
  /\ current' = NoVictim
  /\ UNCHANGED asking

(* Only now is the backend asked for the machine, unless the removal is    *)
(* abandoned.  A machine that is already on its way out, by no request of  *)
(* the proxy's, is released with the node.                                 *)
Delete(n) ==
  /\ current = n
  /\ Move(n, {"cordoned"}, {"deleted", "released"})
  /\ current' \in {n, NoVictim}
  /\ asking' = current'

(* The machine of a deleted node goes: because the proxy asked for it, and *)
(* then the next node has its turn; or by a late answer to an earlier try. *)
Release(n) ==
  /\ Move(n, {"deleted"}, {"released"})
  /\ \/ UNCHANGED <<current, asking>>
     \/ /\ current = n /\ asking = n
        /\ current' \in Node \cup {NoVictim} /\ asking' = NoVictim

Next ==
  \/ Abandon
  \/ \E n \in Node :
       Join(n) \/ Lose(n) \/ Begin(n) \/ Cordon(n) \/ Uncordon(n) \/ Delete(n) \/ Release(n)

Spec == Init /\ [][Next]_<<stage, current, asking>>
=============================================================================
