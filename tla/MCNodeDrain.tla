---------------------------- MODULE MCNodeDrain ----------------------------
(***************************************************************************)
(* Small drains for TLC: two victims and a node that remains.              *)
(***************************************************************************)
EXTENDS NodeDrain

BothVictims == <<"v1", "v2">>

(* The stateful pod p1 on the first victim and p2 anywhere, or the two on  *)
(* the two victims the other way round.                                    *)
Placements ==
  {h \in [Pod -> Node] : h["p1"] = "v1" \/ (h["p1"] = "v2" /\ h["p2"] = "v1")}

AnyAllowance == 0..2
=============================================================================
