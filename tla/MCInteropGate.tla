----------------------------- MODULE MCInteropGate -----------------------------
EXTENDS InteropGate

(* One topic with both offers and an echo, one with a rate, as /carla/map  *)
(* and the point cloud in expected_topics.yaml.                            *)
MCSpecs == <<{"durability", "reliability", "echo"}, {"reliability", "echo", "rate"}>>

Pub(meets) == [pub |-> TRUE, meets |-> meets]
Sub(meets) == [pub |-> FALSE, meets |-> meets]
On(type, ends) == [type |-> type, ends |-> ends]

(* Nobody; a subscriber alone; a right and a wrong publisher in either     *)
(* order; two that are right only together; behind a subscriber; the wrong *)
(* type.                                                                   *)
MCGraphs == {On(TRUE, <<>>), On(TRUE, <<Sub(Offers)>>), On(TRUE, <<Pub(Offers)>>),
             On(TRUE, <<Pub(Offers), Pub({})>>), On(TRUE, <<Pub({}), Pub(Offers)>>),
             On(TRUE, <<Pub({"durability"}), Pub({"reliability"})>>),
             On(TRUE, <<Sub(Offers), Pub({"reliability"})>>), On(FALSE, <<Pub(Offers)>>)}
===============================================================================
