------------------------------- MODULE MCApp -------------------------------
(* Instances of the example for TLC. *)
EXTENDS XrtAppInvariant, MCXrt

Order2 == <<"t1", "t2">>
\* Two functions that share no LED of their own, one of them the odd one.
FirstAndFifth == [t \in Thread |-> IF t = "t1" THEN 1 ELSE 5]
=============================================================================
