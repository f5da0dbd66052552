---------------------------- MODULE MCSessionView ----------------------------
(* Both image locations with and without blur, all three scrollbar        *)
(* positions, the special and a file bell sound, one tab name, two titles; *)
(* wheel deltas of both signs, up to two deltas' worth per axis.           *)
EXTENDS SessionView

MCDeltas == {-120, 120}

MCImages == {[location |-> "path", opacity |-> 5, blur |-> TRUE],
             [location |-> "data", opacity |-> 5, blur |-> FALSE]}
====
