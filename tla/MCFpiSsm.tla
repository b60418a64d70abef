------------------------------ MODULE MCFpiSsm ------------------------------
EXTENDS FpiSsm

CONSTANTS root, sub, leaf, e1, e2

(* A machine with two cleanup states, its sub-machine and a leaf with one.     *)
ThreeMachines    == {root, sub, leaf}
ThreeParents     == [m \in {sub, leaf} |-> IF m = sub THEN root ELSE sub]
ThreeNrStates    == [m \in ThreeMachines |-> CASE m = root -> 4 [] m = sub -> 3 [] OTHER -> 2]
ThreeStartCleanup == [m \in ThreeMachines |-> IF m = leaf THEN 1 ELSE 2]

(* Jumps among the states before the cleanup, and to its start.                *)
OrderlyJumps     == [m \in ThreeMachines |-> CASE m = root -> {<<1, 0>>, <<0, 2>>}
                                                [] m = sub  -> {<<0, 0>>, <<1, 0>>}
                                                [] OTHER    -> {<<0, 1>>}]
=============================================================================
