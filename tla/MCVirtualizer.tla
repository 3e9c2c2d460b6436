--------------------------- MODULE MCVirtualizer ---------------------------
(* Instances of Virtualizer: a list of three items that loses its first, or  *)
(* all, and gets them back, in one lane or two.                              *)
EXTENDS Virtualizer

MCLists == {[count |-> 3, first |-> 0], [count |-> 2, first |-> 1],
            [count |-> 0, first |-> 0]}

MCFirstLists == {[count |-> 3, first |-> 0]}

MCRestored == {[k \in Keys |-> None]}

MCHeights == {[k \in Keys |-> IF k = 1 THEN 3 ELSE 1]}

MCMoves == [l \in {1, 2} |-> 3 - l]
============================================================================
