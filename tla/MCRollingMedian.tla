-------------------------- MODULE MCRollingMedian --------------------------
(* Six slots: an even capacity, as the real one, with a value that has two  *)
(* children in the max heap and one that has one in the min heap.           *)
EXTENDS RollingMedian
=============================================================================
