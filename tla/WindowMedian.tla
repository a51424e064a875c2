---------------------------- MODULE WindowMedian ----------------------------
(* What a rolling median promises: it behaves as the list of the last N     *)
(* values inserted since it was cleared, and it answers with their median.  *)
EXTENDS Median

CONSTANTS N,        \* capacity of the window, at least 1
          Values    \* numbers that may be inserted

VARIABLES window,   \* the values in the window, oldest first
          answer    \* what median() returns

Init == window = << >> /\ answer \in Values

Insert(v) == /\ window' = push(window, v, N)
             /\ answer' = median(window')

(* The median of an empty window is nobody's business. *)
Clear == window' = << >> /\ answer' \in Values

Next == Clear \/ \E v \in Values : Insert(v)

Spec == Init /\ [][Next]_<<window, answer>>
=============================================================================
