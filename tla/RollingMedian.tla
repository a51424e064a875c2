--------------------------- MODULE RollingMedian ---------------------------
(* rolling_median_t (contrib/epee/include/rolling_median.h): a circular     *)
(* queue of values and, around the median at heap[0], a heap of the larger  *)
(* ones at the positive indexes and of the smaller ones at the negative.    *)
(* The long term block weight median is kept in one.                        *)
EXTENDS Integers, Sequences

CONSTANTS N, Values

ASSUME CapacityAssumption == N \in Nat \ {0}
ASSUME ValuesAssumption == Values \subseteq Nat

VARIABLES data,     \* circular queue of values; malloc leaves garbage in it
          pos,      \* index into heap for each value
          heap,     \* indexes into data, arranged by value
          idx,      \* position in the circular queue
          minCt,    \* count of items in the min heap
          maxCt,    \* count of items in the max heap
          sz        \* count of items

vars == <<data, pos, heap, idx, minCt, maxCt, sz>>

Slots == 0..(N - 1)
HeapIndex == (-(N \div 2))..((N - 1) \div 2)

(* Integer division of C++, towards zero. *)
half(i) == IF i < 0 THEN -((-i) \div 2) ELSE i \div 2

(* Where clear() puts slot n: median, max, min, max, min... *)
fill(n) == ((n + 1) \div 2) * (IF n % 2 = 1 THEN -1 ELSE 1)
-----------------------------------------------------------------------------
(* The heap operations work on r, a record of data, pos, heap and counts.   *)
mmless(r, i, j) == r.data[r.heap[i]] < r.data[r.heap[j]]

mmexchange(r, i, j) ==
  [r EXCEPT !.heap[i] = r.heap[j], !.heap[j] = r.heap[i],
            !.pos[r.heap[j]] = i, !.pos[r.heap[i]] = j]

(* Restores the min heap below i. *)
RECURSIVE minSortDown(_, _)
minSortDown(r, i) ==
  LET k == IF 2 * i < r.minCt /\ mmless(r, 2 * i + 1, 2 * i) THEN 2 * i + 1 ELSE 2 * i
  IN IF 2 * i <= r.minCt /\ mmless(r, k, half(k))
     THEN minSortDown(mmexchange(r, k, half(k)), k)
     ELSE r

(* Restores the max heap below i, a negative index. *)
RECURSIVE maxSortDown(_, _)
maxSortDown(r, i) ==
  LET k == IF 2 * i > -r.maxCt /\ mmless(r, 2 * i, 2 * i - 1) THEN 2 * i - 1 ELSE 2 * i
  IN IF 2 * i >= -r.maxCt /\ mmless(r, half(k), k)
     THEN maxSortDown(mmexchange(r, half(k), k), k)
     ELSE r

(* Restores the min heap above i, the median included; top: it got there. *)
RECURSIVE minSortUp(_, _)
minSortUp(r, i) ==
  IF i > 0 /\ mmless(r, i, half(i))
  THEN minSortUp(mmexchange(r, i, half(i)), half(i))
  ELSE [r |-> r, top |-> i = 0]

RECURSIVE maxSortUp(_, _)
maxSortUp(r, i) ==
  IF i < 0 /\ mmless(r, half(i), i)
  THEN maxSortUp(mmexchange(r, half(i), i), half(i))
  ELSE [r |-> r, top |-> i = 0]

(* A value has come to slot position p of the min heap. *)
insert_min(r, p, v, old) ==
  LET grown == r.minCt < (N - 1) \div 2
      r1 == IF grown THEN [r EXCEPT !.minCt = @ + 1] ELSE r
      up == minSortUp(r1, p)
  IN IF ~grown /\ v > old THEN minSortDown(r1, p)
     ELSE IF up.top /\ mmless(up.r, 0, -1)
          THEN maxSortDown(mmexchange(up.r, 0, -1), -1)
          ELSE up.r

insert_max(r, p, v, old) ==
  LET grown == r.maxCt < N \div 2
      r1 == IF grown THEN [r EXCEPT !.maxCt = @ + 1] ELSE r
      up == maxSortUp(r1, p)
  IN IF ~grown /\ v < old THEN maxSortDown(r1, p)
     ELSE IF up.top /\ up.r.minCt > 0 /\ mmless(up.r, 1, 0)
          THEN minSortDown(mmexchange(up.r, 1, 0), 1)
          ELSE up.r

(* Mutant: stops once the new median has been compared with the smaller half. *)
insert_mid_max_only(r) ==
  LET up == maxSortUp(r, -1)
  IN IF r.maxCt = 0 THEN r ELSE IF up.top THEN maxSortDown(up.r, -1) ELSE up.r

(* A value has come to the median's place. *)
insert_mid(r) ==
  LET up == maxSortUp(r, -1)
      r1 == IF r.maxCt = 0 THEN r ELSE IF up.top THEN maxSortDown(up.r, -1) ELSE up.r
      up1 == minSortUp(r1, 1)
  IN IF r1.minCt = 0 THEN r1 ELSE IF up1.top THEN minSortDown(up1.r, 1) ELSE up1.r

-----------------------------------------------------------------------------
(* The count of items after an insertion. *)
grow(n) == IF n < N THEN n + 1 ELSE N

clear == /\ idx' = 0 /\ minCt' = 0 /\ maxCt' = 0 /\ sz' = 0
         /\ pos' = [n \in Slots |-> fill(n)]
         /\ heap' = [i \in HeapIndex |-> CHOOSE n \in Slots : fill(n) = i]
         /\ UNCHANGED data

insert(v) ==
  LET p == pos[idx]
      old == data[idx]
      r == [data |-> [data EXCEPT ![idx] = v], pos |-> pos, heap |-> heap,
            minCt |-> minCt, maxCt |-> maxCt]
      done == IF p > 0 THEN insert_min(r, p, v, old)
              ELSE IF p < 0 THEN insert_max(r, p, v, old)
              ELSE insert_mid(r)
  IN /\ data' = done.data /\ pos' = done.pos /\ heap' = done.heap
     /\ minCt' = done.minCt /\ maxCt' = done.maxCt
     /\ idx' = (idx + 1) % N
     /\ sz' = grow(sz)

median ==
  IF minCt < maxCt
  THEN (data[heap[0]] + data[heap[-1]]) \div 2
  ELSE data[heap[0]]

(* malloc, then clear(). *)
Init == /\ data \in [Slots -> Values]
        /\ pos = [n \in Slots |-> fill(n)]
        /\ heap = [i \in HeapIndex |-> CHOOSE n \in Slots : fill(n) = i]
        /\ idx = 0 /\ minCt = 0 /\ maxCt = 0 /\ sz = 0

Next == clear \/ \E v \in Values : insert(v)

Spec == Init /\ [][Next]_vars
-----------------------------------------------------------------------------
(* The window the object stands for: the last sz values of the queue, oldest *)
(* first.                                                                    *)
Contents == [k \in 1..sz |-> data[(idx + N - sz + k - 1) % N]]

(* A rolling_median_t is a window median, whatever values are inserted, in   *)
(* whatever order, before and after the window is full and after clear(),    *)
(* and whatever malloc left in the queue: the circular queue holds the last  *)
(* N values and median() is their median.                                    *)
W == INSTANCE WindowMedian WITH window <- Contents, answer <- median
IsWindowMedian == W!Spec
=============================================================================
