----------------------------- MODULE Difficulty -----------------------------
(* next_difficulty (difficulty.cpp): work over time in a window whose       *)
(* outlying timestamps are cut.  The 128 bits of a difficulty do not        *)
(* overflow in the instances.                                               *)
EXTENDS Median

CONSTANTS DIFFICULTY_WINDOW, DIFFICULTY_LAG, DIFFICULTY_CUT, DIFFICULTY_TARGET

ASSUME DifficultyAssumption ==
  /\ {DIFFICULTY_WINDOW, DIFFICULTY_LAG, DIFFICULTY_CUT, DIFFICULTY_TARGET} \subseteq Nat
  /\ DIFFICULTY_WINDOW >= 2 /\ 2 * DIFFICULTY_CUT <= DIFFICULTY_WINDOW - 2

DIFFICULTY_BLOCKS_COUNT == DIFFICULTY_WINDOW + DIFFICULTY_LAG

(* timestamps and cumulative difficulties, oldest first: the youngest        *)
(* DIFFICULTY_LAG are left out.                                              *)
next_difficulty(timestamps, difficulties) ==
  LET length == IF Len(timestamps) > DIFFICULTY_WINDOW THEN DIFFICULTY_WINDOW ELSE Len(timestamps)
      sorted == sort(SubSeq(timestamps, 1, length))
      kept == DIFFICULTY_WINDOW - 2 * DIFFICULTY_CUT
      cut_begin == IF length <= kept THEN 0 ELSE (length - kept + 1) \div 2
      cut_end == IF length <= kept THEN length ELSE cut_begin + kept
      span == sorted[cut_end] - sorted[cut_begin + 1]
      time_span == IF span = 0 THEN 1 ELSE span
      total_work == difficulties[cut_end] - difficulties[cut_begin + 1]
  IN IF length <= 1 THEN 1
     ELSE (total_work * DIFFICULTY_TARGET + time_span - 1) \div time_span
=============================================================================
