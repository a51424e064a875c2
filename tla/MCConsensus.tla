---------------------------- MODULE MCConsensus ----------------------------
(* The fork table of the first release has version 2 from height 1 on, as   *)
(* version 15 in the real one; the next release adds version 3.             *)
EXTENDS ConsensusState

(* The fees grow with the weight. *)
MCBlock(v, vote, w, ts, bad) ==
  [v |-> v, vote |-> vote, ts |-> ts, w |-> w, fee |-> w \div 2, bad |-> bad]
MCGenesis == MCBlock(1, 1, 1, 0, 0)
Entry(v, h) == [version |-> v, height |-> h, threshold |-> 0]
OldTable == <<Entry(1, 0), Entry(2, 1)>>
NewTable == <<Entry(1, 0), Entry(2, 1), Entry(3, 2)>>
TwoReleases == <<OldTable, NewTable>>

(* Blocks of both versions with timestamps out of order.  The heavy ones    *)
(* are valid only on top of other heavy ones.  One pays out 12 too much:    *)
(* what it may pay out by a median of 4, where the median is smaller.       *)
MCBlocks == {MCBlock(2, 2, 4, 1, 0), MCBlock(2, 3, 6, 1, 12),
             MCBlock(3, 3, 4, 4, 0), MCBlock(3, 3, 8, 1, 0)}
=============================================================================
