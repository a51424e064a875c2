---------------------------- MODULE MCBlockQueue ----------------------------
(* Two peers' chains that fork after the first block, three heights, two    *)
(* connections: spans can overlap, collide on their start and hold blocks   *)
(* of different branches.                                                   *)
EXTENDS BlockQueue, TLC

CONSTANTS c1, c2, a1, a2, a3, b2, b3

MCHash == {a1, a2, a3, b2, b3}

MCParts(ch) ==
    UNION {{[last |-> l, hashes |-> SubSeq(ch, f, l)] : f \in 1 .. l} : l \in 1 .. Len(ch)}

MCSegments == c1 :> MCParts(<<a1, a2, a3>>) @@ c2 :> MCParts(<<a1, b2, b3>>)

MCSeed == c1 :> 0 @@ c2 :> 1

(* The stripe arithmetic against its meaning, with stripes of three blocks, *)
(* four stripes and a tip of four blocks, over three cycles.                *)
P == INSTANCE Pruning WITH StripeSize <- 3, LogStripes <- 2, TipBlocks <- 4

ASSUME \A chain_height \in 1 .. 40 : \A height \in 0 .. chain_height - 1 : \A seed \in P!Seeds :
           /\ P!NextUnprunedIsFirst(height, chain_height, seed)
           /\ P!NextPrunedEndsRun(height, chain_height, seed)
=============================================================================
