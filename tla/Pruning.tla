------------------------------ MODULE Pruning ------------------------------
(***************************************************************************)
(* The stripe arithmetic of src/common/pruning.cpp.  The chain is cut into *)
(* stripes of StripeSize blocks; a pruned node keeps the full data of one  *)
(* stripe out of 2^LogStripes, and of the TipBlocks last blocks.  A node's *)
(* pruning seed packs its stripe number and the number of stripes; every   *)
(* node of the network uses the same number of stripes, so a seed is       *)
(* represented by its stripe, 0 standing for a node that is not pruned.    *)
(***************************************************************************)
EXTENDS Integers

CONSTANTS StripeSize,   \* CRYPTONOTE_PRUNING_STRIPE_SIZE
          LogStripes,   \* CRYPTONOTE_PRUNING_LOG_STRIPES
          TipBlocks     \* CRYPTONOTE_PRUNING_TIP_BLOCKS

ASSUME PruningAssumption ==
    /\ StripeSize \in Nat \ {0}
    /\ LogStripes \in Nat \ {0}   \* 0 in a seed stands for the default
    /\ TipBlocks \in Nat

\* 1ul << k
shifted[k \in 0 .. LogStripes] == IF k = 0 THEN 1 ELSE 2 * shifted[k - 1]

NumStripes == shifted[LogStripes]

Seeds == 0 .. NumStripes

\* The stripe a height falls into, were the whole chain pruned.
stripe_of(height) == ((height \div StripeSize) % NumStripes) + 1

\* The stripe that must be kept to have that block; 0 when every node has it.
get_pruning_stripe(height, chain_height) ==
    IF height + TipBlocks >= chain_height THEN 0 ELSE stripe_of(height)

has_unpruned_block(height, chain_height, seed) ==
    \/ seed = 0
    \/ get_pruning_stripe(height, chain_height) \in {0, seed}

get_next_unpruned_block_height(height, chain_height, seed) ==
    LET cycles == (height \div StripeSize) \div NumStripes
        cycle_start == cycles + (IF seed > stripe_of(height) THEN 0 ELSE 1)
        h == cycle_start * (StripeSize * NumStripes) + (seed - 1) * StripeSize
    IN  IF \/ seed = 0
           \/ height + TipBlocks >= chain_height
           \/ stripe_of(height) = seed
        THEN height
        ELSE IF h + TipBlocks > chain_height
             THEN IF chain_height < TipBlocks THEN 0 ELSE chain_height - TipBlocks
             ELSE h

get_next_pruned_block_height(height, chain_height, seed) ==
    IF seed = 0 \/ height + TipBlocks >= chain_height
    THEN chain_height
    ELSE IF stripe_of(height) # seed
         THEN height
         ELSE get_next_unpruned_block_height(height, chain_height, 1 + (seed % NumStripes))

-----------------------------------------------------------------------------
\* get_next_unpruned_block_height is the first height, from the given one on,
\* whose block the peer has in full: nothing it could deliver is skipped, and
\* it is never asked for a block it has pruned.
NextUnprunedIsFirst(height, chain_height, seed) ==
    LET n == get_next_unpruned_block_height(height, chain_height, seed)
    IN  /\ n >= height /\ has_unpruned_block(n, chain_height, seed)
        /\ \A h \in height .. (n - 1) : ~ has_unpruned_block(h, chain_height, seed)

\* get_next_pruned_block_height is where the blocks the peer has in full from
\* the given height on stop, or a height in the tip, which nobody prunes.
NextPrunedEndsRun(height, chain_height, seed) ==
    LET n == get_next_pruned_block_height(height, chain_height, seed)
    IN  /\ \A h \in height .. (n - 1) : has_unpruned_block(h, chain_height, seed)
        /\ \/ n + TipBlocks >= chain_height
           \/ n >= height /\ ~ has_unpruned_block(n, chain_height, seed)
=============================================================================
