------------------------------- MODULE Ledger -------------------------------
(***************************************************************************)
(* What the block chain promises to those who only see committed states:   *)
(* there is one valid chain, which gives way only to a heavier valid chain *)
(* or to one that a checkpoint decides for, and never loses a checkpoint;  *)
(* only the operator takes blocks off it.                                  *)
(***************************************************************************)
EXTENDS Naturals, Sequences

CONSTANTS Block, Genesis, Chain, Height, CumDiff, TxsOf, Needs, Images, Checkpoint, PopCommand

VARIABLE tip   \* the last block of the committed chain

ChainTxs(b) == UNION {{TxsOf[c][i] : i \in DOMAIN TxsOf[c]} : c \in Chain[b]}

\* Every key image is spent once, every output a transaction needs was made
\* in a block below its own, and no block contradicts a checkpoint.
Valid(b) ==
    /\ \A c, d \in Chain[b] : \A i \in DOMAIN TxsOf[c], j \in DOMAIN TxsOf[d] :
          <<c, i>> # <<d, j>> => Images[TxsOf[c][i]] \cap Images[TxsOf[d][j]] = {}
    /\ \A c \in Chain[b] : \A i \in DOMAIN TxsOf[c] :
          \A n \in Needs[TxsOf[c][i]] : \E d \in Chain[c] \ {c} :
              \E j \in DOMAIN TxsOf[d] : TxsOf[d][j] = n
    /\ \A c \in Chain[b], p \in Checkpoint : Height[c] = Height[p] => c = p

Init == tip = Genesis

Advance ==
    /\ tip' \in Block /\ Valid(tip')
    /\ \/ CumDiff[tip'] > CumDiff[tip]
       \/ (Checkpoint \cap Chain[tip']) \ Chain[tip] # {}
    /\ Checkpoint \cap Chain[tip] \subseteq Chain[tip']

Pop == PopCommand /\ tip' \in Chain[tip]

Spec == Init /\ [][Advance \/ Pop]_tip
=============================================================================
