---------------------------- MODULE MCBlockchain ----------------------------
(* A small block tree: the chain a1 a2 a3 and the branch b1 b2, heavier    *)
(* than a2 and lighter than a3, so that the node can be switched over and  *)
(* back.  The transaction of c2 spends a key image of b1 again, and the    *)
(* miner transaction of d2 is wrong.  u1 spends the same key image as t1,  *)
(* t2 needs an output of t1, and v only competes for room in the pool.     *)
EXTENDS Blockchain, TLC

CONSTANTS g, a1, a2, a3, b1, b2, c2, d2, t1, t2, u1, v, k1, k2, k3

MCBlock == {g, a1, a2, a3, b1, b2, c2, d2}
MCPrev == a1 :> g @@ a2 :> a1 @@ a3 :> a2 @@ b1 :> g @@ b2 :> b1 @@ c2 :> b1 @@ d2 :> a1
MCChain == g :> {g} @@ a1 :> {g, a1} @@ a2 :> {g, a1, a2} @@ a3 :> {g, a1, a2, a3}
           @@ b1 :> {g, b1} @@ b2 :> {g, b1, b2} @@ c2 :> {g, b1, c2} @@ d2 :> {g, a1, d2}
MCHeight == g :> 0 @@ a1 :> 1 @@ a2 :> 2 @@ a3 :> 3 @@ b1 :> 1 @@ b2 :> 2 @@ c2 :> 2 @@ d2 :> 2
MCCumDiff == g :> 1 @@ a1 :> 2 @@ a2 :> 3 @@ a3 :> 5 @@ b1 :> 2 @@ b2 :> 4 @@ c2 :> 4 @@ d2 :> 3
MCTxsOf == g :> << >> @@ a1 :> <<t1>> @@ a2 :> <<t2>> @@ a3 :> << >>
           @@ b1 :> <<u1>> @@ b2 :> << >> @@ c2 :> <<t1>> @@ d2 :> <<t2>>
MCGoodMiner == MCBlock \ {d2}
MCNeeds == t1 :> {} @@ t2 :> {t1} @@ u1 :> {} @@ v :> {}
MCImages == t1 :> {k1} @@ t2 :> {k2} @@ u1 :> {k1} @@ v :> {k3}
MCWeight == t1 :> 1 @@ t2 :> 1 @@ u1 :> 1 @@ v :> 1
MCRank == t1 :> 2 @@ t2 :> 1 @@ u1 :> 3 @@ v :> 4
=============================================================================
