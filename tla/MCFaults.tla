------------------------------ MODULE MCFaults ------------------------------
(* Two branches whose first blocks spend one key image; the lighter one    *)
(* ends in the checkpoint b3.  Every relay method, time passing, blocks    *)
(* popped from the console and a database that fails while it writes a     *)
(* block, on the tip, in a switch and while a switch is undone.            *)
EXTENDS Blockchain, TLC

CONSTANTS g, a1, b1, b2, b3, t1, u1, k1

MCBlock == {g, a1, b1, b2, b3}
MCPrev == a1 :> g @@ b1 :> g @@ b2 :> b1 @@ b3 :> b2
MCChain == g :> {g} @@ a1 :> {g, a1}
           @@ b1 :> {g, b1} @@ b2 :> {g, b1, b2} @@ b3 :> {g, b1, b2, b3}
MCHeight == g :> 0 @@ a1 :> 1 @@ b1 :> 1 @@ b2 :> 2 @@ b3 :> 3
MCCumDiff == g :> 1 @@ a1 :> 6 @@ b1 :> 2 @@ b2 :> 3 @@ b3 :> 4
MCTxsOf == g :> << >> @@ a1 :> <<t1>> @@ b1 :> <<u1>> @@ b2 :> << >> @@ b3 :> << >>
MCNeeds == t1 :> {} @@ u1 :> {}
MCImages == t1 :> {k1} @@ u1 :> {k1}
MCWeight == t1 :> 1 @@ u1 :> 1
MCRank == t1 :> 2 @@ u1 :> 1
=============================================================================
